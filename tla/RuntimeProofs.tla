------------------------------ MODULE RuntimeProofs ------------------------------
(***************************************************************************)
(* Proofs about Runtime and the configuration files it reloads, for any        *)
(* environment, configurations, edits, sources and bounds: what validation      *)
(* makes of a raw configuration survives being shown and posted back, and being *)
(* saved and loaded; reloads that overlap crashes, failed saves and refreshes   *)
(* under way leak no catalog manager, and no catalog goes back; what serves,    *)
(* what is saved and what is shown is one configuration; and requests are       *)
(* routed to what is listed.                                                   *)
(*                                                                           *)
(* ConfigSound: what validation yields.  The argument goes from the inside     *)
(* out, one lemma for a pool, a region, a provider, the keys, the tiers and the *)
(* whole: "...OfSound" says that validation yields it sound, "...Back" that     *)
(* validating what is shown of it gives it back, "...Round" that reading what   *)
(* was saved of it does.                                                       *)
(*                                                                           *)
(* RuntimeInv: a manager has one discovery on its way at most, and what that    *)
(* one brings is no older than what the manager knows.  A manager that was not  *)
(* stopped is the one that serves or the one of a post that is under way; the   *)
(* posts have managers of their own, so stopping one stops no other's.          *)
(*                                                                           *)
(* ConfigInv: every configuration is one that validation can yield, one post    *)
(* is under way at most, and a whole file holds the configuration that serves,  *)
(* or the one of the post that has saved and is about to.                       *)
(*                                                                           *)
(* Knowledge: a manager knows models of the sources its configuration asks.     *)
(***************************************************************************)
EXTENDS Runtime, SequenceTheorems, WellFoundedInduction, TLAPS

------------------------------------------------------------------------------
(* Sequences.                                                              *)

LEMMA LeastMember ==
    ASSUME NEW S \in SUBSET Nat, S # {}
    PROVE  \E n \in S : \A m \in S : n <= m
<1>1. PICK n \in S : \A m \in S : ~(<<m, n>> \in OpToRel(<, Nat))
  BY WFMin, NatLessThanWellFounded
<1>2. \A m \in S : ~(m < n)
  BY <1>1 DEF OpToRel
<1> QED BY <1>2

LEMMA SeqShape ==
    ASSUME NEW s, IsSeq(s)
    PROVE  Len(s) \in Nat /\ DOMAIN s = 1..Len(s)
BY DEF IsSeq

LEMMA SeqIsSeq ==
    ASSUME NEW S, NEW s \in Seq(S)
    PROVE  IsSeq(s)
<1> DEFINE T == Range(s)
<1>1. Len(s) \in Nat /\ s \in [1..Len(s) -> S] /\ DOMAIN s = 1..Len(s)
  BY LenProperties
<1>2. s \in [1..Len(s) -> T]
  BY <1>1 DEF Range
<1>3. s \in UNION {[1..n -> T] : n \in Nat}
  <2> HIDE DEF T
  <2> QED BY <1>1, <1>2
<1>4. s \in Seq(T)
  <2> HIDE DEF T
  <2> QED BY <1>3, SeqDef
<1> QED BY <1>4 DEF IsSeq

LEMMA AppendShape ==
    ASSUME NEW s, IsSeq(s), NEW e, NEW t, t = Append(s, e)
    PROVE  /\ IsSeq(t) /\ Len(t) = Len(s) + 1 /\ t[Len(t)] = e
           /\ DOMAIN t = DOMAIN s \cup {Len(t)} /\ Len(t) \notin DOMAIN s
           /\ \A i \in DOMAIN s : t[i] = s[i]
<1> DEFINE S == {s[i] : i \in DOMAIN s} \cup {e}
<1>1. s \in Seq(S) /\ e \in S
  <2>1. Len(s) \in Nat /\ DOMAIN s = 1..Len(s) /\ s \in [DOMAIN s -> S]
    BY DEF IsSeq, Range
  <2> QED BY <2>1
<1> HIDE DEF S
<1>2. /\ t \in Seq(S) /\ Len(t) = Len(s) + 1 /\ t[Len(t)] = e
      /\ DOMAIN t = DOMAIN s \cup {Len(t)} /\ Len(t) \notin DOMAIN s
      /\ \A i \in DOMAIN s : t[i] = s[i]
  BY <1>1
<1> QED BY <1>2, SeqIsSeq

LEMMA ExceptShape ==
    ASSUME NEW s, IsSeq(s), NEW i \in DOMAIN s, NEW e, NEW t, t = [s EXCEPT ![i] = e]
    PROVE  /\ IsSeq(t) /\ Len(t) = Len(s) /\ DOMAIN t = DOMAIN s /\ t[i] = e
           /\ \A j \in DOMAIN s \ {i} : t[j] = s[j]
<1> DEFINE S == Range(s) \cup {e}
<1>1. s \in Seq(S) /\ e \in S /\ i \in 1..Len(s)
  <2>1. Len(s) \in Nat /\ DOMAIN s = 1..Len(s) /\ s \in [DOMAIN s -> S]
    BY DEF IsSeq, Range
  <2> QED BY <2>1
<1> HIDE DEF S
<1>2. t \in Seq(S) /\ Len(t) = Len(s)
  BY <1>1, ExceptSeq
<1>3. /\ DOMAIN t = DOMAIN s /\ t[i] = e /\ \A j \in DOMAIN s \ {i} : t[j] = s[j]
  BY <1>1
<1> QED BY <1>2, <1>3, SeqIsSeq

LEMMA EmptyShape == IsSeq(<<>>) /\ Len(<<>>) = 0 /\ DOMAIN <<>> = {}
<1>1. <<>> \in Seq({}) /\ Len(<<>>) = 0 /\ DOMAIN <<>> = {}
  OBVIOUS
<1>2. IsSeq(<<>>)
  BY <1>1, SeqIsSeq
<1> QED BY <1>1, <1>2

LEMMA SeqSame ==
    ASSUME NEW s, IsSeq(s), NEW t, IsSeq(t), Len(s) = Len(t),
           \A i \in 1..Len(s) : s[i] = t[i]
    PROVE  s = t
<1>1. DOMAIN s = DOMAIN t /\ DOMAIN s = 1..Len(s)
  BY SeqShape
<1>2. s = [i \in DOMAIN s |-> s[i]] /\ t = [i \in DOMAIN t |-> t[i]]
  BY DEF IsSeq
<1> QED BY <1>1, <1>2

------------------------------------------------------------------------------
(* What a filter keeps: the elements at the places in K.                     *)

Filters(s, K, F) ==
    F = [i \in 0..Len(s) |->
            IF i = 0 THEN <<>> ELSE IF s[i] \in K THEN Append(F[i - 1], s[i]) ELSE F[i - 1]]
FiltersTo(s, K, n, F) ==
    \A i \in 0..n :
        F[i] = IF i = 0 THEN <<>> ELSE IF s[i] \in K THEN Append(F[i - 1], s[i]) ELSE F[i - 1]

LEMMA FilterExists ==
    ASSUME NEW s, Len(s) \in Nat, NEW K
    PROVE  \E F : Filters(s, K, F)
<1> DEFINE Bad == {n \in Nat : ~\E F : FiltersTo(s, K, n, F)}
<1>1. Bad = {}
  <2> SUFFICES ASSUME Bad # {} PROVE FALSE
    OBVIOUS
  <2>1. PICK n \in Bad : \A m \in Bad : n <= m
    <3>1. Bad \in SUBSET Nat
      OBVIOUS
    <3> HIDE DEF Bad
    <3> QED BY <3>1, LeastMember
  <2>2. n \in Nat /\ ~\E F : FiltersTo(s, K, n, F)
    OBVIOUS
  <2>3. n # 0
    <3>1. FiltersTo(s, K, 0, [i \in {0} |-> <<>>])
      BY DEF FiltersTo
    <3> QED BY <2>2, <3>1
  <2>4. n - 1 \in Nat /\ n - 1 \notin Bad
    <3>1. n - 1 \in Nat /\ n - 1 < n
      BY <2>2, <2>3
    <3> HIDE DEF Bad
    <3> QED BY <2>1, <2>2, <3>1
  <2>5. PICK F : FiltersTo(s, K, n - 1, F)
    BY <2>4
  <2> DEFINE G == [i \in 0..n |->
        IF i = n THEN IF s[n] \in K THEN Append(F[n - 1], s[n]) ELSE F[n - 1] ELSE F[i]]
  <2>6. ASSUME NEW i \in 0..n
        PROVE  G[i] = IF i = 0 THEN <<>>
                      ELSE IF s[i] \in K THEN Append(G[i - 1], s[i]) ELSE G[i - 1]
    <3>1. CASE i = n
      <4>1. G[i - 1] = F[n - 1]
        BY <2>2, <2>3, <3>1
      <4> QED BY <2>3, <3>1, <4>1
    <3>2. CASE i # n
      <4>1. i \in 0..(n - 1)
        BY <2>2, <3>2
      <4>2. G[i] = F[i] /\ (i # 0 => G[i - 1] = F[i - 1])
        BY <2>2, <3>2, <4>1
      <4> HIDE DEF G
      <4> QED BY <2>5, <4>1, <4>2 DEF FiltersTo
    <3> QED BY <3>1, <3>2
  <2>7. FiltersTo(s, K, n, G)
    <3> HIDE DEF G
    <3> QED BY <2>6 DEF FiltersTo
  <2> QED BY <2>2, <2>7
<1>2. PICK F : FiltersTo(s, K, Len(s), F)
  BY <1>1
<1> DEFINE G == [i \in 0..Len(s) |-> F[i]]
<1>3. ASSUME NEW i \in 0..Len(s)
      PROVE  G[i] = IF i = 0 THEN <<>>
                    ELSE IF s[i] \in K THEN Append(G[i - 1], s[i]) ELSE G[i - 1]
  <2>1. G[i] = F[i] /\ (i # 0 => G[i - 1] = F[i - 1])
    OBVIOUS
  <2> HIDE DEF G
  <2> QED BY <1>2, <2>1 DEF FiltersTo
<1>4. G = [i \in 0..Len(s) |-> G[i]]
  OBVIOUS
<1>5. Filters(s, K, G)
  <2> HIDE DEF G
  <2> QED BY <1>3, <1>4 DEF Filters
<1> QED BY <1>5

\* t holds the first n elements of s that are in K, in order.
KeepsTo(s, K, n, t) ==
    /\ IsSeq(t)
    /\ \A j \in DOMAIN t : \E i \in 1..n : t[j] = s[i] /\ s[i] \in K
    /\ \A i \in 1..n : s[i] \in K => \E j \in DOMAIN t : t[j] = s[i]
    /\ t # <<>> => \E i \in 1..n : t[1] = s[i] /\ s[i] \in K /\ \A j \in 1..(i - 1) : s[j] \notin K
    /\ (\A i \in 1..n : s[i] \in K) => Len(t) = n /\ \A i \in 1..n : t[i] = s[i]

LEMMA FilterKeeps ==
    ASSUME NEW s, Len(s) \in Nat, NEW K, NEW F, Filters(s, K, F)
    PROVE  KeepsTo(s, K, Len(s), F[Len(s)])
<1>1. \A i \in 0..Len(s) :
        F[i] = IF i = 0 THEN <<>> ELSE IF s[i] \in K THEN Append(F[i - 1], s[i]) ELSE F[i - 1]
  BY DEF Filters
<1> DEFINE Bad == {n \in 0..Len(s) : ~KeepsTo(s, K, n, F[n])}
<1> SUFFICES ASSUME Bad # {} PROVE FALSE
  OBVIOUS
<1>2. PICK n \in Bad : \A m \in Bad : n <= m
  <2>1. Bad \in SUBSET Nat
    OBVIOUS
  <2> HIDE DEF Bad
  <2> QED BY <2>1, LeastMember
<1>3. n \in 0..Len(s) /\ ~KeepsTo(s, K, n, F[n])
  OBVIOUS
<1>4. n # 0
  <2>1. F[0] = <<>> /\ 1..0 = {}
    BY <1>1
  <2>2. KeepsTo(s, K, 0, <<>>)
    BY <2>1, EmptyShape DEF KeepsTo
  <2> QED BY <1>3, <2>1, <2>2
<1> DEFINE m == n - 1
<1> DEFINE u == F[m]
<1> DEFINE t == F[n]
<1>5. m \in 0..Len(s) /\ m \notin Bad /\ m \in Nat /\ n = m + 1
  <2>1. n - 1 \in 0..Len(s) /\ n - 1 < n /\ n - 1 \in Nat
    BY <1>3, <1>4
  <2> HIDE DEF Bad
  <2> QED BY <1>2, <1>3, <2>1
<1>6. KeepsTo(s, K, m, u)
  BY <1>5
<1>7. t = IF s[n] \in K THEN Append(u, s[n]) ELSE u
  BY <1>1, <1>3, <1>4
<1>8. 1..n = 1..m \cup {n} /\ n \notin 1..m
  BY <1>5
<1> HIDE DEF m, u, t, Bad
<1>9. CASE s[n] \notin K
  <2>1. KeepsTo(s, K, m, t) /\ 1..m \subseteq 1..n
    BY <1>6, <1>7, <1>8, <1>9
  <2>2. IsSeq(t) /\ \A j \in DOMAIN t : \E i \in 1..n : t[j] = s[i] /\ s[i] \in K
    BY <2>1 DEF KeepsTo
  <2>3. \A i \in 1..n : s[i] \in K => \E j \in DOMAIN t : t[j] = s[i]
    BY <1>8, <1>9, <2>1 DEF KeepsTo
  <2>4. t # <<>> =>
          \E i \in 1..n : t[1] = s[i] /\ s[i] \in K /\ \A j \in 1..(i - 1) : s[j] \notin K
    BY <2>1 DEF KeepsTo
  <2>5. ~\A i \in 1..n : s[i] \in K
    BY <1>8, <1>9
  <2> QED BY <1>3, <2>2, <2>3, <2>4, <2>5 DEF KeepsTo, t
<1>10. CASE s[n] \in K
  <2>1. IsSeq(u) /\ Len(u) \in Nat /\ DOMAIN u = 1..Len(u)
    BY <1>6, SeqShape DEF KeepsTo
  <2>2. /\ IsSeq(t) /\ Len(t) = Len(u) + 1 /\ t[Len(t)] = s[n]
        /\ DOMAIN t = DOMAIN u \cup {Len(t)} /\ Len(t) \notin DOMAIN u
        /\ \A i \in DOMAIN u : t[i] = u[i]
    <3>1. t = Append(u, s[n]) /\ IsSeq(u)
      BY <1>7, <1>10, <2>1
    <3>2. IsSeq(t) /\ Len(t) = Len(u) + 1
      BY <3>1, AppendShape
    <3>3. t[Len(t)] = s[n]
      BY <3>1, AppendShape
    <3>4. DOMAIN t = DOMAIN u \cup {Len(t)} /\ Len(t) \notin DOMAIN u
      BY <3>1, AppendShape
    <3>5. \A i \in DOMAIN u : t[i] = u[i]
      BY <3>1, AppendShape
    <3> QED BY <3>2, <3>3, <3>4, <3>5
  <2>3. \A j \in DOMAIN t : \E i \in 1..n : t[j] = s[i] /\ s[i] \in K
    <3>1. ASSUME NEW j \in DOMAIN u PROVE \E i \in 1..n : t[j] = s[i] /\ s[i] \in K
      <4>1. PICK i \in 1..m : u[j] = s[i] /\ s[i] \in K
        BY <1>6 DEF KeepsTo
      <4>2. t[j] = u[j] /\ i \in 1..n
        BY <1>8, <2>2
      <4> QED BY <4>1, <4>2
    <3> QED BY <1>8, <1>10, <2>2, <3>1
  <2>4. \A i \in 1..n : s[i] \in K => \E j \in DOMAIN t : t[j] = s[i]
    <3>1. ASSUME NEW i \in 1..m, s[i] \in K PROVE \E j \in DOMAIN t : t[j] = s[i]
      <4>1. PICK j \in DOMAIN u : u[j] = s[i]
        BY <1>6, <3>1 DEF KeepsTo
      <4>2. j \in DOMAIN t /\ t[j] = u[j]
        BY <2>2
      <4> QED BY <4>1, <4>2
    <3> QED BY <1>8, <2>2, <3>1
  <2>5. \E i \in 1..n : t[1] = s[i] /\ s[i] \in K /\ \A j \in 1..(i - 1) : s[j] \notin K
    <3>1. CASE u = <<>>
      <4>1. t[1] = s[n] /\ n - 1 = m
        BY <1>5, <2>2, <3>1, EmptyShape
      <4>2. \A i \in 1..m : s[i] \notin K
        BY <1>6, <3>1, EmptyShape DEF KeepsTo
      <4> QED BY <1>8, <1>10, <4>1, <4>2
    <3>2. CASE u # <<>>
      <4>1. PICK i \in 1..m : u[1] = s[i] /\ s[i] \in K /\ \A j \in 1..(i - 1) : s[j] \notin K
        BY <1>6, <3>2 DEF KeepsTo
      <4>2. 1 \in DOMAIN u
        <5>1. Len(u) # 0
          BY <2>1, <3>2, EmptyShape, SeqSame
        <5> QED BY <2>1, <5>1
      <4> QED BY <1>8, <2>2, <4>1, <4>2
    <3> QED BY <3>1, <3>2
  <2>6. ASSUME \A i \in 1..n : s[i] \in K
        PROVE  Len(t) = n /\ \A i \in 1..n : t[i] = s[i]
    <3>1. Len(u) = m /\ \A i \in 1..m : u[i] = s[i]
      BY <1>6, <1>8, <2>6 DEF KeepsTo
    <3> QED BY <1>5, <1>8, <2>1, <2>2, <3>1
  <2> QED BY <1>3, <2>2, <2>3, <2>4, <2>5, <2>6 DEF KeepsTo, t
<1> QED BY <1>9, <1>10

\* What Only keeps.
LEMMA OnlyKeeps ==
    ASSUME NEW s, Len(s) \in Nat, NEW S
    PROVE  KeepsTo(s, S, Len(s), Only(s, S))
<1> DEFINE G == CHOOSE F : Filters(s, S, F)
<1>1. Only(s, S) = G[Len(s)]
  BY DEF Only, Filters
<1>2. Filters(s, S, G)
  BY FilterExists
<1> HIDE DEF G
<1> QED BY <1>1, <1>2, FilterKeeps

\* What passes as a whole stays as it is.
LEMMA OnlyAll ==
    ASSUME NEW s, IsSeq(s), NEW S, \A i \in DOMAIN s : s[i] \in S
    PROVE  Only(s, S) = s
<1>1. Len(s) \in Nat /\ DOMAIN s = 1..Len(s)
  BY SeqShape
<1> DEFINE t == Only(s, S)
<1>2. KeepsTo(s, S, Len(s), t)
  BY <1>1, OnlyKeeps
<1> HIDE DEF t
<1>3. IsSeq(t) /\ Len(t) = Len(s) /\ \A i \in 1..Len(s) : t[i] = s[i]
  BY <1>1, <1>2 DEF KeepsTo
<1>4. t = s
  BY <1>3, SeqSame
<1> QED BY <1>4 DEF t

\* What is kept is of s and passes.
LEMMA OnlyOf ==
    ASSUME NEW s, IsSeq(s), NEW S
    PROVE  /\ IsSeq(Only(s, S))
           /\ \A j \in DOMAIN Only(s, S) : Only(s, S)[j] \in S /\ Only(s, S)[j] \in Range(s)
<1>1. Len(s) \in Nat /\ DOMAIN s = 1..Len(s)
  BY SeqShape
<1>2. KeepsTo(s, S, Len(s), Only(s, S))
  BY <1>1, OnlyKeeps
<1> QED BY <1>1, <1>2 DEF KeepsTo, Range

\* None is no function, and so no record and no sequence.
NoneIsPlain == \A S, T : None \notin [S -> T]

LEMMA MapIsSome == ASSUME NoneIsPlain, NEW f, IsMap(f) PROVE f # None
<1> DEFINE T == {f[x] : x \in DOMAIN f}
<1>1. f \in [DOMAIN f -> T]
  BY DEF IsMap
<1> HIDE DEF T
<1> QED BY <1>1 DEF NoneIsPlain

LEMMA RecordIsSome == ASSUME NoneIsPlain, NEW r, NEW names, Fields(r, names) PROVE r # None
<1>1. IsMap(r)
  BY DEF Fields, IsMap
<1> QED BY <1>1, MapIsSome

LEMMA SeqIsSome == ASSUME NoneIsPlain, NEW s, IsSeq(s) PROVE s # None
<1>1. IsMap(s)
  BY DEF IsSeq, IsMap
<1> QED BY <1>1, MapIsSome

LEMMA OneShape == ASSUME NEW e PROVE IsSeq(<<e>>) /\ Len(<<e>>) = 1 /\ DOMAIN <<e>> = {1} /\ <<e>>[1] = e
<1>1. <<e>> \in Seq({e}) /\ Len(<<e>>) = 1 /\ DOMAIN <<e>> = {1} /\ <<e>>[1] = e
  OBVIOUS
<1>2. IsSeq(<<e>>)
  BY <1>1, SeqIsSeq
<1> QED BY <1>1, <1>2

------------------------------------------------------------------------------
(* Pools.                                                                  *)

PoolSound(s) ==
    /\ IsSeq(s)
    /\ \A i \in DOMAIN s : /\ Fields(s[i], {"credential", "label"})
                           /\ s[i].credential \in STRING \ {""}

LEMMA PoolOfSound == ASSUME NEW p, RawPool(STRING, p) PROVE PoolSound(PoolOf(p))
<1>1. CASE p.credentials # None
  <2> DEFINE s == p.credentials
             S == {e \in Range(s) : e.credential # ""}
  <2>1. PoolOf(p) = Only(s, S)
    BY <1>1 DEF PoolOf
  <2>2. /\ IsSeq(s)
        /\ \A i \in DOMAIN s : Fields(s[i], {"credential", "label"}) /\ s[i].credential \in STRING
    BY <1>1 DEF RawPool
  <2>3. \A e \in S : Fields(e, {"credential", "label"}) /\ e.credential \in STRING \ {""}
    BY <2>2 DEF Range
  <2> HIDE DEF s, S
  <2>4. IsSeq(Only(s, S)) /\ \A j \in DOMAIN Only(s, S) : Only(s, S)[j] \in S
    BY <2>2, OnlyOf
  <2> QED BY <2>1, <2>3, <2>4 DEF PoolSound
<1>2. CASE p.credentials = None /\ p.credential \in {None, ""}
  <2>1. PoolOf(p) = <<>>
    BY <1>2 DEF PoolOf
  <2> QED BY <2>1, EmptyShape DEF PoolSound
<1>3. CASE p.credentials = None /\ p.credential \notin {None, ""}
  <2> DEFINE e == [credential |-> p.credential, label |-> Default]
  <2>1. PoolOf(p) = <<e>>
    BY <1>3 DEF PoolOf
  <2>2. Fields(e, {"credential", "label"}) /\ e.credential \in STRING \ {""}
    BY <1>3 DEF RawPool, Fields
  <2> HIDE DEF e
  <2> QED BY <2>1, <2>2, OneShape DEF PoolSound
<1> QED BY <1>1, <1>2, <1>3

LEMMA MeantPoolSound ==
    ASSUME NEW s, PoolSound(s)
    PROVE  /\ MeantPool(MeantPool(s)) = MeantPool(s)
           /\ MeantPool(s) = <<>> <=> s = <<>>
<1>1. CASE FlatPool(s) /\ s # <<>>
  <2> DEFINE e == [s[1] EXCEPT !.label = Default]
  <2>1. MeantPool(s) = <<e>>
    BY <1>1 DEF MeantPool
  <2>2. 1 \in DOMAIN s
    <3>1. Len(s) \in Nat /\ DOMAIN s = 1..Len(s) /\ IsSeq(s)
      BY SeqShape DEF PoolSound
    <3>2. Len(s) # 0
      BY <1>1, <3>1, EmptyShape, SeqSame
    <3> QED BY <3>1, <3>2
  <2>3. Fields(s[1], {"credential", "label"})
    BY <2>2 DEF PoolSound
  <2>4. e = [credential |-> s[1].credential, label |-> Default]
    BY <2>3 DEF Fields
  <2>5. e.label = Default /\ [e EXCEPT !.label = Default] = e
    BY <2>4
  <2> HIDE DEF e
  <2>6. FlatPool(<<e>>) /\ <<e>> # <<>> /\ <<e>>[1] = e
    BY <2>5, OneShape DEF FlatPool
  <2>7. MeantPool(<<e>>) = <<e>>
    BY <2>5, <2>6 DEF MeantPool
  <2> QED BY <1>1, <2>1, <2>6, <2>7
<1>2. CASE ~(FlatPool(s) /\ s # <<>>)
  BY <1>2 DEF MeantPool
<1> QED BY <1>1, <1>2

\* A pool is shown as one credential when that says it all.
Shows(q, s) ==
    /\ q.credential = IF FlatPool(s) THEN FlatCredential(s) ELSE None
    /\ q.credentials = IF FlatPool(s) THEN None ELSE s

LEMMA PoolBack ==
    ASSUME NoneIsPlain, NEW s, PoolSound(s), NEW q, Shows(q, s)
    PROVE  RawPool(STRING, q) /\ PoolOf(q) = MeantPool(s)
           /\ (q.credential # None \/ q.credentials # None)
<1>1. Len(s) \in Nat /\ DOMAIN s = 1..Len(s) /\ IsSeq(s)
  BY SeqShape DEF PoolSound
<1>2. s # None
  BY <1>1, SeqIsSome
<1>3. s # <<>> => Fields(s[1], {"credential", "label"}) /\ s[1].credential \in STRING \ {""}
  <2>1. Len(s) = 0 => s = <<>>
    BY <1>1, EmptyShape, SeqSame
  <2>2. s # <<>> => 1 \in DOMAIN s
    BY <1>1, <2>1
  <2> QED BY <2>2 DEF PoolSound
<1>4. None \notin STRING /\ "" \in STRING
  BY NoneAssumption
<1>5. CASE FlatPool(s) /\ s = <<>>
  <2>1. q.credential = "" /\ q.credentials = None
    BY <1>5 DEF Shows, FlatCredential
  <2>2. RawPool(STRING, q) /\ q.credential # None
    BY <1>4, <2>1 DEF RawPool
  <2>3. PoolOf(q) = <<>> /\ MeantPool(s) = s
    BY <1>5, <2>1 DEF PoolOf, MeantPool
  <2> QED BY <1>5, <2>2, <2>3
<1>6. CASE FlatPool(s) /\ s # <<>>
  <2>1. q.credential = s[1].credential /\ q.credentials = None
    BY <1>6 DEF Shows, FlatCredential
  <2>2. q.credential \in STRING \ {""} /\ q.credential # None
    BY <1>3, <1>4, <1>6, <2>1
  <2>3. PoolOf(q) = <<[credential |-> s[1].credential, label |-> Default]>>
    BY <2>1, <2>2 DEF PoolOf
  <2>4. [s[1] EXCEPT !.label = Default] = [credential |-> s[1].credential, label |-> Default]
    <3>1. Fields(s[1], {"credential", "label"})
      BY <1>3, <1>6
    <3> QED BY <3>1 DEF Fields
  <2>5. MeantPool(s) = <<[credential |-> s[1].credential, label |-> Default]>>
    BY <1>6, <2>4 DEF MeantPool
  <2>6. RawPool(STRING, q)
    BY <2>1, <2>2 DEF RawPool
  <2> QED BY <2>2, <2>3, <2>5, <2>6
<1>7. CASE ~FlatPool(s)
  <2>1. q.credential = None /\ q.credentials = s
    BY <1>7 DEF Shows
  <2>2. \A i \in DOMAIN s : s[i] \in {e \in Range(s) : e.credential # ""}
    BY DEF PoolSound, Range
  <2>3. Only(s, {e \in Range(s) : e.credential # ""}) = s
    BY <1>1, <2>2, OnlyAll
  <2>4. PoolOf(q) = s
    BY <1>2, <2>1, <2>3 DEF PoolOf
  <2>5. RawPool(STRING, q)
    BY <1>1, <2>1 DEF RawPool, PoolSound
  <2> QED BY <1>2, <1>7, <2>1, <2>4, <2>5 DEF MeantPool
<1> QED BY <1>5, <1>6, <1>7

------------------------------------------------------------------------------
(* Regions.                                                                *)

\* A region that was validated.
RegionSound(r) ==
    /\ Fields(r, {"modelsUrl", "template", "workspaceId", "pool", "inactive"})
    /\ Secure(r.modelsUrl) /\ (r.template => r.workspaceId # None)
    /\ r.pool # None => PoolSound(r.pool)
    /\ r.inactive = \/ r.modelsUrl = ""
                    \/ r.template /\ r.workspaceId = ""
                    \/ r.pool = <<>>

LEMMA RegionOfSound ==
    ASSUME NEW p, RawRegion(STRING, p), ValidRegion(p)
    PROVE  RegionSound(ValidatedRegion(p))
<1> DEFINE r == ValidatedRegion(p)
<1>1. /\ r.modelsUrl = p.modelsUrl /\ r.template = p.template /\ r.workspaceId = p.workspaceId
      /\ r.pool = RegionPool(p)
      /\ r.inactive = \/ p.modelsUrl = ""
                      \/ p.template /\ p.workspaceId = ""
                      \/ RegionPool(p) = <<>>
      /\ Fields(r, {"modelsUrl", "template", "workspaceId", "pool", "inactive"})
  BY DEF ValidatedRegion, Fields
<1>2. Secure(p.modelsUrl) /\ (p.template => p.workspaceId # None)
  BY DEF ValidRegion
<1>3. RegionPool(p) # None => PoolSound(RegionPool(p))
  <2>1. RawPool(STRING, p)
    BY DEF RawRegion
  <2> QED BY <2>1, PoolOfSound DEF RegionPool
<1> HIDE DEF r
<1> QED BY <1>1, <1>2, <1>3 DEF RegionSound, r

LEMMA RegionBack ==
    ASSUME NoneIsPlain, NEW r, RegionSound(r)
    PROVE  LET q == ShownRegion(r)
           IN /\ RawRegion(STRING, q) /\ ValidRegion(q)
              /\ MeantRegion(ValidatedRegion(q)) = MeantRegion(r)
<1> DEFINE q == ShownRegion(r)
           v == ValidatedRegion(q)
<1>1. /\ Fields(q, {"credential", "credentials", "modelsUrl", "template", "workspaceId"})
      /\ q.modelsUrl = r.modelsUrl /\ q.template = r.template /\ q.workspaceId = r.workspaceId
      /\ r.pool = None => q.credential = None /\ q.credentials = None
      /\ r.pool # None => Shows(q, r.pool)
  BY DEF ShownRegion, Fields, Shows
<1>2. /\ Fields(v, {"modelsUrl", "template", "workspaceId", "pool", "inactive"})
      /\ v.modelsUrl = q.modelsUrl /\ v.template = q.template /\ v.workspaceId = q.workspaceId
      /\ v.pool = RegionPool(q)
      /\ v.inactive = \/ q.modelsUrl = ""
                      \/ q.template /\ q.workspaceId = ""
                      \/ RegionPool(q) = <<>>
  BY DEF ValidatedRegion, Fields
<1> HIDE DEF q, v
<1>3. ValidRegion(q)
  BY <1>1 DEF RegionSound, ValidRegion
<1>4. CASE r.pool = None
  <2>1. RegionPool(q) = None
    BY <1>1, <1>4 DEF RegionPool
  <2>2. RawPool(STRING, q)
    BY <1>1, <1>4 DEF RawPool
  <2>3. v.pool = r.pool
    BY <1>2, <1>4, <2>1
  <2>4. v.inactive = r.inactive
    BY <1>1, <1>2, <2>3 DEF RegionSound
  <2>5. v = r
    BY <1>1, <1>2, <2>3, <2>4 DEF RegionSound, Fields
  <2> QED BY <1>1, <1>3, <2>2, <2>5 DEF RawRegion, q, v
<1>5. CASE r.pool # None
  <2>1. /\ RawPool(STRING, q) /\ PoolOf(q) = MeantPool(r.pool)
        /\ (q.credential # None \/ q.credentials # None)
    BY <1>1, <1>5, PoolBack DEF RegionSound
  <2>2. v.pool = MeantPool(r.pool)
    BY <1>2, <2>1 DEF RegionPool
  <2>3. /\ MeantPool(MeantPool(r.pool)) = MeantPool(r.pool)
        /\ MeantPool(r.pool) = <<>> <=> r.pool = <<>>
    BY <1>5, MeantPoolSound DEF RegionSound
  <2>4. v.inactive = r.inactive
    BY <1>1, <1>2, <2>2, <2>3 DEF RegionSound
  <2>5. v.pool # None
    <3>1. IsSeq(MeantPool(r.pool))
      BY <1>5, OneShape DEF RegionSound, PoolSound, MeantPool
    <3> QED BY <2>2, <3>1, SeqIsSome
  <2>6. MeantRegion(v) = [v EXCEPT !.pool = MeantPool(r.pool)]
    BY <2>2, <2>3, <2>5 DEF MeantRegion
  <2>7. MeantRegion(r) = [r EXCEPT !.pool = MeantPool(r.pool)]
    BY <1>5 DEF MeantRegion
  <2>8. MeantRegion(v) = MeantRegion(r)
    <3> DEFINE one(x) == [modelsUrl |-> x.modelsUrl, template |-> x.template,
                          workspaceId |-> x.workspaceId, pool |-> MeantPool(r.pool),
                          inactive |-> x.inactive]
    <3>1. MeantRegion(v) = one(v)
      BY <1>2, <2>6 DEF Fields
    <3>2. Fields(r, {"modelsUrl", "template", "workspaceId", "pool", "inactive"})
      BY DEF RegionSound
    <3>3. MeantRegion(r) = one(r)
      BY <2>7, <3>2 DEF Fields
    <3>4. one(v) = one(r)
      BY <1>1, <1>2, <2>4
    <3> QED BY <3>1, <3>3, <3>4
  <2> QED BY <1>1, <1>3, <2>1, <2>8 DEF RawRegion, q, v
<1> QED BY <1>4, <1>5

------------------------------------------------------------------------------
(* Providers.                                                              *)

ProviderFields == {"type", "pool", "countTokens", "baseUrl", "template", "workspaceId",
                   "modelsUrl", "regions", "inactive"}

ProviderSound(p) ==
    /\ Fields(p, ProviderFields)
    /\ p.type \in {"anthropic", "openai"}
    /\ PoolSound(p.pool)
    /\ p.regions # None => IsMap(p.regions) /\ \A k \in DOMAIN p.regions : RegionSound(p.regions[k])
    /\ p.template => p.workspaceId # None
    /\ p.baseUrl # None /\ p.modelsUrl # None
    /\ ~p.template /\ (p.baseUrl # "" \/ p.regions = None) => Secure(p.baseUrl)
    /\ p.modelsUrl # "" \/ p.regions = None => Secure(p.modelsUrl)
    /\ p.modelsUrl # "" \/ p.regions = None =>
          p.inactive = \/ p.template /\ p.workspaceId = ""
                       \/ ~p.template /\ p.regions = None /\ p.baseUrl = ""
                       \/ p.modelsUrl = ""
                       \/ p.pool = <<>>

LEMMA ProviderOfSound ==
    ASSUME NoneIsPlain, NEW p, RawProvider(STRING, p), ValidProvider(p)
    PROVE  ProviderSound(ValidatedProvider(p))
<1> DEFINE v == ValidatedProvider(p)
           regions == [k \in DOMAIN p.regions |-> ValidatedRegion(p.regions[k])]
<1>1. /\ v.type = p.type /\ v.pool = PoolOf(p) /\ v.baseUrl = OrEmpty(p.baseUrl)
      /\ v.template = p.template /\ v.workspaceId = p.workspaceId
      /\ v.modelsUrl = OrEmpty(p.modelsUrl)
      /\ v.regions = IF p.regions = None THEN None ELSE regions
      /\ v.inactive = \/ p.template /\ p.workspaceId = ""
                      \/ ~p.template /\ p.regions = None /\ p.baseUrl = ""
                      \/ p.modelsUrl = ""
                      \/ PoolOf(p) = <<>>
      /\ Fields(v, ProviderFields)
  BY DEF ValidatedProvider, Fields, ProviderFields
<1> HIDE DEF v
<1>2. PoolSound(PoolOf(p))
  BY PoolOfSound DEF RawProvider
<1>3. p.regions # None =>
        /\ v.regions # None /\ IsMap(v.regions)
        /\ \A k \in DOMAIN v.regions : RegionSound(v.regions[k])
  <2> SUFFICES ASSUME p.regions # None
               PROVE  /\ v.regions # None /\ IsMap(v.regions)
                      /\ \A k \in DOMAIN v.regions : RegionSound(v.regions[k])
    OBVIOUS
  <2>1. v.regions = regions /\ IsMap(regions)
    BY <1>1 DEF IsMap
  <2>2. \A k \in DOMAIN p.regions : RawRegion(STRING, p.regions[k]) /\ ValidRegion(p.regions[k])
    BY DEF RawProvider, ValidProvider
  <2>3. \A k \in DOMAIN regions : RegionSound(regions[k])
    BY <2>2, RegionOfSound
  <2> QED BY <2>1, <2>3, MapIsSome
<1>4. p.regions = None => v.regions = None
  BY <1>1
<1>5. None # ""
  BY NoneAssumption
<1>6. /\ v.baseUrl # None /\ v.modelsUrl # None
      /\ p.baseUrl # None => v.baseUrl = p.baseUrl
      /\ p.baseUrl = None => v.baseUrl = ""
      /\ p.modelsUrl # None => v.modelsUrl = p.modelsUrl
      /\ p.modelsUrl = None => v.modelsUrl = ""
  BY <1>1, <1>5 DEF OrEmpty
<1>7. /\ p.type \in {"anthropic", "openai"}
      /\ p.template => p.workspaceId # None
      /\ ~p.template /\ (p.baseUrl # None \/ p.regions = None) => Secure(p.baseUrl)
      /\ p.modelsUrl # None \/ p.regions = None => Secure(p.modelsUrl)
  BY DEF ValidProvider
<1>8. \A u : Secure(u) => u # None
  BY DEF Secure
<1>9. v.modelsUrl # "" \/ v.regions = None =>
        v.inactive = \/ v.template /\ v.workspaceId = ""
                     \/ ~v.template /\ v.regions = None /\ v.baseUrl = ""
                     \/ v.modelsUrl = ""
                     \/ v.pool = <<>>
  <2> SUFFICES ASSUME v.modelsUrl # "" \/ v.regions = None
               PROVE  v.inactive = \/ v.template /\ v.workspaceId = ""
                                   \/ ~v.template /\ v.regions = None /\ v.baseUrl = ""
                                   \/ v.modelsUrl = ""
                                   \/ v.pool = <<>>
    OBVIOUS
  <2>1. v.regions = None <=> p.regions = None
    BY <1>3, <1>4
  <2>2. p.regions = None /\ ~p.template => v.baseUrl = p.baseUrl
    BY <1>6, <1>7, <1>8
  <2>3. v.modelsUrl = p.modelsUrl
    BY <1>6, <1>7, <1>8, <2>1
  <2> QED BY <1>1, <2>1, <2>2, <2>3
<1> QED BY <1>1, <1>2, <1>3, <1>4, <1>5, <1>6, <1>7, <1>8, <1>9 DEF ProviderSound, v

LEMMA ProviderBack ==
    ASSUME NoneIsPlain, NEW p, ProviderSound(p)
    PROVE  LET q == ShownProvider(p)
           IN /\ RawProvider(STRING, q) /\ ValidProvider(q)
              /\ MeantProvider(ValidatedProvider(q)) = MeantProvider(p)
<1> DEFINE q == ShownProvider(p)
           v == ValidatedProvider(q)
           shown == [k \in DOMAIN p.regions |-> ShownRegion(p.regions[k])]
           back == [k \in DOMAIN q.regions |-> ValidatedRegion(q.regions[k])]
<1>1. /\ Fields(q, {"type", "countTokens", "credential", "credentials", "baseUrl", "template",
                    "workspaceId", "modelsUrl", "regions"})
      /\ q.type = p.type /\ q.countTokens = p.countTokens
      /\ Shows(q, p.pool)
      /\ q.template = p.template /\ q.workspaceId = p.workspaceId
      /\ q.baseUrl = (IF p.baseUrl # "" \/ p.regions = None THEN p.baseUrl ELSE None)
      /\ q.modelsUrl = (IF p.modelsUrl # "" \/ p.regions = None THEN p.modelsUrl ELSE None)
      /\ q.regions = IF p.regions = None THEN None ELSE shown
  BY DEF ShownProvider, Fields, Shows, UnlessRegional
<1>2. /\ Fields(v, ProviderFields)
      /\ v.type = q.type /\ v.countTokens = q.countTokens /\ v.pool = PoolOf(q)
      /\ v.baseUrl = OrEmpty(q.baseUrl) /\ v.template = q.template
      /\ v.workspaceId = q.workspaceId /\ v.modelsUrl = OrEmpty(q.modelsUrl)
      /\ v.regions = IF q.regions = None THEN None ELSE back
      /\ v.inactive = \/ q.template /\ q.workspaceId = ""
                      \/ ~q.template /\ q.regions = None /\ q.baseUrl = ""
                      \/ q.modelsUrl = ""
                      \/ PoolOf(q) = <<>>
  BY DEF ValidatedProvider, Fields, ProviderFields
<1> HIDE DEF q, v
<1>3. /\ RawPool(STRING, q) /\ PoolOf(q) = MeantPool(p.pool)
      /\ MeantPool(v.pool) = MeantPool(p.pool)
      /\ v.pool = <<>> <=> p.pool = <<>>
  <2>1. PoolSound(p.pool) /\ Shows(q, p.pool)
    BY <1>1 DEF ProviderSound
  <2>2. RawPool(STRING, q) /\ PoolOf(q) = MeantPool(p.pool)
    BY <2>1, PoolBack
  <2>3. /\ MeantPool(MeantPool(p.pool)) = MeantPool(p.pool)
        /\ MeantPool(p.pool) = <<>> <=> p.pool = <<>>
    BY <2>1, MeantPoolSound
  <2> QED BY <1>2, <2>2, <2>3
<1>4. /\ q.regions = None <=> p.regions = None
      /\ p.regions # None =>
            /\ IsMap(q.regions)
            /\ \A k \in DOMAIN q.regions : RawRegion(STRING, q.regions[k])
                                           /\ ValidRegion(q.regions[k])
      /\ v.regions = None <=> p.regions = None
      /\ MeantRegions(v.regions) = MeantRegions(p.regions)
  <2>1. CASE p.regions = None
    BY <1>1, <1>2, <2>1 DEF MeantRegions
  <2>2. CASE p.regions # None
    <3>1. IsMap(shown) /\ q.regions = shown
      BY <1>1, <2>2 DEF IsMap
    <3>2. q.regions # None
      BY <3>1, MapIsSome
    <3>3. IsMap(back) /\ v.regions = back
      BY <1>2, <3>2 DEF IsMap
    <3>4. v.regions # None
      BY <3>3, MapIsSome
    <3>5. \A k \in DOMAIN p.regions : RegionSound(p.regions[k])
      BY <2>2 DEF ProviderSound
    <3>6. \A k \in DOMAIN p.regions :
            /\ RawRegion(STRING, shown[k]) /\ ValidRegion(shown[k])
            /\ MeantRegion(ValidatedRegion(shown[k])) = MeantRegion(p.regions[k])
      BY <3>5, RegionBack
    <3>7. DOMAIN q.regions = DOMAIN p.regions /\ DOMAIN v.regions = DOMAIN p.regions
      BY <3>1, <3>3
    <3>8. \A k \in DOMAIN p.regions : MeantRegion(v.regions[k]) = MeantRegion(p.regions[k])
      BY <3>1, <3>3, <3>6
    <3>9. MeantRegions(v.regions) = MeantRegions(p.regions)
      BY <2>2, <3>4, <3>7, <3>8 DEF MeantRegions
    <3> QED BY <2>2, <3>1, <3>2, <3>4, <3>6, <3>9
  <2> QED BY <2>1, <2>2
<1>5. None # ""
  BY NoneAssumption
<1>6. v.baseUrl = p.baseUrl /\ v.modelsUrl = p.modelsUrl
  BY <1>1, <1>2, <1>5 DEF OrEmpty, ProviderSound
<1>7. ValidProvider(q)
  <2>1. /\ q.type \in {"anthropic", "openai"}
        /\ q.template => q.workspaceId # None
        /\ ~q.template /\ (q.baseUrl # None \/ q.regions = None) => Secure(q.baseUrl)
        /\ q.modelsUrl # None \/ q.regions = None => Secure(q.modelsUrl)
    BY <1>1, <1>4 DEF ProviderSound
  <2> QED BY <1>4, <2>1 DEF ValidProvider
<1>8. RawProvider(STRING, q)
  BY <1>1, <1>3, <1>4 DEF RawProvider
<1>9. p.modelsUrl # "" \/ p.regions = None => v.inactive = p.inactive
  <2> SUFFICES ASSUME p.modelsUrl # "" \/ p.regions = None PROVE v.inactive = p.inactive
    OBVIOUS
  <2>1. q.modelsUrl = p.modelsUrl /\ (p.regions = None => q.baseUrl = p.baseUrl)
    BY <1>1
  <2>2. v.inactive = \/ p.template /\ p.workspaceId = ""
                     \/ ~p.template /\ p.regions = None /\ p.baseUrl = ""
                     \/ p.modelsUrl = ""
                     \/ p.pool = <<>>
    BY <1>1, <1>2, <1>3, <1>4, <2>1
  <2> QED BY <2>2 DEF ProviderSound
<1>10. MeantProvider(v) = MeantProvider(p)
  <2> DEFINE inactive(x) == IF x.regions # None /\ x.modelsUrl = "" THEN None ELSE x.inactive
  <2>1. \A x : MeantProvider(x) = [x EXCEPT !.pool = MeantPool(x.pool),
                                            !.inactive = inactive(x),
                                            !.regions = MeantRegions(x.regions)]
    BY DEF MeantProvider
  <2>2. Fields(p, ProviderFields)
    BY DEF ProviderSound
  <2>3. inactive(v) = inactive(p)
    BY <1>4, <1>6, <1>9
  <2> HIDE DEF inactive
  <2>4. /\ v.type = p.type /\ v.countTokens = p.countTokens /\ v.baseUrl = p.baseUrl
        /\ v.template = p.template /\ v.workspaceId = p.workspaceId
        /\ v.modelsUrl = p.modelsUrl
    BY <1>1, <1>2, <1>6
  <2> DEFINE a == MeantPool(p.pool)
             b == inactive(p)
             c == MeantRegions(p.regions)
  <2>5. MeantPool(v.pool) = a /\ inactive(v) = b /\ MeantRegions(v.regions) = c
    BY <1>3, <1>4, <2>3
  <2> HIDE DEF a, b, c
  <2>6. MeantProvider(v) = [v EXCEPT !.pool = a, !.inactive = b, !.regions = c]
    BY <2>1, <2>5
  <2>7. MeantProvider(p) = [p EXCEPT !.pool = a, !.inactive = b, !.regions = c]
    BY <2>1 DEF a, b, c
  <2>8. Fields(v, ProviderFields)
    BY <1>2
  <2> DEFINE V == MeantProvider(v)
             P == MeantProvider(p)
             kept == ProviderFields \ {"pool", "inactive", "regions"}
  <2>9. /\ Fields(V, ProviderFields) /\ V.pool = a /\ V.inactive = b /\ V.regions = c
        /\ \A f \in kept : V[f] = v[f]
    BY <2>6, <2>8 DEF Fields, ProviderFields
  <2>10. /\ Fields(P, ProviderFields) /\ P.pool = a /\ P.inactive = b /\ P.regions = c
         /\ \A f \in kept : P[f] = p[f]
    BY <2>2, <2>7 DEF Fields, ProviderFields
  <2>11. \A f \in kept : v[f] = p[f]
    BY <2>4 DEF ProviderFields
  <2> HIDE DEF V, P
  <2>12. \A f \in ProviderFields : V[f] = P[f]
    BY <2>9, <2>10, <2>11
  <2>13. V = P
    <3> HIDE DEF kept
    <3> QED BY <2>9, <2>10, <2>12 DEF Fields
  <2> QED BY <2>13 DEF V, P
<1> QED BY <1>7, <1>8, <1>10 DEF q, v

------------------------------------------------------------------------------
(* Configurations.                                                         *)

ConfigFields ==
    {"keys", "primary", "preference", "fallback", "regions", "bedrock", "external", "tiers",
     "refreshMinutes", "maxFailoverAttempts", "maxMessages", "retentionDays"}

KeysSound(keys) ==
    /\ IsSeq(keys)
    /\ keys = <<Ephemeral>> \/ (keys # <<>> /\ \A i \in DOMAIN keys : keys[i] \notin {"", Ephemeral})
TiersSound(tiers) ==
    /\ IsMap(tiers)
    /\ \A n \in DOMAIN tiers :
          /\ IsSeq(tiers[n]) /\ tiers[n] # <<>>
          /\ \A i \in DOMAIN tiers[n] : Parses(tiers[n][i]) /\ tiers[n][i].provider # "virtual"

\* A configuration that was validated.
ConfigSound(c) ==
    /\ Fields(c, ConfigFields)
    /\ KeysSound(c.keys)
    /\ DOMAIN c.regions \subseteq {"us", "eu"} /\ c.primary \in DOMAIN c.regions
    /\ c.preference \in {"global", "regional", "auto"}
    /\ Within(c.refreshMinutes, 1, 1440)
    /\ Within(c.maxFailoverAttempts, 1, 16)
    /\ c.maxMessages # None /\ c.maxMessages > 0
    /\ c.retentionDays = (IF c.retentionDays # None /\ c.retentionDays >= 0 THEN c.retentionDays
                          ELSE DefaultRetention)
    /\ IsMap(c.external)
    /\ \A n \in DOMAIN c.external : n # "bedrock" /\ ProviderSound(c.external[n])
    /\ TiersSound(c.tiers)

LEMMA KeysOfSound ==
    ASSUME NEW keys, IsSeq(keys)
    PROVE  KeysSound(ValidatedKeys(keys))
<1> DEFINE S == Range(keys) \ {"", Ephemeral}
           t == Only(keys, S)
<1>1. ValidatedKeys(keys) = IF t = <<>> THEN <<Ephemeral>> ELSE t
  BY DEF ValidatedKeys
<1>2. IsSeq(t) /\ \A j \in DOMAIN t : t[j] \in S
  <2> HIDE DEF S
  <2> QED BY OnlyOf
<1>3. \A k \in S : k \notin {"", Ephemeral}
  OBVIOUS
<1> HIDE DEF S, t
<1> QED BY <1>1, <1>2, <1>3, OneShape DEF KeysSound

LEMMA KeysBack ==
    ASSUME NEW keys, KeysSound(keys)
    PROVE  ValidatedKeys(keys) = keys
<1> DEFINE S == Range(keys) \ {"", Ephemeral}
           t == Only(keys, S)
<1>1. ValidatedKeys(keys) = IF t = <<>> THEN <<Ephemeral>> ELSE t
  BY DEF ValidatedKeys
<1>2. CASE keys = <<Ephemeral>>
  <2>1. S = {}
    BY <1>2, OneShape DEF Range
  <2>2. IsSeq(t) /\ \A j \in DOMAIN t : t[j] \in S
    <3> HIDE DEF S
    <3> QED BY OnlyOf DEF KeysSound
  <2> HIDE DEF S, t
  <2>3. Len(t) \in Nat /\ DOMAIN t = 1..Len(t)
    BY <2>2, SeqShape
  <2>4. Len(t) = 0
    <3>1. Len(t) > 0 => 1 \in DOMAIN t
      BY <2>3
    <3> QED BY <2>1, <2>2, <2>3, <3>1
  <2>5. t = <<>>
    BY <2>2, <2>4, EmptyShape, SeqSame
  <2> QED BY <1>1, <1>2, <2>5
<1>3. CASE keys # <<>> /\ \A i \in DOMAIN keys : keys[i] \notin {"", Ephemeral}
  <2>1. \A i \in DOMAIN keys : keys[i] \in S
    BY <1>3 DEF Range
  <2>2. t = keys
    <3> HIDE DEF S
    <3> QED BY <2>1, OnlyAll DEF KeysSound
  <2> QED BY <1>1, <1>3, <2>2
<1> QED BY <1>2, <1>3 DEF KeysSound

LEMMA EntriesSound ==
    ASSUME NEW s, IsSeq(s)
    PROVE  /\ IsSeq(KeptEntries(s))
           /\ \A i \in DOMAIN KeptEntries(s) :
                 Parses(KeptEntries(s)[i]) /\ KeptEntries(s)[i].provider # "virtual"
<1> DEFINE S == {id \in Range(s) : Parses(id) /\ id.provider # "virtual"}
<1>1. KeptEntries(s) = Only(s, S)
  BY DEF KeptEntries
<1>2. \A id \in S : Parses(id) /\ id.provider # "virtual"
  OBVIOUS
<1> HIDE DEF S
<1> QED BY <1>1, <1>2, OnlyOf

LEMMA EntriesBack ==
    ASSUME NEW s, IsSeq(s), \A i \in DOMAIN s : Parses(s[i]) /\ s[i].provider # "virtual"
    PROVE  KeptEntries(s) = s
<1>1. \A i \in DOMAIN s : s[i] \in {id \in Range(s) : Parses(id) /\ id.provider # "virtual"}
  BY DEF Range
<1> QED BY <1>1, OnlyAll DEF KeptEntries

LEMMA TiersOfSound ==
    ASSUME NEW tiers, \A n \in DOMAIN tiers : IsSeq(tiers[n])
    PROVE  TiersSound(ValidatedTiers(tiers))
<1> DEFINE N == {n \in DOMAIN tiers : KeptEntries(tiers[n]) # <<>>}
           v == [n \in N |-> KeptEntries(tiers[n])]
<1>1. ValidatedTiers(tiers) = v /\ IsMap(v)
  BY DEF ValidatedTiers, IsMap
<1>2. DOMAIN v = N /\ \A n \in N : v[n] = KeptEntries(tiers[n]) /\ v[n] # <<>> /\ IsSeq(tiers[n])
  OBVIOUS
<1> HIDE DEF v, N
<1>3. \A n \in N : /\ IsSeq(v[n])
                   /\ \A i \in DOMAIN v[n] : Parses(v[n][i]) /\ v[n][i].provider # "virtual"
  BY <1>2, EntriesSound
<1> QED BY <1>1, <1>2, <1>3 DEF TiersSound

LEMMA TiersBack ==
    ASSUME NEW tiers, TiersSound(tiers)
    PROVE  ValidatedTiers(tiers) = tiers
<1>1. \A n \in DOMAIN tiers : KeptEntries(tiers[n]) = tiers[n] /\ tiers[n] # <<>>
  BY EntriesBack DEF TiersSound
<1>2. {n \in DOMAIN tiers : KeptEntries(tiers[n]) # <<>>} = DOMAIN tiers
  BY <1>1
<1>3. ValidatedTiers(tiers) = [n \in DOMAIN tiers |-> tiers[n]]
  BY <1>1, <1>2 DEF ValidatedTiers
<1> QED BY <1>3 DEF TiersSound, IsMap

LEMMA ConfigOfSound ==
    ASSUME NoneIsPlain, NEW raw, RawConfig(STRING, raw), Valid(raw)
    PROVE  ConfigSound(Validated(raw))
<1> DEFINE c == Validated(raw)
           external == [n \in DOMAIN raw.external |-> ValidatedProvider(raw.external[n])]
<1>1. /\ Fields(c, ConfigFields)
      /\ c.keys = ValidatedKeys(raw.keys) /\ c.primary = raw.primary
      /\ c.preference = raw.preference /\ c.regions = raw.regions
      /\ c.external = external /\ c.tiers = ValidatedTiers(raw.tiers)
      /\ c.refreshMinutes = raw.refreshMinutes
      /\ c.maxFailoverAttempts = (IF raw.maxFailoverAttempts = None THEN DefaultAttempts
                                  ELSE raw.maxFailoverAttempts)
      /\ c.maxMessages = (IF raw.maxMessages = None THEN DefaultLimit ELSE raw.maxMessages)
      /\ c.retentionDays = (IF raw.retentionDays # None /\ raw.retentionDays >= 0
                            THEN raw.retentionDays ELSE DefaultRetention)
  BY DEF Validated, Fields, ConfigFields
<1> HIDE DEF c
<1>2. KeysSound(c.keys) /\ TiersSound(c.tiers)
  BY <1>1, KeysOfSound, TiersOfSound DEF RawConfig
<1>3. IsMap(external) /\ \A n \in DOMAIN external : n # "bedrock" /\ ProviderSound(external[n])
  <2>1. \A n \in DOMAIN raw.external :
          n # "bedrock" /\ RawProvider(STRING, raw.external[n]) /\ ValidProvider(raw.external[n])
    BY DEF RawConfig, Valid
  <2>2. \A n \in DOMAIN raw.external : ProviderSound(ValidatedProvider(raw.external[n]))
    BY <2>1, ProviderOfSound
  <2> QED BY <2>1, <2>2 DEF IsMap
<1> HIDE DEF external
<1>4. /\ DOMAIN c.regions \subseteq {"us", "eu"} /\ c.primary \in DOMAIN c.regions
      /\ c.preference \in {"global", "regional", "auto"}
      /\ Within(c.refreshMinutes, 1, 1440)
  BY <1>1 DEF Valid
<1>5. Within(c.maxFailoverAttempts, 1, 16)
  BY <1>1, DefaultsAssumption DEF Valid, Within
<1>6. c.maxMessages # None /\ c.maxMessages > 0
  BY <1>1, DefaultsAssumption DEF Valid
<1>7. c.retentionDays = (IF c.retentionDays # None /\ c.retentionDays >= 0 THEN c.retentionDays
                         ELSE DefaultRetention)
  BY <1>1
<1> QED BY <1>1, <1>2, <1>3, <1>4, <1>5, <1>6, <1>7 DEF ConfigSound, c

\* What the page shows of a configuration, posted back as it is, validates, and says
\* what the configuration says (serializeConfig(), validateConfig()).
THEOREM ShownComesBack ==
    ASSUME NoneIsPlain, NEW c, ConfigSound(c)
    PROVE  /\ RawConfig(STRING, Shown(c)) /\ Valid(Shown(c))
           /\ Meaning(Validated(Shown(c))) = Meaning(c)
<1> DEFINE s == Shown(c)
           v == Validated(s)
           external == [n \in DOMAIN c.external |-> ShownProvider(c.external[n])]
           back == [n \in DOMAIN s.external |-> ValidatedProvider(s.external[n])]
           kept == ConfigFields \ {"external"}
<1>1. /\ Fields(s, ConfigFields) /\ s.external = external
      /\ \A f \in kept : s[f] = c[f]
  BY DEF Shown, ConfigSound, Fields, ConfigFields
<1>2. /\ Fields(v, ConfigFields) /\ v.external = back
      /\ v.keys = ValidatedKeys(s.keys) /\ v.primary = s.primary
      /\ v.preference = s.preference /\ v.fallback = s.fallback /\ v.regions = s.regions
      /\ v.bedrock = s.bedrock /\ v.tiers = ValidatedTiers(s.tiers)
      /\ v.refreshMinutes = s.refreshMinutes
      /\ v.maxFailoverAttempts = (IF s.maxFailoverAttempts = None THEN DefaultAttempts
                                  ELSE s.maxFailoverAttempts)
      /\ v.maxMessages = (IF s.maxMessages = None THEN DefaultLimit ELSE s.maxMessages)
      /\ v.retentionDays = (IF s.retentionDays # None /\ s.retentionDays >= 0
                            THEN s.retentionDays ELSE DefaultRetention)
  BY DEF Validated, Fields, ConfigFields
<1> HIDE DEF s, v
<1>3. \A n \in DOMAIN c.external :
        /\ n # "bedrock" /\ RawProvider(STRING, external[n]) /\ ValidProvider(external[n])
        /\ MeantProvider(ValidatedProvider(external[n])) = MeantProvider(c.external[n])
  BY ProviderBack DEF ConfigSound
<1>4. DOMAIN external = DOMAIN c.external /\ IsMap(external)
  BY DEF IsMap
<1>5. DOMAIN v.external = DOMAIN c.external
      /\ \A n \in DOMAIN c.external : v.external[n] = ValidatedProvider(external[n])
  BY <1>1, <1>2
<1> HIDE DEF external, back
<1>6. /\ s.keys = c.keys /\ s.primary = c.primary /\ s.preference = c.preference
      /\ s.fallback = c.fallback /\ s.regions = c.regions /\ s.bedrock = c.bedrock
      /\ s.tiers = c.tiers /\ s.refreshMinutes = c.refreshMinutes
      /\ s.maxFailoverAttempts = c.maxFailoverAttempts /\ s.maxMessages = c.maxMessages
      /\ s.retentionDays = c.retentionDays
  BY <1>1 DEF ConfigFields
<1>7. RawConfig(STRING, s)
  <2>1. IsSeq(s.keys)
    BY <1>6 DEF ConfigSound, KeysSound
  <2>2. IsMap(s.tiers) /\ \A n \in DOMAIN s.tiers : IsSeq(s.tiers[n])
    BY <1>6 DEF ConfigSound, TiersSound
  <2> QED BY <1>1, <1>3, <1>4, <2>1, <2>2 DEF RawConfig, ConfigFields
<1>8. Valid(s)
  BY <1>1, <1>3, <1>4, <1>6 DEF Valid, ConfigSound, Within
<1>9. \A f \in kept : v[f] = c[f]
  <2>1. v.keys = c.keys /\ v.tiers = c.tiers
    BY <1>2, <1>6, KeysBack, TiersBack DEF ConfigSound
  <2>2. /\ v.primary = c.primary /\ v.preference = c.preference /\ v.fallback = c.fallback
        /\ v.regions = c.regions /\ v.bedrock = c.bedrock
        /\ v.refreshMinutes = c.refreshMinutes
    BY <1>2, <1>6
  <2>3. v.maxFailoverAttempts = c.maxFailoverAttempts /\ v.maxMessages = c.maxMessages
    BY <1>2, <1>6 DEF ConfigSound, Within
  <2>4. v.retentionDays = c.retentionDays
    BY <1>2, <1>6 DEF ConfigSound
  <2> QED BY <2>1, <2>2, <2>3, <2>4 DEF ConfigFields
<1>10. Meaning(v) = Meaning(c)
  <2> DEFINE m(x) == [n \in DOMAIN x.external |-> MeantProvider(x.external[n])]
             V == Meaning(v)
             C == Meaning(c)
  <2>1. m(v) = m(c)
    BY <1>3, <1>5
  <2>2. V = [v EXCEPT !.external = m(v)] /\ C = [c EXCEPT !.external = m(c)]
    BY DEF Meaning
  <2> HIDE DEF m, V, C
  <2>3. /\ Fields(V, ConfigFields) /\ V.external = m(v)
        /\ \A f \in kept : V[f] = v[f]
    BY <1>2, <2>2 DEF Fields, ConfigFields
  <2>4. /\ Fields(C, ConfigFields) /\ C.external = m(c)
        /\ \A f \in kept : C[f] = c[f]
    BY <2>2 DEF ConfigSound, Fields, ConfigFields
  <2>5. \A f \in ConfigFields : V[f] = C[f]
    BY <1>9, <2>1, <2>3, <2>4
  <2>6. V = C
    <3> HIDE DEF kept
    <3> QED BY <2>3, <2>4, <2>5 DEF Fields
  <2> QED BY <2>6 DEF V, C
<1> QED BY <1>7, <1>8, <1>10 DEF s, v

------------------------------------------------------------------------------
(* What is saved is read back.                                             *)

LEMMA RestoreBack ==
    ASSUME NEW e, NEW v
    PROVE  /\ Interpolate(e, Restore(e, v)) = v
           /\ Interpolate(e, Literal(v)) = v
           /\ Interpolate(e, RestoreEmbedded(e, v)) = v
<1>1. Interpolate(e, Literal(v)) = v
  BY DEF Interpolate, Literal
<1>2. Interpolate(e, Restore(e, v)) = v
  <2>1. CASE v # "" /\ \E x \in Var : Named(e, v) = {x}
    <3> DEFINE x == CHOOSE x \in Var : Named(e, v) = {x}
    <3>1. x \in Var /\ Named(e, v) = {x}
      BY <2>1
    <3>2. Restore(e, v) = Reference(x)
      BY <2>1 DEF Restore
    <3> HIDE DEF x
    <3>3. e[x] = v /\ x # None
      BY <3>1, NoneAssumption DEF Named
    <3>4. v # ""
      BY <2>1
    <3>5. Reference(x).var = x
      BY DEF Reference
    <3>6. Interpolate(e, Reference(x)) = v
      BY <3>3, <3>4, <3>5 DEF Interpolate
    <3> QED BY <3>2, <3>6
  <2>2. CASE ~(v # "" /\ \E x \in Var : Named(e, v) = {x})
    BY <1>1, <2>2 DEF Restore
  <2> QED BY <2>1, <2>2
<1> QED BY <1>1, <1>2 DEF RestoreEmbedded

LEMMA RestoreText ==
    ASSUME NEW e, NEW v \in STRING
    PROVE  Restore(e, v) \in Text /\ RestoreEmbedded(e, v) \in Text
<1>1. Literal(v) \in Text
  BY DEF Literal, Text
<1>2. \A x \in Var : Reference(x) \in Text
  BY NoneAssumption DEF Reference, Text
<1>3. Restore(e, v) \in Text
  BY <1>1, <1>2 DEF Restore
<1> QED BY <1>1, <1>3 DEF RestoreEmbedded

LEMMA InterpolateValue ==
    ASSUME NEW e \in [Var -> STRING], NEW t \in Text
    PROVE  Interpolate(e, t) \in STRING
<1>1. t.var \in Var \cup {None} /\ t.text \in STRING
  BY DEF Text
<1> QED BY <1>1 DEF Interpolate

LEMMA TextIsSome ==
    ASSUME NoneIsPlain
    PROVE  /\ \A v : Literal(v) # None
           /\ \A e, v : Restore(e, v) # None /\ RestoreEmbedded(e, v) # None
<1>1. \A v : Literal(v) # None
  <2>1. \A v : Fields(Literal(v), {"var", "text"})
    BY DEF Literal, Fields
  <2> QED BY <2>1, RecordIsSome
<1>2. \A x : Reference(x) # None
  <2>1. \A x : Fields(Reference(x), {"var", "text"})
    BY DEF Reference, Fields
  <2> QED BY <2>1, RecordIsSome
<1> QED BY <1>1, <1>2 DEF Restore, RestoreEmbedded

Opt(x, y) == IF x = None THEN None ELSE y

SavedPool(e, s) ==
    IF s = None THEN None
    ELSE [i \in DOMAIN s |-> [s[i] EXCEPT !.credential = Restore(e, s[i].credential)]]
ParsedPool(e, s) ==
    IF s = None THEN None
    ELSE [i \in DOMAIN s |-> [s[i] EXCEPT !.credential = Interpolate(e, s[i].credential)]]

\* The fields in which q is p as it is saved, or as it is read.
SavedEndpoint(e, p, q) ==
    /\ q.credential = Opt(p.credential, Restore(e, p.credential))
    /\ q.credentials = SavedPool(e, p.credentials)
    /\ q.workspaceId = Opt(p.workspaceId, Restore(e, p.workspaceId))
    /\ q.modelsUrl = Opt(p.modelsUrl, RestoreEmbedded(e, p.modelsUrl))
ParsedEndpoint(e, p, q) ==
    /\ q.credential = Opt(p.credential, Interpolate(e, p.credential))
    /\ q.credentials = ParsedPool(e, p.credentials)
    /\ q.workspaceId = Opt(p.workspaceId, Interpolate(e, p.workspaceId))
    /\ q.modelsUrl = Opt(p.modelsUrl, Interpolate(e, p.modelsUrl))

LEMMA SeqMap ==
    ASSUME NEW s, IsSeq(s), NEW t, IsMap(t), DOMAIN t = DOMAIN s
    PROVE  IsSeq(t) /\ Len(t) = Len(s)
<1> DEFINE S == Range(t)
<1>1. Len(s) \in Nat /\ DOMAIN s = 1..Len(s)
  BY SeqShape
<1>2. t \in [1..Len(s) -> S]
  BY <1>1 DEF IsMap, Range
<1> HIDE DEF S
<1>3. t \in Seq(S)
  BY <1>1, <1>2, SeqDef
<1>4. Len(t) = Len(s)
  BY <1>1, <1>3
<1> QED BY <1>3, <1>4, SeqIsSeq

LEMMA EndpointBack ==
    ASSUME NoneIsPlain, NEW e, NEW p, RawPool(STRING, p), NEW q, SavedEndpoint(e, p, q),
           NEW r, ParsedEndpoint(e, q, r)
    PROVE  /\ RawPool(Text, q)
           /\ r.credential = p.credential /\ r.credentials = p.credentials
           /\ r.workspaceId = p.workspaceId /\ r.modelsUrl = p.modelsUrl
<1>1. /\ r.credential = p.credential /\ r.workspaceId = p.workspaceId
      /\ r.modelsUrl = p.modelsUrl
  BY TextIsSome, RestoreBack DEF SavedEndpoint, ParsedEndpoint, Opt
<1>2. q.credential \in Text \cup {None}
  BY RestoreText DEF SavedEndpoint, Opt, RawPool
<1>3. CASE p.credentials = None
  <2>1. q.credentials = None /\ r.credentials = None
    BY <1>3 DEF SavedEndpoint, SavedPool, ParsedEndpoint, ParsedPool
  <2> QED BY <1>1, <1>2, <1>3, <2>1 DEF RawPool
<1>4. CASE p.credentials # None
  <2> DEFINE s == p.credentials
             t == [i \in DOMAIN s |-> [s[i] EXCEPT !.credential = Restore(e, s[i].credential)]]
             u == [i \in DOMAIN t |-> [t[i] EXCEPT !.credential = Interpolate(e, t[i].credential)]]
  <2>1. q.credentials = t /\ IsMap(t) /\ DOMAIN t = DOMAIN s
    BY <1>4 DEF SavedEndpoint, SavedPool, IsMap
  <2>2. /\ IsSeq(s)
        /\ \A i \in DOMAIN s : Fields(s[i], {"credential", "label"}) /\ s[i].credential \in STRING
    BY <1>4 DEF RawPool
  <2>3. t # None
    BY <2>1, MapIsSome
  <2>4. r.credentials = u /\ IsMap(u) /\ DOMAIN u = DOMAIN s
    BY <2>1, <2>3 DEF ParsedEndpoint, ParsedPool, IsMap
  <2>5. ASSUME NEW i \in DOMAIN s
        PROVE  /\ Fields(t[i], {"credential", "label"}) /\ t[i].credential \in Text
               /\ u[i] = s[i]
    <3> DEFINE a == s[i]
               b == t[i]
               d == u[i]
    <3>1. Fields(a, {"credential", "label"}) /\ a.credential \in STRING
      BY <2>2
    <3>2. b = [a EXCEPT !.credential = Restore(e, a.credential)]
      OBVIOUS
    <3>3. d = [b EXCEPT !.credential = Interpolate(e, b.credential)]
      OBVIOUS
    <3> HIDE DEF a, b, d, t, u
    <3>4. /\ Fields(b, {"credential", "label"}) /\ b.label = a.label
          /\ b.credential = Restore(e, a.credential)
      BY <3>1, <3>2 DEF Fields
    <3>5. /\ Fields(d, {"credential", "label"}) /\ d.label = b.label
          /\ d.credential = Interpolate(e, b.credential)
      BY <3>3, <3>4 DEF Fields
    <3>6. d.credential = a.credential
      BY <3>4, <3>5, RestoreBack
    <3>7. d = a
      BY <3>1, <3>4, <3>5, <3>6 DEF Fields
    <3>8. b.credential \in Text
      BY <3>1, <3>4, RestoreText
    <3> QED BY <3>4, <3>7, <3>8 DEF a, b, d
  <2> HIDE DEF t, u
  <2>6. IsSeq(t)
    BY <2>1, <2>2, SeqMap
  <2>7. u = s
    BY <2>2, <2>4, <2>5 DEF IsMap, IsSeq
  <2>8. RawPool(Text, q)
    BY <1>2, <2>1, <2>5, <2>6 DEF RawPool
  <2> QED BY <1>1, <2>4, <2>7, <2>8
<1> QED BY <1>3, <1>4

LEMMA EndpointParsed ==
    ASSUME NoneIsPlain, NEW e \in [Var -> STRING], NEW q, RawPool(Text, q),
           NEW r, ParsedEndpoint(e, q, r)
    PROVE  RawPool(STRING, r)
<1>1. r.credential \in STRING \cup {None}
  BY InterpolateValue DEF ParsedEndpoint, Opt, RawPool
<1>2. CASE q.credentials = None
  BY <1>1, <1>2 DEF ParsedEndpoint, ParsedPool, RawPool
<1>3. CASE q.credentials # None
  <2> DEFINE t == q.credentials
             u == [i \in DOMAIN t |-> [t[i] EXCEPT !.credential = Interpolate(e, t[i].credential)]]
  <2>1. r.credentials = u /\ IsMap(u) /\ DOMAIN u = DOMAIN t
    BY <1>3 DEF ParsedEndpoint, ParsedPool, IsMap
  <2>2. /\ IsSeq(t)
        /\ \A i \in DOMAIN t : Fields(t[i], {"credential", "label"}) /\ t[i].credential \in Text
    BY <1>3 DEF RawPool
  <2>3. ASSUME NEW i \in DOMAIN t
        PROVE  Fields(u[i], {"credential", "label"}) /\ u[i].credential \in STRING
    <3> DEFINE b == t[i]
               d == u[i]
    <3>1. Fields(b, {"credential", "label"}) /\ b.credential \in Text
      BY <2>2
    <3>2. d = [b EXCEPT !.credential = Interpolate(e, b.credential)]
      OBVIOUS
    <3> HIDE DEF b, d, u
    <3>3. Fields(d, {"credential", "label"}) /\ d.credential = Interpolate(e, b.credential)
      BY <3>1, <3>2 DEF Fields
    <3> QED BY <3>1, <3>3, InterpolateValue DEF d
  <2> HIDE DEF u
  <2>4. IsSeq(u)
    BY <2>1, <2>2, SeqMap
  <2> QED BY <1>1, <2>1, <2>3, <2>4 DEF RawPool
<1> QED BY <1>2, <1>3

SavedMap(e, p) ==
    MapEndpoint(LAMBDA v : Restore(e, v), LAMBDA v : RestoreEmbedded(e, v), p)
ParsedMap(e, p) ==
    MapEndpoint(LAMBDA v : Interpolate(e, v), LAMBDA v : Interpolate(e, v), p)
SavedProvider(e, p) ==
    MapProvider(LAMBDA v : Restore(e, v), LAMBDA v : RestoreEmbedded(e, v), Literal, p)
ParsedProvider(e, p) ==
    MapProvider(LAMBDA v : Interpolate(e, v), LAMBDA v : Interpolate(e, v), LAMBDA v : Interpolate(e, v), p)

LEMMA SavedProviderDef ==
    ASSUME NEW e, NEW p
    PROVE  SavedProvider(e, p) =
            [SavedMap(e, p) EXCEPT
        !.baseUrl = Opt(p.baseUrl, Literal(p.baseUrl)),
        !.regions = IF p.regions = None THEN None
                    ELSE [k \in DOMAIN p.regions |-> SavedMap(e, p.regions[k])]]
BY DEF SavedProvider, MapProvider, SavedMap, Unless, Opt, MapEndpoint, MapPool

LEMMA ParsedProviderDef ==
    ASSUME NEW e, NEW p
    PROVE  ParsedProvider(e, p) =
            [ParsedMap(e, p) EXCEPT
        !.baseUrl = Opt(p.baseUrl, Interpolate(e, p.baseUrl)),
        !.regions = IF p.regions = None THEN None
                    ELSE [k \in DOMAIN p.regions |-> ParsedMap(e, p.regions[k])]]
BY DEF ParsedProvider, MapProvider, ParsedMap, Unless, Opt, MapEndpoint, MapPool

LEMMA SavedDef ==
    ASSUME NEW e, NEW c
    PROVE  Saved(e, c) =
            [Shown(c) EXCEPT
                !.keys = [i \in DOMAIN Shown(c).keys |-> RestoreKey(e, Shown(c).keys[i])],
                !.bedrock = Opt(Shown(c).bedrock, Restore(e, Shown(c).bedrock)),
                !.external = [n \in DOMAIN Shown(c).external |-> SavedProvider(e, Shown(c).external[n])]]
BY DEF Saved, MapTexts, SavedProvider, MapProvider, MapEndpoint, MapPool, Unless, Opt

LEMMA ParsedDef ==
    ASSUME NEW e, NEW f
    PROVE  Parsed(e, f) =
            [f EXCEPT
                !.keys = [i \in DOMAIN f.keys |-> Interpolate(e, f.keys[i])],
                !.bedrock = Opt(f.bedrock, Interpolate(e, f.bedrock)),
                !.external = [n \in DOMAIN f.external |-> ParsedProvider(e, f.external[n])]]
BY DEF Parsed, MapTexts, ParsedProvider, MapProvider, MapEndpoint, MapPool, Unless, Opt

EndpointFields == {"credential", "credentials", "workspaceId", "modelsUrl"}

LEMMA SavedMapShape ==
    ASSUME NEW e, NEW p, NEW names, Fields(p, names), EndpointFields \subseteq names
    PROVE  /\ Fields(SavedMap(e, p), names) /\ SavedEndpoint(e, p, SavedMap(e, p))
           /\ \A f \in names \ EndpointFields : SavedMap(e, p)[f] = p[f]
<1> DEFINE q == SavedMap(e, p)
<1>1. q = [p EXCEPT !.credential = Opt(p.credential, Restore(e, p.credential)),
                    !.credentials = SavedPool(e, p.credentials),
                    !.workspaceId = Opt(p.workspaceId, Restore(e, p.workspaceId)),
                    !.modelsUrl = Opt(p.modelsUrl, RestoreEmbedded(e, p.modelsUrl))]
  BY DEF SavedMap, MapEndpoint, MapPool, Unless, Opt, SavedPool
<1> HIDE DEF q
<1>2. Fields(q, names) /\ \A f \in names \ EndpointFields : q[f] = p[f]
  BY <1>1 DEF Fields, EndpointFields
<1>3. SavedEndpoint(e, p, q)
  BY <1>1 DEF Fields, EndpointFields, SavedEndpoint
<1> QED BY <1>2, <1>3 DEF q

LEMMA ParsedMapShape ==
    ASSUME NEW e, NEW p, NEW names, Fields(p, names), EndpointFields \subseteq names
    PROVE  /\ Fields(ParsedMap(e, p), names) /\ ParsedEndpoint(e, p, ParsedMap(e, p))
           /\ \A f \in names \ EndpointFields : ParsedMap(e, p)[f] = p[f]
<1> DEFINE q == ParsedMap(e, p)
<1>1. q = [p EXCEPT !.credential = Opt(p.credential, Interpolate(e, p.credential)),
                    !.credentials = ParsedPool(e, p.credentials),
                    !.workspaceId = Opt(p.workspaceId, Interpolate(e, p.workspaceId)),
                    !.modelsUrl = Opt(p.modelsUrl, Interpolate(e, p.modelsUrl))]
  BY DEF ParsedMap, MapEndpoint, MapPool, Unless, Opt, ParsedPool
<1> HIDE DEF q
<1>2. Fields(q, names) /\ \A f \in names \ EndpointFields : q[f] = p[f]
  BY <1>1 DEF Fields, EndpointFields
<1>3. ParsedEndpoint(e, p, q)
  BY <1>1 DEF Fields, EndpointFields, ParsedEndpoint
<1> QED BY <1>2, <1>3 DEF q

RegionNames == {"credential", "credentials", "modelsUrl", "template", "workspaceId"}
ProviderNames == {"type", "countTokens", "credential", "credentials", "baseUrl", "template",
                  "workspaceId", "modelsUrl", "regions"}

LEMMA SavedProviderShape ==
    ASSUME NEW e, NEW p, Fields(p, ProviderNames)
    PROVE  LET q == SavedProvider(e, p) IN
           /\ Fields(q, ProviderNames) /\ SavedEndpoint(e, p, q)
           /\ q.type = p.type /\ q.countTokens = p.countTokens /\ q.template = p.template
           /\ q.baseUrl = Opt(p.baseUrl, Literal(p.baseUrl))
           /\ q.regions = IF p.regions = None THEN None
                          ELSE [k \in DOMAIN p.regions |-> SavedMap(e, p.regions[k])]
<1> DEFINE b == Opt(p.baseUrl, Literal(p.baseUrl))
           g == IF p.regions = None THEN None
                ELSE [k \in DOMAIN p.regions |-> SavedMap(e, p.regions[k])]
           m == SavedMap(e, p)
           q == SavedProvider(e, p)
<1>1. q = [m EXCEPT !.baseUrl = b, !.regions = g]
  BY SavedProviderDef
<1>2. /\ Fields(m, ProviderNames) /\ SavedEndpoint(e, p, m)
      /\ \A f \in ProviderNames \ EndpointFields : m[f] = p[f]
  <2>1. EndpointFields \subseteq ProviderNames
    BY DEF ProviderNames, EndpointFields
  <2> QED BY <2>1, SavedMapShape
<1> HIDE DEF b, g, m, q
<1>3. /\ Fields(q, ProviderNames) /\ q.baseUrl = b /\ q.regions = g
      /\ \A f \in ProviderNames \ {"baseUrl", "regions"} : q[f] = m[f]
  BY <1>1, <1>2 DEF Fields, ProviderNames
<1>4. q.type = p.type /\ q.countTokens = p.countTokens /\ q.template = p.template
  BY <1>2, <1>3 DEF ProviderNames, EndpointFields
<1>5. SavedEndpoint(e, p, q)
  BY <1>2, <1>3 DEF SavedEndpoint, ProviderNames
<1> QED BY <1>3, <1>4, <1>5 DEF b, g, q

LEMMA ParsedProviderShape ==
    ASSUME NEW e, NEW p, Fields(p, ProviderNames)
    PROVE  LET q == ParsedProvider(e, p) IN
           /\ Fields(q, ProviderNames) /\ ParsedEndpoint(e, p, q)
           /\ q.type = p.type /\ q.countTokens = p.countTokens /\ q.template = p.template
           /\ q.baseUrl = Opt(p.baseUrl, Interpolate(e, p.baseUrl))
           /\ q.regions = IF p.regions = None THEN None
                          ELSE [k \in DOMAIN p.regions |-> ParsedMap(e, p.regions[k])]
<1> DEFINE b == Opt(p.baseUrl, Interpolate(e, p.baseUrl))
           g == IF p.regions = None THEN None
                ELSE [k \in DOMAIN p.regions |-> ParsedMap(e, p.regions[k])]
           m == ParsedMap(e, p)
           q == ParsedProvider(e, p)
<1>1. q = [m EXCEPT !.baseUrl = b, !.regions = g]
  BY ParsedProviderDef
<1>2. /\ Fields(m, ProviderNames) /\ ParsedEndpoint(e, p, m)
      /\ \A f \in ProviderNames \ EndpointFields : m[f] = p[f]
  <2>1. EndpointFields \subseteq ProviderNames
    BY DEF ProviderNames, EndpointFields
  <2> QED BY <2>1, ParsedMapShape
<1> HIDE DEF b, g, m, q
<1>3. /\ Fields(q, ProviderNames) /\ q.baseUrl = b /\ q.regions = g
      /\ \A f \in ProviderNames \ {"baseUrl", "regions"} : q[f] = m[f]
  BY <1>1, <1>2 DEF Fields, ProviderNames
<1>4. q.type = p.type /\ q.countTokens = p.countTokens /\ q.template = p.template
  BY <1>2, <1>3 DEF ProviderNames, EndpointFields
<1>5. ParsedEndpoint(e, p, q)
  BY <1>2, <1>3 DEF ParsedEndpoint, ProviderNames
<1> QED BY <1>3, <1>4, <1>5 DEF b, g, q

LEMMA RegionRound ==
    ASSUME NoneIsPlain, NEW e, NEW p, RawRegion(STRING, p)
    PROVE  RawRegion(Text, SavedMap(e, p)) /\ ParsedMap(e, SavedMap(e, p)) = p
<1> DEFINE q == SavedMap(e, p)
           r == ParsedMap(e, q)
<1>1. Fields(p, RegionNames) /\ RawPool(STRING, p)
  BY DEF RawRegion, RegionNames
<1>2. Fields(q, RegionNames) /\ SavedEndpoint(e, p, q) /\ q.template = p.template
  BY <1>1, SavedMapShape DEF RegionNames, EndpointFields
<1> HIDE DEF q
<1>3. Fields(r, RegionNames) /\ ParsedEndpoint(e, q, r) /\ r.template = q.template
  <2>1. EndpointFields \subseteq RegionNames /\ "template" \in RegionNames \ EndpointFields
    BY DEF RegionNames, EndpointFields
  <2>2. Fields(q, RegionNames)
    BY <1>2
  <2> QED BY <2>1, <2>2, ParsedMapShape
<1> HIDE DEF r
<1>4. /\ RawPool(Text, q)
      /\ r.credential = p.credential /\ r.credentials = p.credentials
      /\ r.workspaceId = p.workspaceId /\ r.modelsUrl = p.modelsUrl
  BY <1>1, <1>2, <1>3, EndpointBack
<1>5. r = p
  BY <1>1, <1>2, <1>3, <1>4 DEF Fields, RegionNames
<1> QED BY <1>2, <1>4, <1>5 DEF RawRegion, RegionNames, q, r

LEMMA RegionParsed ==
    ASSUME NoneIsPlain, NEW e \in [Var -> STRING], NEW q, RawRegion(Text, q)
    PROVE  RawRegion(STRING, ParsedMap(e, q))
<1> DEFINE r == ParsedMap(e, q)
<1>1. Fields(q, RegionNames) /\ RawPool(Text, q)
  BY DEF RawRegion, RegionNames
<1>2. Fields(r, RegionNames) /\ ParsedEndpoint(e, q, r)
  BY <1>1, ParsedMapShape DEF RegionNames, EndpointFields
<1> HIDE DEF r
<1> QED BY <1>1, <1>2, EndpointParsed DEF RawRegion, RegionNames, r

LEMMA ProviderRound ==
    ASSUME NoneIsPlain, NEW e, NEW p, RawProvider(STRING, p)
    PROVE  RawProvider(Text, SavedProvider(e, p)) /\ ParsedProvider(e, SavedProvider(e, p)) = p
<1> DEFINE q == SavedProvider(e, p)
           r == ParsedProvider(e, q)
           t == [k \in DOMAIN p.regions |-> SavedMap(e, p.regions[k])]
           u == [k \in DOMAIN q.regions |-> ParsedMap(e, q.regions[k])]
<1>1. Fields(p, ProviderNames) /\ RawPool(STRING, p)
  BY DEF RawProvider, ProviderNames
<1>2. /\ Fields(q, ProviderNames) /\ SavedEndpoint(e, p, q)
      /\ q.type = p.type /\ q.countTokens = p.countTokens /\ q.template = p.template
      /\ q.baseUrl = Opt(p.baseUrl, Literal(p.baseUrl))
      /\ q.regions = IF p.regions = None THEN None ELSE t
  BY <1>1, SavedProviderShape
<1> HIDE DEF q
<1>3. /\ Fields(r, ProviderNames) /\ ParsedEndpoint(e, q, r)
      /\ r.type = q.type /\ r.countTokens = q.countTokens /\ r.template = q.template
      /\ r.baseUrl = Opt(q.baseUrl, Interpolate(e, q.baseUrl))
      /\ r.regions = IF q.regions = None THEN None ELSE u
  BY <1>2, ParsedProviderShape
<1> HIDE DEF r
<1>4. /\ RawPool(Text, q)
      /\ r.credential = p.credential /\ r.credentials = p.credentials
      /\ r.workspaceId = p.workspaceId /\ r.modelsUrl = p.modelsUrl
  BY <1>1, <1>2, <1>3, EndpointBack
<1>5. r.baseUrl = p.baseUrl
  BY <1>2, <1>3, TextIsSome, RestoreBack DEF Opt
<1>6. /\ q.regions # None => IsMap(q.regions) /\ \A k \in DOMAIN q.regions : RawRegion(Text, q.regions[k])
      /\ r.regions = p.regions
  <2>1. CASE p.regions = None
    BY <1>2, <1>3, <2>1
  <2>2. CASE p.regions # None
    <3>1. IsMap(p.regions) /\ \A k \in DOMAIN p.regions : RawRegion(STRING, p.regions[k])
      BY <2>2 DEF RawProvider
    <3>2. q.regions = t /\ IsMap(t) /\ DOMAIN t = DOMAIN p.regions
      BY <1>2, <2>2 DEF IsMap
    <3>3. t # None
      BY <3>2, MapIsSome
    <3>4. r.regions = u /\ DOMAIN u = DOMAIN p.regions
      BY <1>3, <3>2, <3>3
    <3>5. \A k \in DOMAIN p.regions : /\ RawRegion(Text, t[k])
                                      /\ ParsedMap(e, t[k]) = p.regions[k]
      BY <3>1, RegionRound
    <3>6. u = p.regions
      BY <3>1, <3>2, <3>4, <3>5 DEF IsMap
    <3> QED BY <3>2, <3>4, <3>5, <3>6
  <2> QED BY <2>1, <2>2
<1> HIDE DEF t, u
<1>7. r = p
  BY <1>1, <1>2, <1>3, <1>4, <1>5, <1>6 DEF Fields, ProviderNames
<1>8. RawProvider(Text, q)
  BY <1>2, <1>4, <1>6 DEF RawProvider, ProviderNames
<1> QED BY <1>7, <1>8 DEF q, r

LEMMA ProviderParsed ==
    ASSUME NoneIsPlain, NEW e \in [Var -> STRING], NEW q, RawProvider(Text, q)
    PROVE  RawProvider(STRING, ParsedProvider(e, q))
<1> DEFINE r == ParsedProvider(e, q)
           u == [k \in DOMAIN q.regions |-> ParsedMap(e, q.regions[k])]
<1>1. Fields(q, ProviderNames) /\ RawPool(Text, q)
  BY DEF RawProvider, ProviderNames
<1>2. /\ Fields(r, ProviderNames) /\ ParsedEndpoint(e, q, r)
      /\ r.regions = IF q.regions = None THEN None ELSE u
  BY <1>1, ParsedProviderShape
<1> HIDE DEF r
<1>3. RawPool(STRING, r)
  BY <1>1, <1>2, EndpointParsed
<1>4. r.regions # None => IsMap(r.regions) /\ \A k \in DOMAIN r.regions : RawRegion(STRING, r.regions[k])
  <2>1. CASE q.regions = None
    BY <1>2, <2>1
  <2>2. CASE q.regions # None
    <3>1. \A k \in DOMAIN q.regions : RawRegion(Text, q.regions[k])
      BY <2>2 DEF RawProvider
    <3>2. r.regions = u /\ IsMap(u) /\ DOMAIN u = DOMAIN q.regions
      BY <1>2, <2>2 DEF IsMap
    <3>3. \A k \in DOMAIN q.regions : RawRegion(STRING, u[k])
      BY <3>1, RegionParsed
    <3> QED BY <3>2, <3>3
  <2> QED BY <2>1, <2>2
<1> QED BY <1>2, <1>3, <1>4 DEF RawProvider, ProviderNames, r

TextFields == {"keys", "bedrock", "external"}

LEMMA SavedShape ==
    ASSUME NEW e, NEW c, Fields(Shown(c), ConfigFields)
    PROVE  LET s == Shown(c)
               f == Saved(e, c)
           IN /\ Fields(f, ConfigFields)
              /\ f.keys = [i \in DOMAIN s.keys |-> RestoreKey(e, s.keys[i])]
              /\ f.bedrock = Opt(s.bedrock, Restore(e, s.bedrock))
              /\ f.external = [n \in DOMAIN s.external |-> SavedProvider(e, s.external[n])]
              /\ \A x \in ConfigFields \ TextFields : f[x] = s[x]
<1> DEFINE s == Shown(c)
           f == Saved(e, c)
           keys == [i \in DOMAIN s.keys |-> RestoreKey(e, s.keys[i])]
           bedrock == Opt(s.bedrock, Restore(e, s.bedrock))
           external == [n \in DOMAIN s.external |-> SavedProvider(e, s.external[n])]
<1>1. f = [s EXCEPT !.keys = keys, !.bedrock = bedrock, !.external = external]
  BY SavedDef
<1> HIDE DEF s, f, keys, bedrock, external
<1>2. Fields(s, ConfigFields)
  BY DEF s
<1>3. /\ Fields(f, ConfigFields) /\ f.keys = keys /\ f.bedrock = bedrock /\ f.external = external
      /\ \A x \in ConfigFields \ TextFields : f[x] = s[x]
  BY <1>1, <1>2 DEF Fields, ConfigFields, TextFields
<1> QED BY <1>3 DEF s, f, keys, bedrock, external

LEMMA ParsedShape ==
    ASSUME NEW e, NEW f, Fields(f, ConfigFields)
    PROVE  LET s == Parsed(e, f)
           IN /\ Fields(s, ConfigFields)
              /\ s.keys = [i \in DOMAIN f.keys |-> Interpolate(e, f.keys[i])]
              /\ s.bedrock = Opt(f.bedrock, Interpolate(e, f.bedrock))
              /\ s.external = [n \in DOMAIN f.external |-> ParsedProvider(e, f.external[n])]
              /\ \A x \in ConfigFields \ TextFields : s[x] = f[x]
<1> DEFINE s == Parsed(e, f)
           keys == [i \in DOMAIN f.keys |-> Interpolate(e, f.keys[i])]
           bedrock == Opt(f.bedrock, Interpolate(e, f.bedrock))
           external == [n \in DOMAIN f.external |-> ParsedProvider(e, f.external[n])]
<1>1. s = [f EXCEPT !.keys = keys, !.bedrock = bedrock, !.external = external]
  BY ParsedDef
<1> HIDE DEF s, keys, bedrock, external
<1>2. /\ Fields(s, ConfigFields) /\ s.keys = keys /\ s.bedrock = bedrock /\ s.external = external
      /\ \A x \in ConfigFields \ TextFields : s[x] = f[x]
  BY <1>1 DEF Fields, ConfigFields, TextFields
<1> QED BY <1>2 DEF s, keys, bedrock, external

\* What a file says is a posted configuration.
LEMMA ConfigParsed ==
    ASSUME NoneIsPlain, NEW e \in [Var -> STRING], NEW f, RawConfig(Text, f)
    PROVE  RawConfig(STRING, Parsed(e, f))
<1> DEFINE s == Parsed(e, f)
           keys == [i \in DOMAIN f.keys |-> Interpolate(e, f.keys[i])]
           external == [n \in DOMAIN f.external |-> ParsedProvider(e, f.external[n])]
<1>1. /\ Fields(f, ConfigFields) /\ IsSeq(f.keys)
      /\ IsMap(f.external)
      /\ \A n \in DOMAIN f.external : n # "bedrock" /\ RawProvider(Text, f.external[n])
      /\ IsMap(f.tiers) /\ \A n \in DOMAIN f.tiers : IsSeq(f.tiers[n])
  BY DEF RawConfig, ConfigFields
<1>2. /\ Fields(s, ConfigFields) /\ s.keys = keys /\ s.external = external /\ s.tiers = f.tiers
  <2>1. "tiers" \in ConfigFields \ TextFields
    BY DEF ConfigFields, TextFields
  <2> QED BY <1>1, <2>1, ParsedShape
<1>3. IsSeq(keys)
  <2>1. IsMap(keys) /\ DOMAIN keys = DOMAIN f.keys
    BY DEF IsMap
  <2> HIDE DEF keys
  <2> QED BY <1>1, <2>1, SeqMap
<1>4. /\ IsMap(external)
      /\ \A n \in DOMAIN external : n # "bedrock" /\ RawProvider(STRING, external[n])
  BY <1>1, ProviderParsed DEF IsMap
<1> HIDE DEF keys, external, s
<1> QED BY <1>1, <1>2, <1>3, <1>4 DEF RawConfig, ConfigFields, s

\* What is saved reads back as what is shown, but for a key that is made anew.
LEMMA SavedBack ==
    ASSUME NoneIsPlain, NEW e, NEW c, ConfigSound(c)
    PROVE  LET f == Saved(e, c)
               r == Parsed(e, f)
           IN /\ RawConfig(Text, f)
              /\ Fields(r, ConfigFields)
              /\ \A x \in ConfigFields \ {"keys"} : r[x] = Shown(c)[x]
              /\ c.keys # <<Ephemeral>> => r.keys = c.keys
<1> DEFINE s == Shown(c)
           f == Saved(e, c)
           r == Parsed(e, f)
           keys == [i \in DOMAIN s.keys |-> RestoreKey(e, s.keys[i])]
           kept == [i \in DOMAIN f.keys |-> Interpolate(e, f.keys[i])]
           external == [n \in DOMAIN s.external |-> SavedProvider(e, s.external[n])]
           back == [n \in DOMAIN f.external |-> ParsedProvider(e, f.external[n])]
<1>1. /\ RawConfig(STRING, s) /\ Fields(s, ConfigFields) /\ s.keys = c.keys
  <2>1. RawConfig(STRING, s)
    BY ShownComesBack
  <2>2. s.keys = c.keys
    BY DEF Shown, ConfigSound, Fields, ConfigFields
  <2> QED BY <2>1, <2>2 DEF RawConfig, ConfigFields
<1>2. /\ Fields(f, ConfigFields) /\ f.keys = keys
      /\ f.bedrock = Opt(s.bedrock, Restore(e, s.bedrock)) /\ f.external = external
      /\ \A x \in ConfigFields \ TextFields : f[x] = s[x]
  BY <1>1, SavedShape
<1> HIDE DEF f, s
<1>3. /\ Fields(r, ConfigFields) /\ r.keys = kept
      /\ r.bedrock = Opt(f.bedrock, Interpolate(e, f.bedrock)) /\ r.external = back
      /\ \A x \in ConfigFields \ TextFields : r[x] = f[x]
  BY <1>2, ParsedShape
<1> HIDE DEF r
<1>4. IsSeq(f.keys) /\ DOMAIN keys = DOMAIN s.keys
  <2>1. IsMap(keys) /\ DOMAIN keys = DOMAIN s.keys /\ IsSeq(s.keys)
    BY <1>1 DEF IsMap, RawConfig
  <2> HIDE DEF keys
  <2> QED BY <1>2, <2>1, SeqMap
<1>5. \A n \in DOMAIN s.external : /\ n # "bedrock" /\ RawProvider(Text, external[n])
                                   /\ ParsedProvider(e, external[n]) = s.external[n]
  BY <1>1, ProviderRound DEF RawConfig
<1>6. IsMap(external) /\ DOMAIN external = DOMAIN s.external /\ IsMap(s.external)
  BY <1>1 DEF IsMap, RawConfig
<1>7. back = s.external
  BY <1>2, <1>5, <1>6 DEF IsMap
<1>8. r.bedrock = s.bedrock
  BY <1>2, <1>3, TextIsSome, RestoreBack DEF Opt
<1>9. RawConfig(Text, f)
  <2>1. f.tiers = s.tiers
    BY <1>2 DEF ConfigFields, TextFields
  <2>2. IsMap(s.tiers) /\ \A n \in DOMAIN s.tiers : IsSeq(s.tiers[n])
    BY <1>1 DEF RawConfig
  <2> HIDE DEF external, keys
  <2> QED BY <1>2, <1>4, <1>5, <1>6, <2>1, <2>2 DEF RawConfig, ConfigFields
<1>10. \A x \in ConfigFields \ {"keys"} : r[x] = s[x]
  BY <1>2, <1>3, <1>7, <1>8 DEF TextFields
<1>11. ASSUME c.keys # <<Ephemeral>>
       PROVE  r.keys = c.keys
  <2>1. IsSeq(c.keys) /\ \A i \in DOMAIN c.keys : c.keys[i] # Ephemeral
    <3>1. KeysSound(c.keys)
      BY DEF ConfigSound
    <3> QED BY <1>11, <3>1 DEF KeysSound
  <2>2. DOMAIN kept = DOMAIN c.keys
        /\ \A i \in DOMAIN c.keys : kept[i] = Interpolate(e, RestoreKey(e, c.keys[i]))
    BY <1>1, <1>2
  <2>3. \A i \in DOMAIN c.keys : kept[i] = c.keys[i]
    BY <2>1, <2>2, RestoreBack DEF RestoreKey
  <2>4. kept = [i \in DOMAIN kept |-> kept[i]]
    OBVIOUS
  <2> HIDE DEF kept
  <2>5. c.keys = [i \in DOMAIN c.keys |-> c.keys[i]]
    BY <2>1 DEF IsSeq
  <2> QED BY <1>3, <2>2, <2>3, <2>4, <2>5
<1> QED BY <1>3, <1>9, <1>10, <1>11 DEF f, r, s

\* What is saved of a configuration loads under the environment it was saved in, and
\* says what the configuration says, but for a key that is made anew, whichever of
\* its texts were written as references (saveConfig(), buildEnvRefMap(),
\* configFromText()).
THEOREM SavedAgrees ==
    ASSUME NoneIsPlain, NEW e, NEW c, ConfigSound(c)
    PROVE  Agrees(e, Saved(e, c), c)
<1> DEFINE s == Shown(c)
           r == Parsed(e, Saved(e, c))
           v == Validated(s)
           w == Validated(r)
           keys == IF c.keys = <<Ephemeral>> THEN c.keys ELSE w.keys
           u == [w EXCEPT !.keys = keys]
<1>1. /\ Fields(r, ConfigFields)
      /\ \A x \in ConfigFields \ {"keys"} : r[x] = s[x]
      /\ c.keys # <<Ephemeral>> => r.keys = c.keys
  BY SavedBack
<1>2. /\ Valid(s) /\ Meaning(v) = Meaning(c)
      /\ RawConfig(STRING, s) /\ s.keys = c.keys
  <2>1. s.keys = c.keys
    BY DEF Shown, ConfigSound, Fields, ConfigFields
  <2> QED BY <2>1, ShownComesBack
<1> HIDE DEF s, r
<1>3. /\ r.primary = s.primary /\ r.preference = s.preference
      /\ r.fallback = s.fallback /\ r.regions = s.regions /\ r.bedrock = s.bedrock
      /\ r.external = s.external /\ r.tiers = s.tiers /\ r.refreshMinutes = s.refreshMinutes
      /\ r.maxFailoverAttempts = s.maxFailoverAttempts /\ r.maxMessages = s.maxMessages
      /\ r.retentionDays = s.retentionDays
  BY <1>1 DEF ConfigFields
<1>4. Valid(r)
  BY <1>2, <1>3 DEF Valid
<1>5. /\ Fields(v, ConfigFields) /\ v.keys = ValidatedKeys(s.keys)
      /\ Fields(w, ConfigFields) /\ w.keys = ValidatedKeys(r.keys)
  BY DEF Validated, Fields, ConfigFields
<1>6. \A x \in ConfigFields \ {"keys"} : w[x] = v[x]
  BY <1>3 DEF Validated, ConfigFields
<1> HIDE DEF v, w
<1>7. keys = v.keys
  <2>1. v.keys = c.keys
    BY <1>2, <1>5, KeysBack DEF ConfigSound
  <2> QED BY <1>1, <1>2, <1>5, <2>1
<1> HIDE DEF keys
<1>8. /\ Fields(u, ConfigFields) /\ u.keys = keys
      /\ \A x \in ConfigFields \ {"keys"} : u[x] = w[x]
  BY <1>5 DEF Fields, ConfigFields
<1> HIDE DEF u
<1>9. u = v
  BY <1>5, <1>6, <1>7, <1>8 DEF Fields, ConfigFields
<1>10. Loads(e, Saved(e, c)) /\ Load(e, Saved(e, c)) = w
  BY <1>4 DEF Loads, Load, r, w
<1>11. Meaning(u) = Meaning(c)
  BY <1>2, <1>9
<1> QED BY <1>10, <1>11 DEF Agrees, u, keys

\* A file that loads yields a configuration that validation can yield, and agrees with it.
LEMMA LoadAgrees ==
    ASSUME NoneIsPlain, NEW e \in [Var -> STRING], NEW f, RawConfig(Text, f), Loads(e, f)
    PROVE  ConfigSound(Load(e, f)) /\ Agrees(e, f, Load(e, f))
<1> DEFINE c == Load(e, f)
           keys == IF c.keys = <<Ephemeral>> THEN c.keys ELSE c.keys
           u == [c EXCEPT !.keys = keys]
<1>1. ConfigSound(c)
  BY ConfigParsed, ConfigOfSound DEF Loads, Load
<1> HIDE DEF c
<1>2. u = c
  BY <1>1 DEF ConfigSound, Fields, ConfigFields
<1>3. Meaning(u) = Meaning(c)
  BY <1>2
<1> QED BY <1>1, <1>3 DEF Agrees, c

LEMMA DefaultTyped == RawConfig(Text, DefaultConfig)
<1>1. IsMap(<<>>) /\ DOMAIN <<>> = {} /\ IsSeq(<<>>)
  BY EmptyShape DEF IsMap
<1>2. /\ Fields(DefaultConfig, ConfigFields) /\ DefaultConfig.keys = <<>>
      /\ DefaultConfig.external = <<>> /\ DefaultConfig.tiers = <<>>
  BY DEF DefaultConfig, Fields, ConfigFields
<1> QED BY <1>1, <1>2 DEF RawConfig, ConfigFields

------------------------------------------------------------------------------
(* The inductive invariant.                                                  *)

Whole(g) ==
    g = [f \in {"config", "models", "stopped", "timer", "flights", "failures"} |-> g[f]]

\* What a discovery brings is no older than what its manager knows, and no newer
\* than the world.
FlightSound(e, m, d) ==
    /\ d = [f \in {"asks", "kept", "back", "got"} |-> d[f]]
    /\ d.got \in [Source -> Nat]
    /\ \A x \in Source : d.got[x] = 0 \/ (m[x] <= d.got[x] /\ d.got[x] <= e[x])

\* At most one discovery is on its way.
ManagerSound(e, g) ==
    /\ Whole(g)
    /\ g.models \in [Source -> Nat]
    /\ \A x \in Source : g.models[x] <= e[x]
    /\ g.stopped \in BOOLEAN
    /\ g.stopped => g.timer # "armed"
    /\ \/ g.flights = <<>>
       \/ \E d : g.flights = <<d>> /\ FlightSound(e, g.models, d)

CatalogSound ==
    /\ edition \in [Source -> Nat]
    /\ IsSeq(managers)
    /\ \A i \in DOMAIN managers : ManagerSound(edition, managers[i])

\* A post whose manager was started and neither taken into service nor stopped.
UnderWay(q) == q.at \in {"building", "verifying", "saving", "saved", "unwritable"}
PostSound(ms, r, q) ==
    /\ q = [f \in {"body", "at", "built"} |-> q[f]]
    /\ q.at \in {"waiting", "invalid", "unsaved", "done"} \/ UnderWay(q)
    /\ q.at \in {"waiting", "invalid"} => q.built = 0
    /\ q.at \notin {"waiting", "invalid"} => q.built \in DOMAIN ms
    /\ UnderWay(q) => ~ms[q.built].stopped /\ q.built # r

\* No two posts build one manager.
PostsSound ==
    /\ IsSeq(posts)
    /\ \A p \in DOMAIN posts : PostSound(managers, runtime, posts[p])
    /\ \A p, q \in DOMAIN posts :
          posts[p].built = posts[q].built /\ posts[p].built # 0 => p = q

ProcSound ==
    /\ proc \in {"down", "booting", "verifying", "up"}
    /\ proc # "up" => posts = <<>>
    /\ proc = "down" => managers = <<>>
    /\ proc \in {"booting", "verifying"} => Len(managers) = 1 /\ ~managers[1].stopped
    /\ proc = "up" => runtime \in DOMAIN managers

Owned ==
    \A i \in DOMAIN managers : ~managers[i].stopped =>
        \/ i = runtime \/ proc # "up"
        \/ \E p \in DOMAIN posts : posts[p].built = i /\ UnderWay(posts[p])

RuntimeInv == CatalogSound /\ PostsSound /\ ProcSound /\ Owned

LEMMA InitSound == RuntimeInit => RuntimeInv
<1> SUFFICES ASSUME RuntimeInit PROVE RuntimeInv
  OBVIOUS
<1>1. edition = [x \in Source |-> 1] /\ managers = <<>> /\ posts = <<>> /\ proc = "down"
  BY DEF RuntimeInit, CatalogInit
<1>2. <<>> \in Seq({}) /\ DOMAIN <<>> = {}
  OBVIOUS
<1>3. IsSeq(<<>>)
  BY <1>2, SeqIsSeq
<1>4. CatalogSound
  BY <1>1, <1>2, <1>3 DEF CatalogSound
<1>5. PostsSound /\ ProcSound /\ Owned
  BY <1>1, <1>2, <1>3 DEF PostsSound, ProcSound, Owned
<1> QED BY <1>4, <1>5 DEF RuntimeInv

------------------------------------------------------------------------------
(* One manager.                                                              *)

LEMMA StartedSound ==
    ASSUME NEW e \in [Source -> Nat], NEW c, NEW aws
    PROVE  ManagerSound(e, Started(c, aws)) /\ ~Started(c, aws).stopped
<1> DEFINE d == Flight(Asked(c, aws), FALSE)
<1> DEFINE m == Manager(c)
<1> DEFINE g == Started(c, aws)
<1>1. Whole(m) /\ m.models = Nothing /\ m.stopped = FALSE /\ m.timer = "off"
  BY DEF Manager, Whole
<1>2. g = [m EXCEPT !.flights = <<d>>]
  BY DEF Started
<1>3. Nothing \in [Source -> Nat] /\ \A x \in Source : Nothing[x] = 0
  BY DEF Nothing
<1>4. FlightSound(e, Nothing, d)
  BY <1>3 DEF FlightSound, Flight
<1> HIDE DEF d, m, g
<1>5. /\ Whole(g) /\ g.models = Nothing /\ g.stopped = FALSE /\ g.timer = "off"
      /\ g.flights = <<d>>
  BY <1>1, <1>2 DEF Whole
<1>6. \A x \in Source : g.models[x] <= e[x]
  BY <1>3, <1>5
<1>7. ManagerSound(e, g)
  BY <1>3, <1>4, <1>5, <1>6 DEF ManagerSound
<1> QED BY <1>5, <1>7 DEF g

LEMMA StoppedSound ==
    ASSUME NEW e, NEW g, ManagerSound(e, g)
    PROVE  /\ ManagerSound(e, Stopped(g)) /\ Stopped(g).stopped
           /\ Stopped(g).models = g.models /\ Stopped(g).config = g.config
<1> DEFINE h == Stopped(g)
<1>1. /\ Whole(h) /\ h.models = g.models /\ h.stopped = TRUE /\ h.config = g.config
      /\ h.timer # "armed" /\ h.flights = g.flights
  BY DEF Stopped, ManagerSound, Whole
<1> HIDE DEF h
<1>2. ManagerSound(e, h)
  BY <1>1 DEF ManagerSound
<1> QED BY <1>1, <1>2 DEF h

LEMMA RunningSound ==
    ASSUME NEW e \in [Source -> Nat], NEW g, ManagerSound(e, g), FirstBack(g), ~g.stopped
    PROVE  /\ ManagerSound(e, Running(g)) /\ ~Running(g).stopped
           /\ Running(g).config = g.config
           /\ \A x \in Source : Running(g).models[x] \in {0} \cup g.models[x]..e[x]
<1> DEFINE h == Running(g)
<1>1. PICK d : g.flights = <<d>> /\ FlightSound(e, g.models, d)
  BY DEF ManagerSound, FirstBack
<1>2. /\ Whole(h) /\ h.models = d.got /\ h.stopped = g.stopped /\ h.flights = <<>>
      /\ h.config = g.config
  <2>1. g.flights[1] = d
    BY <1>1
  <2>2. h = [g EXCEPT !.models = d.got, !.flights = <<>>, !.timer = "armed"]
    BY <2>1 DEF Running
  <2> HIDE DEF h
  <2> QED BY <2>2 DEF ManagerSound, Whole
<1> HIDE DEF h
<1>3. \A x \in Source : h.models[x] = 0 \/ (g.models[x] <= h.models[x] /\ h.models[x] <= e[x])
  BY <1>1, <1>2 DEF FlightSound
<1>4. h.models \in [Source -> Nat] /\ g.models \in [Source -> Nat]
  BY <1>1, <1>2 DEF FlightSound, ManagerSound
<1>5. \A x \in Source : g.models[x] <= e[x]
  BY DEF ManagerSound
<1>6. /\ \A x \in Source : h.models[x] <= e[x]
      /\ \A x \in Source : h.models[x] \in {0} \cup g.models[x]..e[x]
  BY <1>3, <1>4, <1>5
<1>7. ManagerSound(e, h)
  BY <1>2, <1>4, <1>6 DEF ManagerSound
<1> QED BY <1>2, <1>6, <1>7 DEF h

LEMMA TickSound ==
    ASSUME NEW e, NEW g, ManagerSound(e, g), NEW f, NEW h, h = [g EXCEPT !.failures = f]
    PROVE  /\ ManagerSound(e, h) /\ h.models = g.models /\ h.stopped = g.stopped
           /\ h.config = g.config
<1>1. /\ Whole(h) /\ h.config = g.config /\ h.models = g.models /\ h.stopped = g.stopped
      /\ h.timer = g.timer /\ h.flights = g.flights
  BY DEF ManagerSound, Whole
<1>2. ManagerSound(e, h)
  BY <1>1 DEF ManagerSound
<1> QED BY <1>1, <1>2

LEMMA FiresSound ==
    ASSUME NEW e \in [Source -> Nat], NEW g, ManagerSound(e, g), NEW aws
    PROVE  LET h == [Begin(g, aws) EXCEPT !.timer = "awaiting"]
           IN /\ ManagerSound(e, h) /\ h.models = g.models /\ h.stopped = g.stopped
              /\ h.config = g.config
<1> DEFINE h == [Begin(g, aws) EXCEPT !.timer = "awaiting"]
<1>1. CASE Refreshing(g)
  <2>1. h = [g EXCEPT !.timer = "awaiting"]
    BY <1>1 DEF Begin
  <2> HIDE DEF h
  <2>2. /\ Whole(h) /\ h.models = g.models /\ h.stopped = g.stopped /\ h.timer = "awaiting"
        /\ h.config = g.config /\ h.flights = g.flights
    BY <2>1 DEF ManagerSound, Whole
  <2>3. ManagerSound(e, h)
    BY <2>2 DEF ManagerSound
  <2> QED BY <2>2, <2>3 DEF h
<1>2. CASE ~Refreshing(g)
  <2> DEFINE d == Flight(Asked(g.config, aws) \ Skipped(g), TRUE)
  <2>1. g.flights = <<>>
    BY <1>2 DEF Refreshing
  <2>2. Append(g.flights, d) = <<d>>
    BY <2>1
  <2> DEFINE b == [g EXCEPT !.flights = <<d>>]
  <2>3. Begin(g, aws) = [g EXCEPT !.flights = Append(@, d)]
    BY <1>2 DEF Begin
  <2>4. Nothing \in [Source -> Nat] /\ \A x \in Source : Nothing[x] = 0
    BY DEF Nothing
  <2>5. FlightSound(e, g.models, d)
    BY <2>4 DEF FlightSound, Flight
  <2> HIDE DEF d
  <2>6. Begin(g, aws) = b
    BY <2>2, <2>3
  <2>7. h = [b EXCEPT !.timer = "awaiting"]
    BY <2>6
  <2>8. /\ Whole(b) /\ b.models = g.models /\ b.stopped = g.stopped /\ b.flights = <<d>>
        /\ b.config = g.config
    BY DEF ManagerSound, Whole
  <2> HIDE DEF h, b
  <2>9. /\ Whole(h) /\ h.models = g.models /\ h.stopped = g.stopped /\ h.timer = "awaiting"
        /\ h.config = g.config /\ h.flights = <<d>>
    BY <2>7, <2>8 DEF Whole
  <2>10. ManagerSound(e, h)
    BY <2>5, <2>9 DEF ManagerSound
  <2> QED BY <2>9, <2>10 DEF h
<1> QED BY <1>1, <1>2

\* Manager g when its discovery d, the k-th, is over.
Ended(g, d, k) ==
    Rearm([g EXCEPT !.models = IF Takes(g) THEN d.got ELSE @, !.flights = Without(@, k)])

LEMMA EndSound ==
    ASSUME NEW e \in [Source -> Nat], NEW g, ManagerSound(e, g),
           NEW k \in DOMAIN g.flights, NEW d, d = g.flights[k],
           NEW h, h = Ended(g, d, k)
    PROVE  /\ ManagerSound(e, h) /\ h.stopped = g.stopped /\ h.config = g.config
           /\ \A x \in Source : h.models[x] \in {0} \cup g.models[x]..e[x]
           /\ g.stopped => h.models = g.models
<1> DEFINE m == IF Takes(g) THEN d.got ELSE g.models
<1> DEFINE r == [g EXCEPT !.models = m, !.flights = <<>>]
<1>1. g.flights = <<d>> /\ FlightSound(e, g.models, d) /\ k = 1
  BY DEF ManagerSound
<1>2. Without(g.flights, k) = <<>>
  <2>1. SubSeq(<<d>>, 1, 0) = <<>> /\ SubSeq(<<d>>, 2, 1) = <<>>
    OBVIOUS
  <2>2. Len(<<d>>) = 1
    OBVIOUS
  <2> QED BY <1>1, <2>1, <2>2 DEF Without
<1>3. [g EXCEPT !.models = IF Takes(g) THEN d.got ELSE @, !.flights = Without(@, k)] = r
  BY <1>2
<1>4. /\ m \in [Source -> Nat] /\ g.models \in [Source -> Nat]
      /\ \A x \in Source : g.models[x] <= e[x]
  BY <1>1 DEF FlightSound, ManagerSound
<1>5. \A x \in Source : m[x] = g.models[x] \/ m[x] = 0 \/ (g.models[x] <= m[x] /\ m[x] <= e[x])
  BY <1>1 DEF FlightSound
<1>6. g.stopped => m = g.models
  BY DEF Takes
<1> HIDE DEF m
<1>7. /\ Whole(r) /\ r.models = m /\ r.stopped = g.stopped /\ r.timer = g.timer
      /\ r.flights = <<>> /\ r.config = g.config
  BY DEF ManagerSound, Whole
<1>8. h = Rearm(r)
  BY <1>3 DEF Ended
<1> HIDE DEF r
<1>9. /\ Whole(h) /\ h.models = m /\ h.stopped = g.stopped /\ h.flights = <<>>
      /\ h.config = g.config /\ h.timer \in {r.timer, "off", "armed"}
      /\ (h.stopped => h.timer \in {r.timer, "off"})
  BY <1>7, <1>8 DEF Rearm, Whole
<1>10. \A x \in Source : m[x] <= e[x] /\ m[x] \in {0} \cup g.models[x]..e[x]
  BY <1>4, <1>5
<1>11. g.stopped => g.timer # "armed"
  BY DEF ManagerSound
<1>12. ManagerSound(e, h)
  <2>1. h.stopped \in BOOLEAN /\ (h.stopped => h.timer # "armed")
    BY <1>7, <1>9, <1>11 DEF ManagerSound
  <2> QED BY <1>4, <1>9, <1>10, <2>1 DEF ManagerSound
<1> QED BY <1>6, <1>9, <1>10, <1>12

------------------------------------------------------------------------------
(* The managers, and the posts.                                              *)

\* A manager keeps its configuration.  A catalog goes back to no older edition; one
\* that was stopped does not change.
Moves(g, h) ==
    /\ h.config = g.config
    /\ \A x \in Source : h.models[x] \in {0} \cup g.models[x]..edition[x]
    /\ g.stopped => h.models = g.models
ForwardStep == \A i \in DOMAIN managers \cap DOMAIN managers' : Moves(managers[i], managers'[i])

LEMMA SameMoves ==
    ASSUME CatalogSound, NEW g, ManagerSound(edition, g),
           NEW h, h.models = g.models, h.config = g.config
    PROVE  Moves(g, h)
BY DEF CatalogSound, ManagerSound, Moves

LEMMA ManagersStay ==
    ASSUME CatalogSound, managers' = managers,
           edition' \in [Source -> Nat], \A x \in Source : edition[x] <= edition'[x]
    PROVE  CatalogSound' /\ ForwardStep
<1>1. ForwardStep
  BY SameMoves DEF CatalogSound, ForwardStep
<1>2. ASSUME NEW i \in DOMAIN managers
      PROVE  ManagerSound(edition', managers[i])
  <2> DEFINE g == managers[i]
  <2>1. ManagerSound(edition, g) /\ edition \in [Source -> Nat]
    BY DEF CatalogSound
  <2>2. \A x \in Source : g.models[x] <= edition'[x]
    BY <2>1 DEF ManagerSound
  <2>3. ASSUME NEW d, FlightSound(edition, g.models, d)
        PROVE  FlightSound(edition', g.models, d)
    BY <2>1, <2>3 DEF FlightSound
  <2> HIDE DEF g
  <2>4. ManagerSound(edition', g)
    BY <2>1, <2>2, <2>3 DEF ManagerSound
  <2> QED BY <2>4 DEF g
<1> QED BY <1>1, <1>2 DEF CatalogSound

LEMMA SetSound ==
    ASSUME CatalogSound, edition' = edition, NEW i \in DOMAIN managers,
           NEW h, ManagerSound(edition, h), Moves(managers[i], h), Set(i, h)
    PROVE  /\ CatalogSound' /\ ForwardStep
           /\ DOMAIN managers' = DOMAIN managers /\ Len(managers') = Len(managers)
           /\ managers'[i] = h
           /\ \A j \in DOMAIN managers \ {i} : managers'[j] = managers[j]
<1>1. IsSeq(managers) /\ managers' = [managers EXCEPT ![i] = h]
  BY DEF CatalogSound, Set
<1>2. /\ IsSeq(managers') /\ DOMAIN managers' = DOMAIN managers
      /\ Len(managers') = Len(managers) /\ managers'[i] = h
      /\ \A j \in DOMAIN managers \ {i} : managers'[j] = managers[j]
  <2>1. IsSeq(managers')
    BY <1>1, ExceptShape
  <2>2. Len(managers') = Len(managers)
    BY <1>1, ExceptShape
  <2>3. DOMAIN managers' = DOMAIN managers
    BY <1>1, ExceptShape
  <2>4. managers'[i] = h
    BY <1>1, ExceptShape
  <2> QED BY <1>1, <2>1, <2>2, <2>3, <2>4
<1>3. \A j \in DOMAIN managers' : ManagerSound(edition', managers'[j])
  BY <1>2 DEF CatalogSound
<1>4. \A j \in DOMAIN managers : Moves(managers[j], managers[j])
  BY SameMoves DEF CatalogSound
<1>5. ForwardStep
  BY <1>2, <1>4 DEF ForwardStep
<1> QED BY <1>2, <1>3, <1>5 DEF CatalogSound

\* The managers are the same ones, and as many are stopped.
SameStops ==
    /\ DOMAIN managers' = DOMAIN managers /\ Len(managers') = Len(managers)
    /\ managers = <<>> => managers' = <<>>
    /\ \A i \in DOMAIN managers : managers'[i].stopped = managers[i].stopped

LEMMA ProcessStays ==
    ASSUME PostsSound, ProcSound, Owned, SameStops, UNCHANGED procVars
    PROVE  PostsSound' /\ ProcSound' /\ Owned'
<1>1. posts' = posts /\ runtime' = runtime /\ proc' = proc
  BY DEF procVars
<1>2. ASSUME NEW p \in DOMAIN posts PROVE PostSound(managers', runtime', posts'[p])
  BY <1>1 DEF PostsSound, PostSound, SameStops, UnderWay
<1>3. PostsSound'
  BY <1>1, <1>2 DEF PostsSound
<1>4. ProcSound'
  <2>1. proc \in {"booting", "verifying"} => 1 \in DOMAIN managers
    BY DEF ProcSound, SameStops
  <2> QED BY <1>1, <2>1 DEF ProcSound, SameStops
<1>5. Owned'
  BY <1>1 DEF Owned, SameStops, UnderWay
<1> QED BY <1>3, <1>4, <1>5

\* A post takes a step, and the others stay where they are.
PostMoves(p, at, built) ==
    /\ IsSeq(posts') /\ DOMAIN posts' = DOMAIN posts
    /\ posts'[p] = [f \in {"body", "at", "built"} |-> posts'[p][f]]
    /\ posts'[p].at = at /\ posts'[p].built = built /\ posts'[p].body = posts[p].body
    /\ \A q \in DOMAIN posts \ {p} : posts'[q] = posts[q]

LEMMA StepShape ==
    ASSUME PostsSound, NEW p \in DOMAIN posts, NEW at, Step(p, at)
    PROVE  PostMoves(p, at, posts[p].built)
<1> DEFINE r == [posts[p] EXCEPT !.at = at]
<1>1. posts' = [posts EXCEPT ![p] = r]
  BY DEF Step
<1>2. /\ r = [f \in {"body", "at", "built"} |-> r[f]] /\ r.at = at /\ r.built = posts[p].built
      /\ r.body = posts[p].body
  BY DEF PostsSound, PostSound
<1>3. IsSeq(posts)
  BY DEF PostsSound
<1> HIDE DEF r
<1> QED BY <1>1, <1>2, <1>3, ExceptShape DEF PostMoves

\* Where there are posts the process is up.
LEMMA PostsUp ==
    ASSUME PostsSound, ProcSound, NEW p \in DOMAIN posts
    PROVE  proc = "up" /\ runtime \in DOMAIN managers
<1>1. posts # <<>>
  OBVIOUS
<1> QED BY <1>1 DEF ProcSound

\* A post goes on with the manager it has.
LEMMA PostGoesOn ==
    ASSUME PostsSound, ProcSound, Owned, SameStops,
           UNCHANGED <<proc, runtime>>, NEW p \in DOMAIN posts, UnderWay(posts[p]),
           NEW at \in {"building", "verifying", "saving", "saved", "unwritable"}, Step(p, at)
    PROVE  PostsSound' /\ ProcSound' /\ Owned'
<1>1. PostMoves(p, at, posts[p].built) /\ UnderWay(posts'[p])
  BY StepShape DEF PostMoves, UnderWay
<1>2. proc = "up" /\ runtime \in DOMAIN managers
  BY PostsUp
<1>3. ASSUME NEW q \in DOMAIN posts'
      PROVE  PostSound(managers', runtime', posts'[q])
  <2>1. PostSound(managers, runtime, posts[q])
    BY <1>1 DEF PostsSound, PostMoves
  <2>2. CASE q = p
    <3>1. posts[q].built \in DOMAIN managers /\ ~managers[posts[q].built].stopped
          /\ posts[q].built # runtime
      BY <2>1, <2>2 DEF PostSound, UnderWay
    <3> QED BY <1>1, <2>2, <3>1 DEF PostMoves, PostSound, SameStops, UnderWay
  <2>3. CASE q # p
    BY <1>1, <2>1, <2>3 DEF PostMoves, PostSound, SameStops, UnderWay
  <2> QED BY <2>2, <2>3
<1>4. PostsSound'
  <2>1. \A q \in DOMAIN posts : posts'[q].built = posts[q].built
    BY <1>1 DEF PostMoves
  <2> QED BY <1>1, <1>3, <2>1 DEF PostsSound, PostMoves
<1>5. ProcSound'
  BY <1>2 DEF ProcSound, SameStops
<1>6. Owned'
  <2>1. \A q \in DOMAIN posts : UnderWay(posts[q]) =>
            UnderWay(posts'[q]) /\ posts'[q].built = posts[q].built
    BY <1>1 DEF PostMoves
  <2> QED BY <1>1, <2>1 DEF Owned, SameStops, PostMoves
<1> QED BY <1>4, <1>5, <1>6

------------------------------------------------------------------------------
(* The process.                                                              *)

LEMMA BootSound == RuntimeInv /\ Boot => RuntimeInv' /\ ForwardStep
<1> SUFFICES ASSUME RuntimeInv, Boot PROVE RuntimeInv' /\ ForwardStep
  OBVIOUS
<1> USE DEF RuntimeInv
<1>1. /\ proc = "down" /\ proc' = "booting" /\ UNCHANGED <<edition, runtime, posts>>
      /\ \E c : managers' = <<Started(c, Aws)>>
  BY DEF Boot, BootLoads
<1>2. PICK c : managers' = <<Started(c, Aws)>>
  BY <1>1
<1> DEFINE g == Started(c, Aws)
<1>3. ManagerSound(edition, g) /\ ~g.stopped
  BY StartedSound DEF CatalogSound
<1> HIDE DEF g
<1>4. managers' = <<g>> /\ managers = <<>> /\ posts = <<>>
  BY <1>1, <1>2 DEF g, ProcSound
<1>5. managers' \in Seq({g}) /\ DOMAIN managers' = {1} /\ managers'[1] = g /\ Len(managers') = 1
  BY <1>4
<1>6. CatalogSound'
  BY <1>1, <1>3, <1>5, SeqIsSeq DEF CatalogSound
<1>7. ForwardStep
  BY <1>4 DEF ForwardStep
<1>8. PostsSound' /\ ProcSound' /\ Owned'
  BY <1>1, <1>3, <1>4, <1>5 DEF PostsSound, ProcSound, Owned
<1> QED BY <1>6, <1>7, <1>8

LEMMA BootDiscoveredSound == RuntimeInv /\ BootDiscovered => RuntimeInv' /\ ForwardStep
<1> SUFFICES ASSUME RuntimeInv, BootDiscovered PROVE RuntimeInv' /\ ForwardStep
  OBVIOUS
<1> USE DEF RuntimeInv
<1> DEFINE h == Running(managers[1])
<1>1. /\ proc = "booting" /\ proc' = "verifying" /\ UNCHANGED <<edition, runtime, posts>>
      /\ FirstBack(managers[1]) /\ Set(1, h)
  BY DEF BootDiscovered, worldVars
<1>2. Len(managers) = 1 /\ ~managers[1].stopped /\ posts = <<>>
  BY <1>1 DEF ProcSound
<1>3. DOMAIN managers = {1}
  BY <1>2, SeqShape DEF CatalogSound
<1>4. /\ ManagerSound(edition, h) /\ ~h.stopped /\ Moves(managers[1], h)
  BY <1>1, <1>2, <1>3, RunningSound DEF CatalogSound, Moves
<1> HIDE DEF h
<1>5. /\ CatalogSound' /\ ForwardStep /\ Len(managers') = Len(managers)
      /\ managers'[1] = h
  BY <1>1, <1>3, <1>4, SetSound
<1>6. PostsSound' /\ ProcSound' /\ Owned'
  BY <1>1, <1>2, <1>4, <1>5 DEF PostsSound, ProcSound, Owned
<1> QED BY <1>5, <1>6

LEMMA BootServesSound == RuntimeInv /\ BootServes => RuntimeInv' /\ ForwardStep
<1> SUFFICES ASSUME RuntimeInv, BootServes PROVE RuntimeInv' /\ ForwardStep
  OBVIOUS
<1> USE DEF RuntimeInv
<1>1. /\ proc = "verifying" /\ proc' = "up" /\ runtime' = 1
      /\ UNCHANGED <<edition, managers, posts>>
  BY DEF BootServes, catalogVars, worldVars
<1>2. Len(managers) = 1 /\ posts = <<>>
  BY <1>1 DEF ProcSound
<1>3. DOMAIN managers = {1}
  BY <1>2, SeqShape DEF CatalogSound
<1>4. CatalogSound' /\ ForwardStep
  BY <1>1, ManagersStay DEF CatalogSound
<1>5. PostsSound' /\ ProcSound' /\ Owned'
  BY <1>1, <1>2, <1>3 DEF PostsSound, ProcSound, Owned
<1> QED BY <1>4, <1>5

LEMMA CrashSound == RuntimeInv /\ Crash => RuntimeInv' /\ ForwardStep
<1> SUFFICES ASSUME RuntimeInv, Crash PROVE RuntimeInv' /\ ForwardStep
  OBVIOUS
<1> USE DEF RuntimeInv
<1>1. /\ proc' = "down" /\ managers' = <<>> /\ posts' = <<>> /\ edition' = edition
  BY DEF Crash
<1>2. <<>> \in Seq({}) /\ DOMAIN <<>> = {}
  OBVIOUS
<1>3. IsSeq(<<>>)
  BY <1>2, SeqIsSeq
<1>4. CatalogSound' /\ ForwardStep
  BY <1>1, <1>2, <1>3 DEF CatalogSound, ForwardStep
<1>5. PostsSound' /\ ProcSound' /\ Owned'
  BY <1>1, <1>2, <1>3 DEF PostsSound, ProcSound, Owned
<1> QED BY <1>4, <1>5

------------------------------------------------------------------------------
(* The posts.                                                                *)

LEMMA PostStepSound == RuntimeInv /\ Post => RuntimeInv' /\ ForwardStep
<1> SUFFICES ASSUME RuntimeInv, Post PROVE RuntimeInv' /\ ForwardStep
  OBVIOUS
<1> USE DEF RuntimeInv
<1>1. /\ proc = "up" /\ UNCHANGED <<edition, managers, proc, runtime>>
      /\ \E body : posts' = Append(posts, [body |-> body, at |-> "waiting", built |-> 0])
  BY DEF Post
<1>2. PICK body : posts' = Append(posts, [body |-> body, at |-> "waiting", built |-> 0])
  BY <1>1
<1> DEFINE r == [body |-> body, at |-> "waiting", built |-> 0]
<1>3. /\ r = [f \in {"body", "at", "built"} |-> r[f]] /\ r.at = "waiting" /\ r.built = 0
  OBVIOUS
<1> HIDE DEF r
<1> DEFINE n == Len(posts')
<1>4. /\ IsSeq(posts') /\ posts'[n] = r /\ DOMAIN posts' = DOMAIN posts \cup {n}
      /\ n \notin DOMAIN posts /\ \A p \in DOMAIN posts : posts'[p] = posts[p]
  <2>1. IsSeq(posts) /\ posts' = Append(posts, r)
    BY <1>2 DEF PostsSound, r
  <2>2. IsSeq(posts')
    BY <2>1, AppendShape
  <2>3. posts'[n] = r
    BY <2>1, AppendShape
  <2>4. DOMAIN posts' = DOMAIN posts \cup {n} /\ n \notin DOMAIN posts
    BY <2>1, AppendShape
  <2>5. \A p \in DOMAIN posts : posts'[p] = posts[p]
    BY <2>1, AppendShape
  <2> QED BY <2>2, <2>3, <2>4, <2>5
<1> HIDE DEF n
<1>5. CatalogSound' /\ ForwardStep
  BY <1>1, ManagersStay DEF CatalogSound
<1>6. ASSUME NEW p \in DOMAIN posts'
      PROVE  PostSound(managers', runtime', posts'[p])
  BY <1>1, <1>3, <1>4 DEF PostsSound, PostSound, UnderWay
<1>7. PostsSound'
  BY <1>3, <1>4, <1>6 DEF PostsSound
<1>8. ProcSound' /\ Owned'
  BY <1>1, <1>4 DEF ProcSound, Owned
<1> QED BY <1>5, <1>7, <1>8

LEMMA BuildSound ==
    ASSUME RuntimeInv, NEW p \in DOMAIN posts, Build(p)
    PROVE  RuntimeInv' /\ ForwardStep
<1> USE DEF RuntimeInv
<1>1. posts[p].at = "waiting" /\ UNCHANGED <<edition, proc, runtime>>
  BY DEF Build, worldVars
<1>2. proc = "up" /\ runtime \in DOMAIN managers
  BY PostsUp
<1>3. posts[p].built = 0 /\ ~UnderWay(posts[p]) /\ PostSound(managers, runtime, posts[p])
  BY <1>1 DEF PostsSound, PostSound, UnderWay
<1>4. CASE Step(p, "invalid") /\ managers' = managers
  <2>1. PostMoves(p, "invalid", 0)
    BY <1>3, <1>4, StepShape
  <2>2. CatalogSound' /\ ForwardStep
    BY <1>1, <1>4, ManagersStay DEF CatalogSound
  <2>3. ASSUME NEW q \in DOMAIN posts'
        PROVE  PostSound(managers', runtime', posts'[q])
    BY <1>1, <1>4, <2>1 DEF PostsSound, PostSound, PostMoves, UnderWay
  <2>4. PostsSound'
    BY <1>3, <2>1, <2>3 DEF PostsSound, PostMoves
  <2>5. ProcSound' /\ Owned'
    BY <1>1, <1>2, <1>3, <1>4, <2>1 DEF ProcSound, Owned, PostMoves
  <2> QED BY <2>2, <2>4, <2>5
<1>5. CASE /\ managers' = Append(managers, Started(Validated(posts[p].body), Aws))
           /\ posts' = [posts EXCEPT ![p].at = "building", ![p].built = Len(managers')]
  <2> DEFINE g == Started(Validated(posts[p].body), Aws)
  <2>1. ManagerSound(edition, g) /\ ~g.stopped
    BY StartedSound DEF CatalogSound
  <2>2. managers' = Append(managers, g)
    BY <1>5
  <2> HIDE DEF g
  <2> DEFINE n == Len(managers')
  <2>3. /\ IsSeq(managers') /\ managers'[n] = g /\ DOMAIN managers' = DOMAIN managers \cup {n}
        /\ n \notin DOMAIN managers /\ \A i \in DOMAIN managers : managers'[i] = managers[i]
        /\ n = Len(managers) + 1 /\ Len(managers) \in Nat
    <3>1. IsSeq(managers)
      BY DEF CatalogSound
    <3>2. IsSeq(managers')
      BY <2>2, <3>1, AppendShape
    <3>3. managers'[n] = g
      BY <2>2, <3>1, AppendShape
    <3>4. DOMAIN managers' = DOMAIN managers \cup {n} /\ n \notin DOMAIN managers
      BY <2>2, <3>1, AppendShape
    <3>5. \A i \in DOMAIN managers : managers'[i] = managers[i]
      BY <2>2, <3>1, AppendShape
    <3>6. n = Len(managers) + 1
      BY <2>2, <3>1, AppendShape
    <3>7. Len(managers) \in Nat
      BY <3>1, SeqShape
    <3> QED BY <3>2, <3>3, <3>4, <3>5, <3>6, <3>7
  <2> DEFINE r == [posts[p] EXCEPT !.at = "building", !.built = n]
  <2>4. posts' = [posts EXCEPT ![p] = r]
    BY <1>5
  <2> HIDE DEF n
  <2>5. /\ r = [f \in {"body", "at", "built"} |-> r[f]] /\ r.at = "building" /\ r.built = n
        /\ r.body = posts[p].body
    BY <1>3 DEF PostSound
  <2> HIDE DEF r
  <2>6. PostMoves(p, "building", n)
    <3>1. IsSeq(posts)
      BY DEF PostsSound
    <3> QED BY <2>4, <2>5, <3>1, ExceptShape DEF PostMoves
  <2>7. CatalogSound'
    BY <1>1, <2>1, <2>3 DEF CatalogSound
  <2>8. ForwardStep
    BY <2>3, SameMoves DEF ForwardStep, CatalogSound
  <2>9. n # 0
    BY <2>3
  <2>10. ASSUME NEW q \in DOMAIN posts'
         PROVE  PostSound(managers', runtime', posts'[q])
    <3>1. CASE q = p
      <4>1. n \in DOMAIN managers' /\ ~managers'[n].stopped /\ n # runtime'
        BY <1>1, <1>2, <2>1, <2>3
      <4> QED BY <2>6, <3>1, <4>1 DEF PostMoves, PostSound, UnderWay
    <3>2. CASE q # p
      <4>1. PostSound(managers, runtime, posts[q]) /\ posts'[q] = posts[q]
        BY <2>6, <3>2 DEF PostsSound, PostMoves
      <4> QED BY <1>1, <2>3, <4>1 DEF PostSound, UnderWay
    <3> QED BY <3>1, <3>2
  <2>11. \A q \in DOMAIN posts : posts[q].built # n
    BY <2>3, <2>9 DEF PostsSound, PostSound
  <2>12. PostsSound'
    BY <2>6, <2>10, <2>11 DEF PostsSound, PostMoves
  <2>13. ProcSound'
    BY <1>1, <1>2, <2>3 DEF ProcSound
  <2>14. Owned'
    <3>1. UnderWay(posts'[p]) /\ posts'[p].built = n
      BY <2>6 DEF PostMoves, UnderWay
    <3>2. ASSUME NEW i \in DOMAIN managers', ~managers'[i].stopped
          PROVE  \/ i = runtime' \/ proc' # "up"
                 \/ \E q \in DOMAIN posts' : posts'[q].built = i /\ UnderWay(posts'[q])
      <4>1. CASE i = n
        BY <2>6, <3>1, <4>1 DEF PostMoves
      <4>2. CASE i # n
        BY <1>1, <1>3, <2>3, <2>6, <3>2, <4>2 DEF Owned, PostMoves
      <4> QED BY <4>1, <4>2
    <3> QED BY <3>2 DEF Owned
  <2> QED BY <2>7, <2>8, <2>12, <2>13, <2>14
<1> QED BY <1>4, <1>5 DEF Build

LEMMA BuiltSound ==
    ASSUME RuntimeInv, NEW p \in DOMAIN posts, Built(p)
    PROVE  RuntimeInv' /\ ForwardStep
<1> USE DEF RuntimeInv
<1> DEFINE i == posts[p].built
<1> DEFINE h == Running(managers[i])
<1>1. /\ UnderWay(posts[p]) /\ FirstBack(managers[i]) /\ Set(i, h) /\ Step(p, "verifying")
      /\ UNCHANGED <<edition, proc, runtime>>
  BY DEF Built, worldVars, UnderWay
<1>2. i \in DOMAIN managers /\ ~managers[i].stopped
  BY <1>1 DEF PostsSound, PostSound, UnderWay
<1>3. ManagerSound(edition, h) /\ ~h.stopped /\ Moves(managers[i], h)
  BY <1>1, <1>2, RunningSound DEF CatalogSound, Moves
<1> HIDE DEF h, i
<1>4. /\ CatalogSound' /\ ForwardStep
      /\ DOMAIN managers' = DOMAIN managers /\ Len(managers') = Len(managers)
      /\ managers'[i] = h
      /\ \A j \in DOMAIN managers \ {i} : managers'[j] = managers[j]
  BY <1>1, <1>2, <1>3, SetSound
<1>5. SameStops
  <2>1. managers # <<>>
    BY <1>2
  <2>2. managers[i].stopped = FALSE /\ h.stopped = FALSE
    BY <1>2, <1>3 DEF CatalogSound, ManagerSound
  <2> QED BY <1>4, <2>1, <2>2 DEF SameStops
<1>6. PostsSound' /\ ProcSound' /\ Owned'
  BY <1>1, <1>5, PostGoesOn
<1> QED BY <1>4, <1>6

LEMMA VerifySound ==
    ASSUME RuntimeInv, NEW p \in DOMAIN posts, Verify(p)
    PROVE  RuntimeInv' /\ ForwardStep
<1> USE DEF RuntimeInv
<1>1. /\ UnderWay(posts[p]) /\ UNCHANGED <<edition, managers, proc, runtime>>
      /\ \E at \in {"saving", "unwritable"} : Step(p, at)
  BY DEF Verify, UnderWay
<1>2. CatalogSound' /\ ForwardStep
  BY <1>1, ManagersStay DEF CatalogSound
<1>3. SameStops
  BY <1>1 DEF SameStops
<1>4. PostsSound' /\ ProcSound' /\ Owned'
  BY <1>1, <1>3, PostGoesOn
<1> QED BY <1>2, <1>4

\* Manager i of post p is stopped, and i only.
LEMMA StopOne ==
    ASSUME CatalogSound, edition' = edition, NEW i \in DOMAIN managers,
           Set(i, Stopped(managers[i]))
    PROVE  /\ CatalogSound' /\ ForwardStep
           /\ DOMAIN managers' = DOMAIN managers /\ managers'[i].stopped
           /\ \A j \in DOMAIN managers \ {i} : managers'[j] = managers[j]
<1> DEFINE h == Stopped(managers[i])
<1>1. /\ ManagerSound(edition, h) /\ h.stopped /\ h.models = managers[i].models
      /\ h.config = managers[i].config
  BY StoppedSound DEF CatalogSound
<1>2. Moves(managers[i], h) /\ Set(i, h)
  BY <1>1, SameMoves DEF CatalogSound
<1> HIDE DEF h
<1> QED BY <1>1, <1>2, SetSound

LEMMA SaveSound ==
    ASSUME RuntimeInv, NEW p \in DOMAIN posts, Save(p)
    PROVE  RuntimeInv' /\ ForwardStep
<1> USE DEF RuntimeInv
<1> DEFINE i == posts[p].built
<1>1. UnderWay(posts[p]) /\ UNCHANGED <<edition, proc, runtime>>
  BY DEF Save, UnderWay
<1>2. proc = "up" /\ runtime \in DOMAIN managers
  BY PostsUp
<1>3. CASE Step(p, "saved") /\ managers' = managers
  <2>1. CatalogSound' /\ ForwardStep
    BY <1>1, <1>3, ManagersStay DEF CatalogSound
  <2>2. SameStops
    BY <1>3 DEF SameStops
  <2>3. PostsSound' /\ ProcSound' /\ Owned'
    BY <1>1, <1>3, <2>2, PostGoesOn
  <2> QED BY <2>1, <2>3
<1>4. CASE Step(p, "unsaved") /\ Discard(i)
  <2>1. /\ i \in DOMAIN managers /\ i # runtime /\ i # 0
        /\ PostSound(managers, runtime, posts[p])
    <3>1. IsSeq(managers)
      BY DEF CatalogSound
    <3>2. 0 \notin DOMAIN managers
      BY <3>1, SeqShape
    <3> QED BY <1>1, <3>2 DEF PostsSound, PostSound, UnderWay
  <2>2. PostMoves(p, "unsaved", i)
    BY <1>4, StepShape
  <2>3. \A q \in DOMAIN posts \ {p} : posts[q].built # i
    BY <2>1 DEF PostsSound
  <2>4. Set(i, Stopped(managers[i]))
    BY <1>4 DEF Discard
  <2> HIDE DEF i
  <2>5. /\ CatalogSound' /\ ForwardStep
        /\ DOMAIN managers' = DOMAIN managers /\ managers'[i].stopped
        /\ \A j \in DOMAIN managers \ {i} : managers'[j] = managers[j]
    BY <1>1, <2>1, <2>4, StopOne
  <2>6. ASSUME NEW q \in DOMAIN posts'
        PROVE  PostSound(managers', runtime', posts'[q])
    <3>1. CASE q = p
      BY <2>1, <2>2, <2>5, <3>1 DEF PostMoves, PostSound, UnderWay
    <3>2. CASE q # p
      <4>1. PostSound(managers, runtime, posts[q]) /\ posts'[q] = posts[q]
            /\ posts[q].built # i
        BY <2>2, <2>3, <3>2 DEF PostsSound, PostMoves
      <4> QED BY <1>1, <2>5, <4>1 DEF PostSound, UnderWay
    <3> QED BY <3>1, <3>2
  <2>7. PostsSound'
    <3>1. \A q \in DOMAIN posts : posts'[q].built = posts[q].built
      BY <2>2 DEF PostMoves, i
    <3> QED BY <2>2, <2>6, <3>1 DEF PostsSound, PostMoves
  <2>8. ProcSound'
    BY <1>1, <1>2, <2>5 DEF ProcSound
  <2>9. Owned'
    BY <1>1, <2>2, <2>5 DEF Owned, PostMoves, i
  <2> QED BY <2>5, <2>7, <2>8, <2>9
<1> QED BY <1>3, <1>4 DEF Save

LEMMA SwapSound ==
    ASSUME RuntimeInv, NEW p \in DOMAIN posts, Swap(p)
    PROVE  RuntimeInv' /\ ForwardStep
<1> USE DEF RuntimeInv
<1> DEFINE i == posts[p].built
<1>1. /\ UnderWay(posts[p]) /\ Step(p, "done") /\ UNCHANGED <<edition, proc>>
      /\ runtime' = i /\ Set(runtime, Stopped(managers[runtime]))
  BY DEF Swap, UnderWay, worldVars
<1>2. proc = "up" /\ runtime \in DOMAIN managers
  BY PostsUp
<1>3. /\ i \in DOMAIN managers /\ i # runtime /\ i # 0
      /\ PostSound(managers, runtime, posts[p])
  <2>1. IsSeq(managers)
    BY DEF CatalogSound
  <2>2. 0 \notin DOMAIN managers
    BY <2>1, SeqShape
  <2> QED BY <1>1, <2>2 DEF PostsSound, PostSound, UnderWay
<1>4. PostMoves(p, "done", i)
  BY <1>1, StepShape
<1>5. \A q \in DOMAIN posts \ {p} : posts[q].built # i
  BY <1>3 DEF PostsSound
<1> HIDE DEF i
<1>6. /\ CatalogSound' /\ ForwardStep
      /\ DOMAIN managers' = DOMAIN managers /\ managers'[runtime].stopped
      /\ \A j \in DOMAIN managers \ {runtime} : managers'[j] = managers[j]
  BY <1>1, <1>2, StopOne
<1>7. ASSUME NEW q \in DOMAIN posts'
      PROVE  PostSound(managers', runtime', posts'[q])
  <2>1. CASE q = p
    BY <1>3, <1>4, <1>6, <2>1 DEF PostMoves, PostSound, UnderWay
  <2>2. CASE q # p
    <3>1. PostSound(managers, runtime, posts[q]) /\ posts'[q] = posts[q]
          /\ posts[q].built # i
      BY <1>4, <1>5, <2>2 DEF PostsSound, PostMoves
    <3>2. UnderWay(posts[q]) => posts[q].built \in DOMAIN managers \ {runtime}
      BY <3>1 DEF PostSound, UnderWay
    <3> QED BY <1>1, <1>6, <3>1, <3>2 DEF PostSound, UnderWay
  <2> QED BY <2>1, <2>2
<1>8. PostsSound'
  <2>1. \A q \in DOMAIN posts : posts'[q].built = posts[q].built
    BY <1>4 DEF PostMoves, i
  <2> QED BY <1>4, <1>7, <2>1 DEF PostsSound, PostMoves
<1>9. ProcSound'
  BY <1>1, <1>2, <1>3, <1>6 DEF ProcSound
<1>10. Owned'
  BY <1>1, <1>4, <1>6 DEF Owned, PostMoves, i
<1> QED BY <1>6, <1>8, <1>9, <1>10

------------------------------------------------------------------------------
(* The managers, the clock and the world.                                    *)

\* Manager i goes on.
LEMMA ManagerGoesOn ==
    ASSUME RuntimeInv, NEW i \in DOMAIN managers, NEW h, ManagerSound(edition, h),
           h.stopped = managers[i].stopped, Moves(managers[i], h), Set(i, h),
           edition' = edition, UNCHANGED procVars
    PROVE  RuntimeInv' /\ ForwardStep
<1> USE DEF RuntimeInv
<1>1. /\ CatalogSound' /\ ForwardStep
      /\ DOMAIN managers' = DOMAIN managers /\ Len(managers') = Len(managers)
      /\ managers'[i] = h
      /\ \A j \in DOMAIN managers \ {i} : managers'[j] = managers[j]
  BY SetSound
<1>2. SameStops
  <2>1. managers # <<>>
    OBVIOUS
  <2> QED BY <1>1, <2>1 DEF SameStops
<1> QED BY <1>1, <1>2, ProcessStays

LEMMA ManagersSound == RuntimeInv /\ Managers => RuntimeInv' /\ ForwardStep
<1> SUFFICES ASSUME RuntimeInv, Managers PROVE RuntimeInv' /\ ForwardStep
  OBVIOUS
<1>1. PICK i \in DOMAIN managers : ManagerNext(i, Aws) /\ UNCHANGED procVars
  BY DEF Managers
<1> DEFINE g == managers[i]
<1>2. edition \in [Source -> Nat] /\ ManagerSound(edition, g) /\ CatalogSound
  BY DEF RuntimeInv, CatalogSound
<1>3. CASE TimerFires(i, Aws)
  <2> DEFINE h == [Begin(g, Aws) EXCEPT !.timer = "awaiting"]
  <2>1. Set(i, h) /\ edition' = edition
    BY <1>3 DEF TimerFires, worldVars
  <2>2. /\ ManagerSound(edition, h) /\ h.models = g.models /\ h.stopped = g.stopped
        /\ h.config = g.config
    BY <1>2, FiresSound
  <2> HIDE DEF h
  <2>3. Moves(g, h)
    BY <1>2, <2>2, SameMoves
  <2> QED BY <1>1, <2>1, <2>2, <2>3, ManagerGoesOn
<1>4. ASSUME NEW k \in DOMAIN g.flights, SourcesAnswer(i, k)
      PROVE  RuntimeInv' /\ ForwardStep
  <2> DEFINE d == g.flights[k]
  <2> DEFINE reached == {x \in d.asks : Reachable(g.config, x)}
  <2> DEFINE f == IF d.kept /\ ~g.stopped THEN Recorded(g.failures, d.asks, reached)
                  ELSE g.failures
  <2> DEFINE got == [x \in Source |-> IF x \in reached THEN edition[x] ELSE 0]
  <2> DEFINE n == [d EXCEPT !.back = TRUE, !.got = got]
  <2> DEFINE h == [g EXCEPT !.flights[k] = n, !.failures = f]
  <2>1. Set(i, h) /\ edition' = edition
    BY <1>4 DEF SourcesAnswer, worldVars
  <2>2. /\ ManagerSound(edition, h) /\ h.models = g.models /\ h.stopped = g.stopped
        /\ h.config = g.config
    <3>1. k \in DOMAIN g.flights
      BY <1>4
    <3> HIDE DEF f, reached, g
    <3>2. g.flights = <<d>> /\ FlightSound(edition, g.models, d) /\ k = 1
      BY <1>2, <3>1 DEF ManagerSound
    <3>3. got \in [Source -> Nat]
      BY <1>2
    <3>4. \A x \in Source : got[x] = 0 \/ (g.models[x] <= got[x] /\ got[x] <= edition[x])
      BY <1>2 DEF ManagerSound
    <3> HIDE DEF got
    <3>5. n = [y \in {"asks", "kept", "back", "got"} |-> n[y]] /\ n.got = got
      BY <3>2 DEF FlightSound
    <3> HIDE DEF n
    <3>6. FlightSound(edition, g.models, n)
      BY <3>3, <3>4, <3>5 DEF FlightSound
    <3>7. [g.flights EXCEPT ![k] = n] = <<n>>
      BY <3>2
    <3>8. /\ Whole(h) /\ h.models = g.models /\ h.stopped = g.stopped /\ h.timer = g.timer
          /\ h.config = g.config /\ h.flights = [g.flights EXCEPT ![k] = n]
      BY <1>2 DEF ManagerSound, Whole
    <3> HIDE DEF h
    <3>9. ManagerSound(edition, h)
      BY <1>2, <3>6, <3>7, <3>8 DEF ManagerSound
    <3> QED BY <3>8, <3>9
  <2> HIDE DEF h
  <2>3. Moves(g, h)
    BY <1>2, <2>2, SameMoves
  <2> QED BY <1>1, <2>1, <2>2, <2>3, ManagerGoesOn
<1>5. ASSUME NEW k \in DOMAIN g.flights, RefreshEnds(i, k)
      PROVE  RuntimeInv' /\ ForwardStep
  <2> DEFINE d == g.flights[k]
  <2> DEFINE h == Rearm([g EXCEPT !.models = IF Takes(g) THEN d.got ELSE @,
                                  !.flights = Without(@, k)])
  <2>1. Set(i, h) /\ edition' = edition
    BY <1>5 DEF RefreshEnds, worldVars
  <2>2. /\ ManagerSound(edition, h) /\ h.stopped = g.stopped /\ h.config = g.config
        /\ \A x \in Source : h.models[x] \in {0} \cup g.models[x]..edition[x]
        /\ g.stopped => h.models = g.models
    <3>1. h = Ended(g, d, k)
      BY DEF Ended
    <3>2. d = g.flights[k] /\ k \in DOMAIN g.flights
      BY <1>5
    <3>3. edition \in [Source -> Nat] /\ ManagerSound(edition, g)
      BY <1>2
    <3> HIDE DEF g, h, d
    <3> QED BY <3>1, <3>2, <3>3, EndSound
  <2> HIDE DEF h
  <2>3. Moves(g, h)
    BY <2>2 DEF Moves
  <2> QED BY <1>1, <2>1, <2>2, <2>3, ManagerGoesOn
<1> QED BY <1>1, <1>3, <1>4, <1>5 DEF ManagerNext

LEMMA TickStepSound == RuntimeInv /\ Tick /\ UNCHANGED procVars => RuntimeInv' /\ ForwardStep
<1> SUFFICES ASSUME RuntimeInv, Tick, UNCHANGED procVars PROVE RuntimeInv' /\ ForwardStep
  OBVIOUS
<1> USE DEF RuntimeInv
<1> DEFINE f(i) == [x \in Source |-> Waited(managers[i].failures[x])]
<1> DEFINE h(i) == [managers[i] EXCEPT !.failures = f(i)]
<1>1. managers' = [i \in DOMAIN managers |-> h(i)] /\ edition' = edition
  <2>1. managers' = [i \in DOMAIN managers |-> h(i)]
    BY DEF Tick
  <2> QED BY <2>1 DEF Tick, worldVars
<1>2. IsSeq(managers) /\ edition \in [Source -> Nat]
  BY DEF CatalogSound
<1>3. \A i \in DOMAIN managers : /\ ManagerSound(edition, h(i))
                                 /\ h(i).models = managers[i].models
                                 /\ h(i).config = managers[i].config
                                 /\ h(i).stopped = managers[i].stopped
  <2> HIDE DEF f
  <2> QED BY TickSound DEF CatalogSound
<1> HIDE DEF h
<1>4. /\ IsSeq(managers') /\ DOMAIN managers' = DOMAIN managers /\ Len(managers') = Len(managers)
  <2> DEFINE S == {h(i) : i \in DOMAIN managers}
  <2>1. Len(managers) \in Nat /\ DOMAIN managers = 1..Len(managers)
    BY <1>2, SeqShape
  <2>2. managers' \in [1..Len(managers) -> S]
    BY <1>1, <2>1
  <2> HIDE DEF S
  <2>3. managers' \in Seq(S)
    BY <2>1, <2>2, SeqDef
  <2>4. Len(managers') = Len(managers)
    BY <1>1, <2>1, <2>3
  <2> QED BY <1>1, <2>3, <2>4, SeqIsSeq
<1>5. CatalogSound'
  BY <1>1, <1>2, <1>3, <1>4 DEF CatalogSound
<1>6. \A i \in DOMAIN managers : managers'[i] = h(i)
  BY <1>1
<1>7. ForwardStep
  <2>1. ASSUME NEW i \in DOMAIN managers PROVE Moves(managers[i], managers'[i])
    BY <1>3, <1>6, SameMoves DEF CatalogSound
  <2> QED BY <2>1 DEF ForwardStep
<1>8. SameStops
  <2>1. managers = <<>> => managers' = <<>>
    BY <1>4
  <2> QED BY <1>3, <1>4, <1>6, <2>1 DEF SameStops
<1> QED BY <1>5, <1>7, <1>8, ProcessStays

LEMMA ChangesSound ==
    ASSUME RuntimeInv, NEW x \in Source, Changes(x), UNCHANGED procVars
    PROVE  RuntimeInv' /\ ForwardStep
<1> USE DEF RuntimeInv
<1>1. managers' = managers /\ edition' \in {edition, [edition EXCEPT ![x] = @ + 1]}
  BY DEF Changes
<1>2. edition \in [Source -> Nat]
  BY DEF CatalogSound
<1>3. edition' \in [Source -> Nat] /\ \A y \in Source : edition[y] <= edition'[y]
  BY <1>1, <1>2
<1>4. CatalogSound' /\ ForwardStep
  BY <1>1, <1>3, ManagersStay
<1>5. SameStops
  BY <1>1 DEF SameStops
<1> QED BY <1>4, <1>5, ProcessStays

------------------------------------------------------------------------------

LEMMA StepSound == RuntimeInv /\ [RuntimeNext]_runtimeVars => RuntimeInv' /\ ForwardStep
<1> SUFFICES ASSUME RuntimeInv, [RuntimeNext]_runtimeVars PROVE RuntimeInv' /\ ForwardStep
  OBVIOUS
<1>1. CASE Boot
  BY <1>1, BootSound
<1>2. CASE BootDiscovered
  BY <1>2, BootDiscoveredSound
<1>3. CASE BootServes
  BY <1>3, BootServesSound
<1>4. CASE Crash
  BY <1>4, CrashSound
<1>5. CASE Post
  BY <1>5, PostStepSound
<1>6. ASSUME NEW p \in DOMAIN posts, Reload(p) PROVE RuntimeInv' /\ ForwardStep
  BY <1>6, BuildSound, BuiltSound, VerifySound, SaveSound, SwapSound DEF Reload
<1>7. CASE Managers
  BY <1>7, ManagersSound
<1>8. CASE Tick /\ UNCHANGED procVars
  BY <1>8, TickStepSound
<1>9. ASSUME NEW x \in Watched, Changes(x), UNCHANGED procVars
      PROVE  RuntimeInv' /\ ForwardStep
  <2>1. x \in Source
    BY DEF Watched, Asked
  <2> QED BY <1>9, <2>1, ChangesSound
<1>10. CASE UNCHANGED runtimeVars
  <2>1. UNCHANGED <<edition, managers>> /\ UNCHANGED procVars
    BY <1>10 DEF runtimeVars, catalogVars, worldVars
  <2>2. SameStops
    BY <2>1 DEF SameStops
  <2>3. CatalogSound' /\ ForwardStep
    BY <2>1, ManagersStay DEF CatalogSound, RuntimeInv
  <2> QED BY <2>1, <2>2, <2>3, ProcessStays DEF RuntimeInv
<1> QED BY <1>1, <1>2, <1>3, <1>4, <1>5, <1>6, <1>7, <1>8, <1>9, <1>10 DEF RuntimeNext

\* The process, its posts and its managers agree, whatever crashes, fails and
\* overlaps (server.ts: main(), reloadRuntime(), createSerializer()).
THEOREM RuntimeInvariant == RuntimeSpec => []RuntimeInv
BY InitSound, StepSound, PTL DEF RuntimeSpec

\* Only the manager that serves, the ones under construction and the ones a log
\* directory that cannot be written left behind go on refreshing (reloadRuntime(),
\* CatalogManager.stop()).
THEOREM RuntimeLeaksNoManager == RuntimeSpec => []NoManagerLeaked
<1>1. RuntimeInv => NoManagerLeaked
  <2> SUFFICES ASSUME RuntimeInv, NEW i \in DOMAIN managers,
                      managers[i].timer = "armed" \/ ~managers[i].stopped
               PROVE  \/ i = runtime \/ proc # "up"
                      \/ \E p \in DOMAIN posts :
                            posts[p].built = i /\ posts[p].at \notin {"done", "invalid", "unsaved"}
    BY DEF NoManagerLeaked
  <2>1. ~managers[i].stopped
    BY DEF RuntimeInv, CatalogSound, ManagerSound
  <2> QED BY <2>1 DEF RuntimeInv, Owned, UnderWay
<1> QED BY <1>1, RuntimeInvariant, PTL

\* No refresh takes a catalog back to an older edition of a source, and one that
\* was stopped keeps what it had (CatalogManager.refresh()).
THEOREM RuntimeCatalogForward == RuntimeSpec => CatalogForward
<1>1. ForwardStep =>
        \A i \in DOMAIN managers \cap DOMAIN managers' :
            /\ \A x \in Source :
                  managers'[i].models[x] \in {0} \cup managers[i].models[x]..edition[x]
            /\ managers[i].stopped => managers'[i].models = managers[i].models
  BY DEF ForwardStep, Moves
<1> QED BY <1>1, RuntimeInvariant, StepSound, PTL DEF RuntimeSpec, CatalogForward

------------------------------------------------------------------------------
(* One configuration.                                                        *)

\* What the page posts is a configuration when what it shows is one.
EditsTyped ==
    \A p, shown : RawConfig(STRING, shown) => \A body \in Edits(p, shown) : RawConfig(STRING, body)

FileSound ==
    /\ env \in [Var -> STRING]
    /\ file \in {None, Torn} \/ RawConfig(Text, file)
    /\ example \in {None, Torn} \/ RawConfig(Text, example)
ConfigsSound == \A i \in DOMAIN managers : ConfigSound(managers[i].config)
BodiesSound == \A p \in DOMAIN posts : RawConfig(STRING, posts[p].body)

\* One post is under way at most: the ones before it are over, the ones after it wait.
Turns ==
    \A p \in DOMAIN posts : \A q \in 1..(p - 1) : posts[p].at # "waiting" => Settled(posts[q])

\* The file, if there is a whole one, holds the configuration that serves, or the
\* one that is saved and about to.
Kept(e, f, c) == f \notin {None, Torn} => Agrees(e, f, c)
Agreement ==
    /\ proc \in {"booting", "verifying"} => Kept(env, file, managers[1].config)
    /\ (proc = "up" /\ \A p \in DOMAIN posts : posts[p].at # "saved") => Kept(env, file, Config)
    /\ \A p \in DOMAIN posts :
          posts[p].at = "saved" => Kept(env, file, managers[posts[p].built].config)

ConfigInv == FileSound /\ ConfigsSound /\ BodiesSound /\ Turns /\ Agreement

LEMMA StartedConfig == ASSUME NEW c, NEW aws PROVE Started(c, aws).config = c
<1> DEFINE m == Manager(c)
           d == <<Flight(Asked(c, aws), FALSE)>>
<1>1. Fields(m, {"config", "models", "stopped", "timer", "flights", "failures"}) /\ m.config = c
  BY DEF Manager, Fields
<1>2. Started(c, aws) = [m EXCEPT !.flights = d]
  BY DEF Started
<1> HIDE DEF m, d
<1> QED BY <1>1, <1>2 DEF Fields

LEMMA ConfigInitSound == RuntimeInit => ConfigInv
<1> SUFFICES ASSUME RuntimeInit PROVE ConfigInv
  OBVIOUS
<1>1. /\ managers = <<>> /\ posts = <<>> /\ proc = "down"
      /\ \E s \in Starts : env = s.env /\ file = s.file /\ example = s.example
  BY DEF RuntimeInit, CatalogInit
<1>2. FileSound
  BY <1>1, StartsAssumption DEF FileSound
<1>3. DOMAIN managers = {} /\ DOMAIN posts = {}
  BY <1>1, EmptyShape
<1> QED BY <1>1, <1>2, <1>3 DEF ConfigInv, ConfigsSound, BodiesSound, Turns, Agreement

------------------------------------------------------------------------------

\* The managers that were there keep their configurations.
LEMMA ConfigsStay ==
    ASSUME ConfigsSound, ForwardStep, DOMAIN managers' \subseteq DOMAIN managers
    PROVE  ConfigsSound'
BY DEF ConfigsSound, ForwardStep, Moves

\* No configuration is saved or taken into service: what agreed does.
LEMMA AgreementStays ==
    ASSUME RuntimeInv, Agreement, ForwardStep, DOMAIN managers \subseteq DOMAIN managers',
           UNCHANGED <<env, proc, runtime>>, file' \in {file, Torn},
           \A q \in DOMAIN posts : posts[q].at = "saved" =>
              q \in DOMAIN posts' /\ posts'[q].at = "saved",
           \A q \in DOMAIN posts' : posts'[q].at = "saved" =>
              q \in DOMAIN posts /\ posts[q].at = "saved" /\ posts'[q].built = posts[q].built
    PROVE  Agreement'
<1>1. \A i \in DOMAIN managers : managers'[i].config = managers[i].config
  BY DEF ForwardStep, Moves
<1>2. \A c : Kept(env, file, c) => Kept(env', file', c)
  BY DEF Kept
<1>3. proc' \in {"booting", "verifying"} => Kept(env', file', managers'[1].config)
  <2>1. proc \in {"booting", "verifying"} => 1 \in DOMAIN managers
    BY SeqShape DEF RuntimeInv, ProcSound, CatalogSound
  <2> QED BY <1>1, <1>2, <2>1 DEF Agreement
<1>4. ASSUME proc' = "up", \A q \in DOMAIN posts' : posts'[q].at # "saved"
      PROVE  Kept(env', file', managers'[runtime'].config)
  <2>1. proc = "up" /\ runtime \in DOMAIN managers
    BY <1>4 DEF RuntimeInv, ProcSound
  <2>2. \A q \in DOMAIN posts : posts[q].at # "saved"
    BY <1>4
  <2>3. Kept(env, file, managers[runtime].config)
    BY <2>1, <2>2 DEF Agreement, Config, Serving
  <2> QED BY <1>1, <1>2, <2>1, <2>3
<1>5. ASSUME NEW q \in DOMAIN posts', posts'[q].at = "saved"
      PROVE  Kept(env', file', managers'[posts'[q].built].config)
  <2>1. q \in DOMAIN posts /\ posts[q].at = "saved" /\ posts'[q].built = posts[q].built
    BY <1>5
  <2>2. posts[q].built \in DOMAIN managers
    BY <2>1 DEF RuntimeInv, PostsSound, PostSound
  <2> QED BY <1>1, <1>2, <2>1, <2>2 DEF Agreement
<1> QED BY <1>3, <1>4, <1>5 DEF Agreement, Config, Serving

\* Where nothing happens to the process and its posts.
LEMMA ConfigStays ==
    ASSUME RuntimeInv, ConfigInv, ForwardStep,
           DOMAIN managers' = DOMAIN managers, UNCHANGED procVars
    PROVE  ConfigInv'
<1>1. UNCHANGED <<env, example, file, proc, runtime, posts>>
  BY DEF procVars
<1>2. FileSound' /\ BodiesSound' /\ Turns'
  BY <1>1 DEF ConfigInv, FileSound, BodiesSound, Turns, Settled
<1>3. ConfigsSound'
  BY ConfigsStay DEF ConfigInv
<1>4. Agreement'
  BY <1>1, AgreementStays DEF ConfigInv
<1> QED BY <1>2, <1>3, <1>4 DEF ConfigInv

\* A post goes on in its turn.
LEMMA TurnsStay ==
    ASSUME Turns, PostsSound, NEW p \in DOMAIN posts, ~Settled(posts[p]),
           posts[p].at = "waiting" => InTurn(p), NEW at, NEW built, PostMoves(p, at, built)
    PROVE  Turns'
<1>1. Len(posts) \in Nat /\ DOMAIN posts = 1..Len(posts) /\ DOMAIN posts' = DOMAIN posts
  BY SeqShape DEF PostsSound, PostMoves
<1>2. ASSUME NEW r \in DOMAIN posts, NEW q \in 1..(r - 1), posts'[r].at # "waiting"
      PROVE  Settled(posts'[q])
  <2>1. q \in DOMAIN posts /\ q # r
    BY <1>1
  <2>2. CASE r = p
    <3>1. Settled(posts[q])
      BY <2>2 DEF InTurn, Turns
    <3> QED BY <2>1, <2>2, <3>1 DEF PostMoves
  <2>3. CASE r # p
    <3>1. posts'[r] = posts[r]
      BY <2>3 DEF PostMoves
    <3>2. Settled(posts[q])
      BY <1>2, <3>1 DEF Turns
    <3>3. q # p
      BY <3>2
    <3> QED BY <2>1, <3>2, <3>3 DEF PostMoves
  <2> QED BY <2>2, <2>3
<1> QED BY <1>1, <1>2 DEF Turns

LEMMA BodiesStay ==
    ASSUME BodiesSound, NEW p \in DOMAIN posts, NEW at, NEW built, PostMoves(p, at, built)
    PROVE  BodiesSound'
<1>1. DOMAIN posts' = DOMAIN posts /\ \A q \in DOMAIN posts : posts'[q].body = posts[q].body
  BY DEF PostMoves
<1> QED BY <1>1 DEF BodiesSound

\* While a post saves, or has saved, no other one has.
LEMMA OneSaves ==
    ASSUME Turns, PostsSound, NEW p \in DOMAIN posts, posts[p].at \in {"saving", "saved"}
    PROVE  \A q \in DOMAIN posts \ {p} : posts[q].at # "saved"
<1>1. Len(posts) \in Nat /\ DOMAIN posts = 1..Len(posts)
  BY SeqShape DEF PostsSound
<1>2. ASSUME NEW q \in DOMAIN posts \ {p}, posts[q].at = "saved"
      PROVE  FALSE
  <2>1. CASE q < p
    <3>1. q \in 1..(p - 1)
      BY <1>1, <2>1
    <3> QED BY <1>2, <3>1 DEF Turns, Settled
  <2>2. CASE p < q
    <3>1. p \in 1..(q - 1)
      BY <1>1, <2>2
    <3> QED BY <1>2, <3>1 DEF Turns, Settled
  <2> QED BY <1>1, <2>1, <2>2
<1> QED BY <1>2

\* What a boot loads is sound, and agrees with the file it was read from.
LEMMA BootLoadsSound ==
    ASSUME NoneIsPlain, FileSound, NEW raw, RawConfig(Text, raw), BootLoads(raw)
    PROVE  /\ DOMAIN managers' = {1} /\ ConfigSound(managers'[1].config)
           /\ Agrees(env, raw, managers'[1].config)
<1> DEFINE c == Load(env, raw)
           g == Started(c, Aws)
<1>1. managers' = <<g>> /\ Loads(env, raw)
  BY DEF BootLoads
<1>2. g.config = c
  BY StartedConfig
<1>3. ConfigSound(c) /\ Agrees(env, raw, c)
  BY <1>1, LoadAgrees DEF FileSound
<1> HIDE DEF g, c
<1> QED BY <1>1, <1>2, <1>3

LEMMA BootConfig ==
    ASSUME NoneIsPlain, RuntimeInv, ConfigInv, Boot
    PROVE  ConfigInv'
<1>1. /\ proc' = "booting" /\ UNCHANGED <<env, example, runtime, posts>> /\ posts = <<>>
  BY DEF Boot, BootLoads, RuntimeInv, ProcSound
<1>2. DOMAIN posts' = {}
  BY <1>1, EmptyShape
<1>3. FileSound' /\ ConfigSound(managers'[1].config) /\ DOMAIN managers' = {1}
      /\ Kept(env', file', managers'[1].config)
  <2>1. CASE file # None /\ BootLoads(file) /\ UNCHANGED file
    <3>1. RawConfig(Text, file)
      BY <2>1 DEF BootLoads, ConfigInv, FileSound
    <3> QED BY <1>1, <2>1, <3>1, BootLoadsSound DEF ConfigInv, FileSound, Kept
  <2>2. CASE file = None /\ example # None /\ BootLoads(example) /\ file' \in {file, example}
    <3>1. RawConfig(Text, example)
      BY <2>2 DEF BootLoads, ConfigInv, FileSound
    <3> QED BY <1>1, <2>2, <3>1, BootLoadsSound DEF ConfigInv, FileSound, Kept
  <2>3. CASE file = None /\ BootLoads(DefaultConfig) /\ UNCHANGED file
    BY <1>1, <2>3, DefaultTyped, BootLoadsSound DEF ConfigInv, FileSound, Kept
  <2> QED BY <2>1, <2>2, <2>3 DEF Boot
<1> QED BY <1>1, <1>2, <1>3 DEF ConfigInv, ConfigsSound, BodiesSound, Turns, Agreement

LEMMA BootDiscoveredConfig ==
    ASSUME RuntimeInv, ConfigInv, BootDiscovered
    PROVE  ConfigInv'
<1>1. ForwardStep /\ RuntimeInv'
  BY BootDiscoveredSound
<1>2. /\ proc = "booting" /\ proc' = "verifying" /\ UNCHANGED <<env, example, file, runtime, posts>>
      /\ posts = <<>> /\ DOMAIN managers' = DOMAIN managers
  BY DEF BootDiscovered, RuntimeInv, ProcSound, Set
<1>3. 1 \in DOMAIN managers /\ DOMAIN posts' = {}
  BY <1>2, SeqShape, EmptyShape DEF RuntimeInv, ProcSound, CatalogSound
<1>4. managers'[1].config = managers[1].config
  BY <1>1, <1>2, <1>3 DEF ForwardStep, Moves
<1>5. Kept(env', file', managers'[1].config)
  BY <1>2, <1>4 DEF ConfigInv, Agreement
<1>6. ConfigsSound'
  BY <1>1, <1>2, ConfigsStay DEF ConfigInv
<1> QED BY <1>2, <1>3, <1>5, <1>6 DEF ConfigInv, FileSound, BodiesSound, Turns, Agreement

LEMMA BootServesConfig ==
    ASSUME RuntimeInv, ConfigInv, BootServes
    PROVE  ConfigInv'
<1>1. /\ proc = "verifying" /\ proc' = "up" /\ runtime' = 1
      /\ UNCHANGED <<managers, env, example, file, posts>> /\ posts = <<>>
  BY DEF BootServes, RuntimeInv, ProcSound, catalogVars
<1>2. DOMAIN posts' = {}
  BY <1>1, EmptyShape
<1>3. Kept(env', file', managers'[runtime'].config)
  BY <1>1 DEF ConfigInv, Agreement
<1>4. FileSound' /\ ConfigsSound'
  BY <1>1 DEF ConfigInv, FileSound, ConfigsSound
<1> QED BY <1>1, <1>2, <1>3, <1>4 DEF ConfigInv, BodiesSound, Turns, Agreement, Config, Serving

LEMMA CrashConfig ==
    ASSUME ConfigInv, Crash
    PROVE  ConfigInv'
<1>1. /\ proc' = "down" /\ managers' = <<>> /\ posts' = <<>> /\ UNCHANGED <<env, example>>
      /\ file' \in {file, Torn}
  BY DEF Crash
<1>2. DOMAIN posts' = {} /\ DOMAIN managers' = {}
  BY <1>1, EmptyShape
<1>3. FileSound'
  BY <1>1 DEF ConfigInv, FileSound
<1> QED BY <1>1, <1>2, <1>3 DEF ConfigInv, ConfigsSound, BodiesSound, Turns, Agreement

LEMMA PostConfig ==
    ASSUME NoneIsPlain, EditsTyped, RuntimeInv, ConfigInv, Post
    PROVE  ConfigInv'
<1>1. ForwardStep
  BY PostStepSound
<1> DEFINE n == Len(posts) + 1
<1>2. /\ proc = "up" /\ UNCHANGED <<managers, env, example, file, proc, runtime>>
      /\ \E body \in Edits(n, Shown(Config)) :
            posts' = Append(posts, [body |-> body, at |-> "waiting", built |-> 0])
  BY DEF Post
<1>3. PICK body \in Edits(n, Shown(Config)) :
            posts' = Append(posts, [body |-> body, at |-> "waiting", built |-> 0])
  BY <1>2
<1> HIDE DEF n
<1>4. RawConfig(STRING, body)
  <2>1. runtime \in DOMAIN managers
    BY <1>2 DEF RuntimeInv, ProcSound
  <2>2. ConfigSound(Config)
    BY <2>1 DEF ConfigInv, ConfigsSound, Config, Serving
  <2>3. RawConfig(STRING, Shown(Config))
    BY <2>2, ShownComesBack
  <2> QED BY <1>3, <2>3 DEF EditsTyped
<1> DEFINE r == [body |-> body, at |-> "waiting", built |-> 0]
           k == Len(posts')
<1>5. r.body = body /\ r.at = "waiting"
  OBVIOUS
<1>6. posts' = Append(posts, r) /\ IsSeq(posts)
  BY <1>3 DEF RuntimeInv, PostsSound
<1> HIDE DEF r
<1>7. /\ posts'[k] = r /\ DOMAIN posts' = DOMAIN posts \cup {k}
      /\ \A q \in DOMAIN posts : posts'[q] = posts[q]
  <2>1. posts'[k] = r
    BY <1>6, AppendShape
  <2>2. DOMAIN posts' = DOMAIN posts \cup {k}
    BY <1>6, AppendShape
  <2>3. \A q \in DOMAIN posts : posts'[q] = posts[q]
    BY <1>6, AppendShape
  <2> QED BY <2>1, <2>2, <2>3
<1> HIDE DEF k
<1>8. BodiesSound'
  BY <1>4, <1>5, <1>7 DEF ConfigInv, BodiesSound
<1>9. Turns'
  <2>1. Len(posts) \in Nat /\ DOMAIN posts = 1..Len(posts)
    BY <1>6, SeqShape
  <2>2. ASSUME NEW p \in DOMAIN posts', NEW q \in 1..(p - 1), posts'[p].at # "waiting"
        PROVE  Settled(posts'[q])
    <3>1. p \in DOMAIN posts /\ posts'[p] = posts[p]
      BY <1>5, <1>7, <2>2
    <3>2. q \in DOMAIN posts
      BY <2>1, <3>1
    <3> QED BY <1>7, <2>2, <3>1, <3>2 DEF ConfigInv, Turns
  <2> QED BY <2>2 DEF Turns
<1>10. Agreement'
  BY <1>1, <1>2, <1>5, <1>7, AgreementStays DEF ConfigInv
<1>11. FileSound' /\ ConfigsSound'
  BY <1>2 DEF ConfigInv, FileSound, ConfigsSound
<1> QED BY <1>8, <1>9, <1>10, <1>11 DEF ConfigInv

------------------------------------------------------------------------------

LEMMA BuildConfig ==
    ASSUME NoneIsPlain, RuntimeInv, ConfigInv, NEW p \in DOMAIN posts, Build(p)
    PROVE  ConfigInv'
<1>1. ForwardStep
  BY BuildSound
<1>2. /\ posts[p].at = "waiting" /\ InTurn(p) /\ UNCHANGED <<env, example, file, proc, runtime>>
      /\ PostsSound /\ IsSeq(managers)
  BY DEF Build, RuntimeInv, CatalogSound
<1>3. FileSound'
  BY <1>2 DEF ConfigInv, FileSound
<1>4. CASE Step(p, "invalid") /\ managers' = managers
  <2>1. PostMoves(p, "invalid", posts[p].built)
    BY <1>2, <1>4, StepShape
  <2>2. BodiesSound' /\ Turns'
    BY <1>2, <2>1, BodiesStay, TurnsStay DEF ConfigInv, Settled
  <2>3. Agreement'
    BY <1>1, <1>2, <1>4, <2>1, AgreementStays DEF ConfigInv, PostMoves
  <2>4. ConfigsSound'
    BY <1>1, <1>4, ConfigsStay DEF ConfigInv
  <2> QED BY <1>3, <2>2, <2>3, <2>4 DEF ConfigInv
<1>5. CASE /\ Valid(posts[p].body)
           /\ managers' = Append(managers, Started(Validated(posts[p].body), Aws))
           /\ posts' = [posts EXCEPT ![p].at = "building", ![p].built = Len(managers')]
  <2> DEFINE c == Validated(posts[p].body)
             g == Started(c, Aws)
             n == Len(managers')
  <2>1. g.config = c /\ ConfigSound(c)
    BY <1>5, StartedConfig, ConfigOfSound DEF ConfigInv, BodiesSound
  <2>2. managers' = Append(managers, g)
    BY <1>5
  <2> HIDE DEF g, c
  <2>3. managers'[n] = g
    BY <1>2, <2>2, AppendShape
  <2>4. DOMAIN managers' = DOMAIN managers \cup {n}
    BY <1>2, <2>2, AppendShape
  <2>5. ConfigsSound'
    BY <1>1, <2>1, <2>3, <2>4 DEF ConfigInv, ConfigsSound, ForwardStep, Moves
  <2> DEFINE r == [posts[p] EXCEPT !.at = "building", !.built = n]
  <2>6. posts' = [posts EXCEPT ![p] = r]
    BY <1>5
  <2> HIDE DEF n
  <2>7. /\ r = [f \in {"body", "at", "built"} |-> r[f]] /\ r.at = "building" /\ r.built = n
        /\ r.body = posts[p].body
    BY <1>2 DEF PostsSound, PostSound
  <2> HIDE DEF r
  <2>8. PostMoves(p, "building", n)
    <3>1. IsSeq(posts)
      BY <1>2 DEF PostsSound
    <3> QED BY <2>6, <2>7, <3>1, ExceptShape DEF PostMoves
  <2>9. BodiesSound' /\ Turns'
    BY <1>2, <2>8, BodiesStay, TurnsStay DEF ConfigInv, Settled
  <2>10. Agreement'
    BY <1>1, <1>2, <2>4, <2>8, AgreementStays DEF ConfigInv, PostMoves
  <2> QED BY <1>3, <2>5, <2>9, <2>10 DEF ConfigInv
<1> QED BY <1>4, <1>5 DEF Build

\* A post goes on to a step that saves nothing, and no manager is made.
LEMMA PostGoesOnConfig ==
    ASSUME RuntimeInv, ConfigInv, ForwardStep, NEW p \in DOMAIN posts,
           posts[p].at \in {"building", "verifying", "saving"},
           NEW at \in {"verifying", "saving", "unwritable", "unsaved"}, Step(p, at),
           DOMAIN managers' = DOMAIN managers,
           UNCHANGED <<env, example, proc, runtime>>, file' \in {file, Torn}
    PROVE  ConfigInv'
<1>1. PostMoves(p, at, posts[p].built) /\ PostsSound
  BY StepShape DEF RuntimeInv
<1>2. BodiesSound' /\ Turns'
  BY <1>1, BodiesStay, TurnsStay DEF ConfigInv, Settled
<1>3. Agreement'
  BY <1>1, AgreementStays DEF ConfigInv, PostMoves
<1>4. ConfigsSound'
  BY ConfigsStay DEF ConfigInv
<1>5. FileSound'
  BY DEF ConfigInv, FileSound
<1> QED BY <1>2, <1>3, <1>4, <1>5 DEF ConfigInv

LEMMA SaveConfig ==
    ASSUME NoneIsPlain, RuntimeInv, ConfigInv, NEW p \in DOMAIN posts, Save(p)
    PROVE  ConfigInv'
<1>1. ForwardStep
  BY SaveSound
<1>2. posts[p].at = "saving" /\ UNCHANGED <<env, example, proc, runtime>> /\ PostsSound
  BY DEF Save, RuntimeInv
<1> DEFINE i == posts[p].built
<1>3. i \in DOMAIN managers
  BY <1>2 DEF PostsSound, PostSound
<1>4. CASE file' = Written(managers[i].config) /\ Step(p, "saved") /\ managers' = managers
  <2>1. PostMoves(p, "saved", i)
    BY <1>2, <1>4, StepShape
  <2>2. BodiesSound' /\ Turns'
    BY <1>2, <2>1, BodiesStay, TurnsStay DEF ConfigInv, Settled
  <2>3. ConfigSound(managers[i].config)
    BY <1>3 DEF ConfigInv, ConfigsSound
  <2>4. file' = Saved(env, managers[i].config)
    BY <1>4 DEF Written
  <2>5. RawConfig(Text, file') /\ Agrees(env, file', managers[i].config)
    BY <2>3, <2>4, SavedBack, SavedAgrees
  <2>6. FileSound' /\ ConfigsSound'
    BY <1>2, <1>4, <2>5 DEF ConfigInv, FileSound, ConfigsSound
  <2>7. \A q \in DOMAIN posts \ {p} : posts'[q].at # "saved"
    BY <1>2, <2>1, OneSaves DEF ConfigInv, PostMoves
  <2>8. proc' = "up"
    BY <1>2, PostsUp DEF RuntimeInv
  <2> HIDE DEF i
  <2>9. Agreement'
    BY <1>2, <1>4, <2>1, <2>5, <2>7, <2>8 DEF Agreement, PostMoves, Kept
  <2> QED BY <2>2, <2>6, <2>9 DEF ConfigInv
<1>5. CASE file' \in {file, Torn} /\ Discard(i) /\ Step(p, "unsaved")
  <2>1. DOMAIN managers' = DOMAIN managers
    BY <1>5 DEF Discard, Set
  <2> QED BY <1>1, <1>2, <1>5, <2>1, PostGoesOnConfig
<1> QED BY <1>4, <1>5 DEF Save

LEMMA SwapConfig ==
    ASSUME RuntimeInv, ConfigInv, NEW p \in DOMAIN posts, Swap(p)
    PROVE  ConfigInv'
<1>1. ForwardStep
  BY SwapSound
<1> DEFINE i == posts[p].built
<1>2. /\ posts[p].at = "saved" /\ UNCHANGED <<env, example, file, proc>> /\ PostsSound
      /\ runtime' = i /\ Step(p, "done") /\ DOMAIN managers' = DOMAIN managers
  BY DEF Swap, RuntimeInv, Set
<1>3. PostMoves(p, "done", i)
  BY <1>2, StepShape
<1>4. BodiesSound' /\ Turns'
  BY <1>2, <1>3, BodiesStay, TurnsStay DEF ConfigInv, Settled
<1>5. FileSound' /\ ConfigsSound'
  BY <1>1, <1>2, ConfigsStay DEF ConfigInv, FileSound
<1>6. i \in DOMAIN managers /\ managers'[i].config = managers[i].config
  BY <1>1, <1>2 DEF PostsSound, PostSound, ForwardStep, Moves
<1>7. Kept(env', file', managers'[i].config)
  BY <1>2, <1>6 DEF ConfigInv, Agreement
<1>8. \A q \in DOMAIN posts \ {p} : posts'[q].at # "saved"
  BY <1>2, <1>3, OneSaves DEF ConfigInv, PostMoves
<1>9. proc' = "up"
  BY <1>2, PostsUp DEF RuntimeInv
<1> HIDE DEF i
<1>10. Agreement'
  BY <1>2, <1>3, <1>7, <1>8, <1>9 DEF Agreement, PostMoves, Config, Serving
<1> QED BY <1>4, <1>5, <1>10 DEF ConfigInv

LEMMA ReloadConfig ==
    ASSUME NoneIsPlain, RuntimeInv, ConfigInv, NEW p \in DOMAIN posts, Reload(p)
    PROVE  ConfigInv'
<1>1. CASE Build(p)
  BY <1>1, BuildConfig
<1>2. CASE Built(p)
  <2>1. ForwardStep
    BY <1>2, BuiltSound
  <2>2. /\ posts[p].at = "building" /\ Step(p, "verifying")
        /\ DOMAIN managers' = DOMAIN managers /\ UNCHANGED <<env, example, file, proc, runtime>>
    BY <1>2 DEF Built, Set
  <2> QED BY <2>1, <2>2, PostGoesOnConfig
<1>3. CASE Verify(p)
  <2>1. ForwardStep
    BY <1>3, VerifySound
  <2>2. /\ posts[p].at = "verifying" /\ (Step(p, "saving") \/ Step(p, "unwritable"))
        /\ DOMAIN managers' = DOMAIN managers /\ UNCHANGED <<env, example, file, proc, runtime>>
    BY <1>3 DEF Verify
  <2> QED BY <2>1, <2>2, PostGoesOnConfig
<1>4. CASE Save(p)
  BY <1>4, SaveConfig
<1>5. CASE Swap(p)
  BY <1>5, SwapConfig
<1> QED BY <1>1, <1>2, <1>3, <1>4, <1>5 DEF Reload

LEMMA ManagersConfig ==
    ASSUME RuntimeInv, ConfigInv, Managers
    PROVE  ConfigInv'
<1>1. ForwardStep
  BY ManagersSound
<1>2. DOMAIN managers' = DOMAIN managers /\ UNCHANGED procVars
  BY DEF Managers, ManagerNext, TimerFires, SourcesAnswer, RefreshEnds, Set
<1> QED BY <1>1, <1>2, ConfigStays

LEMMA ConfigStep ==
    ASSUME NoneIsPlain, EditsTyped, RuntimeInv, ConfigInv, [RuntimeNext]_runtimeVars
    PROVE  ConfigInv'
<1>1. ForwardStep
  BY StepSound
<1>2. CASE Boot
  BY <1>2, BootConfig
<1>3. CASE BootDiscovered
  BY <1>3, BootDiscoveredConfig
<1>4. CASE BootServes
  BY <1>4, BootServesConfig
<1>5. CASE Crash
  BY <1>5, CrashConfig
<1>6. CASE Post
  BY <1>6, PostConfig
<1>7. ASSUME NEW p \in DOMAIN posts, Reload(p) PROVE ConfigInv'
  BY <1>7, ReloadConfig
<1>8. CASE Managers
  BY <1>8, ManagersConfig
<1>9. CASE Tick /\ UNCHANGED procVars
  <2>1. DOMAIN managers' = DOMAIN managers
    BY <1>9 DEF Tick
  <2> QED BY <1>1, <1>9, <2>1, ConfigStays
<1>10. ASSUME NEW x \in Watched, Changes(x), UNCHANGED procVars PROVE ConfigInv'
  <2>1. DOMAIN managers' = DOMAIN managers
    BY <1>10 DEF Changes
  <2> QED BY <1>1, <1>10, <2>1, ConfigStays
<1>11. CASE UNCHANGED runtimeVars
  <2>1. DOMAIN managers' = DOMAIN managers /\ UNCHANGED procVars
    BY <1>11 DEF runtimeVars, catalogVars
  <2> QED BY <1>1, <2>1, ConfigStays
<1> QED BY <1>2, <1>3, <1>4, <1>5, <1>6, <1>7, <1>8, <1>9, <1>10, <1>11 DEF RuntimeNext

\* Every configuration in the process is one that validation can yield, and the file,
\* when there is a whole one, holds the one that serves or is about to (main(),
\* reloadRuntime(), saveConfig()).
THEOREM RuntimeConfigInvariant ==
    ASSUME NoneIsPlain, EditsTyped
    PROVE  RuntimeSpec => [](RuntimeInv /\ ConfigInv)
<1>1. RuntimeInit => RuntimeInv /\ ConfigInv
  BY InitSound, ConfigInitSound
<1>2. RuntimeInv /\ ConfigInv /\ [RuntimeNext]_runtimeVars => (RuntimeInv /\ ConfigInv)'
  BY StepSound, ConfigStep
<1> QED BY <1>1, <1>2, PTL DEF RuntimeSpec

\* What serves, what a restart would load and what the page shows are one
\* configuration, whatever was posted, whichever writes failed and wherever the
\* process crashed (reloadRuntime(), saveConfig(), serializeConfig()).
THEOREM RuntimeOneConfiguration ==
    ASSUME NoneIsPlain, EditsTyped
    PROVE  RuntimeSpec => []OneConfiguration
<1>1. RuntimeInv /\ ConfigInv => OneConfiguration
  <2> SUFFICES ASSUME RuntimeInv, ConfigInv PROVE OneConfiguration
    OBVIOUS
  <2>1. SavedIsRunning
    BY DEF ConfigInv, Agreement, Kept, SavedIsRunning
  <2>2. ASSUME proc = "up"
        PROVE  /\ Valid(Shown(Config))
               /\ Meaning(Validated(Shown(Config))) = Meaning(Config)
    <3>1. ConfigSound(Config)
      BY <2>2 DEF RuntimeInv, ProcSound, ConfigInv, ConfigsSound, Config, Serving
    <3> QED BY <3>1, ShownComesBack
  <2> QED BY <2>1, <2>2 DEF OneConfiguration, ShownIsRunning
<1> QED BY <1>1, RuntimeConfigInvariant, PTL

------------------------------------------------------------------------------
(* Tiers.                                                                    *)

\* The first of a list that passes.
LEMMA FirstKept ==
    ASSUME NEW s, IsSeq(s), NEW S, Only(s, S) # <<>>
    PROVE  \E i \in DOMAIN s : /\ Head(Only(s, S)) = s[i] /\ s[i] \in S
                               /\ \A j \in 1..(i - 1) : s[j] \notin S
<1> DEFINE t == Only(s, S)
<1>1. Len(s) \in Nat /\ DOMAIN s = 1..Len(s)
  BY SeqShape
<1>2. KeepsTo(s, S, Len(s), t)
  BY <1>1, OnlyKeeps
<1>3. t # <<>>
  OBVIOUS
<1> HIDE DEF t
<1>4. t \in Seq(Range(t))
  BY <1>2 DEF KeepsTo, IsSeq
<1>5. Head(t) = t[1]
  BY <1>3, <1>4
<1>6. \E i \in 1..Len(s) : t[1] = s[i] /\ s[i] \in S /\ \A j \in 1..(i - 1) : s[j] \notin S
  BY <1>2, <1>3 DEF KeepsTo
<1> QED BY <1>1, <1>5, <1>6 DEF t

\* A Converse entry is invoked where the catalog lists it, or Mantle stands in.
LEMMA ConverseServed ==
    ASSUME NEW c, NEW aws, NEW catalog, NEW id,
           id.provider = "bedrock", id.backend = "converse",
           RoutePlain(c, aws, catalog, id).ok
    PROVE  \/ Found(c, catalog, id) # {}
           \/ /\ RoutePlain(c, aws, catalog, id).backend = "mantle"
              /\ c.fallback /\ id.native \in Claude
<1> DEFINE target == RoutePlain(c, aws, catalog, id)
           ways == {Invocations(m, c.preference) : m \in Found(c, catalog, id)} \ {<<>>}
<1>1. \A why : ~Fails(why).ok
  BY DEF Fails
<1>2. target = RouteConverse(c, catalog, id)
  BY <1>1 DEF RoutePlain, RouteBedrock
<1>3. KnownPrefix(c, id.prefix)
  BY <1>1, <1>2 DEF RouteConverse
<1>4. CASE ways # {}
  BY <1>4
<1>5. CASE ways = {}
  <2>1. target = IF c.fallback /\ IsAnthropic(id.native) THEN RouteMantle(c, id)
                 ELSE Fails("not found or not invocable")
    BY <1>2, <1>3, <1>5 DEF RouteConverse
  <2>2. c.fallback /\ IsAnthropic(id.native) /\ target = RouteMantle(c, id)
    BY <1>1, <2>1
  <2>3. RouteMantle(c, id).backend = "mantle"
    BY <1>3 DEF RouteMantle, BedrockTarget
  <2> QED BY <2>2, <2>3 DEF IsAnthropic
<1> QED BY <1>4, <1>5

LEMMA TiersRoute ==
    ASSUME proc = "up", ConfigSound(Config)
    PROVE  TierSound
<1> DEFINE c == Config
           catalog == ModelsOf(Config, Serving.models)
           tier(n) == [provider |-> "virtual", backend |-> "anthropic",
                       prefix |-> "global", native |-> n]
           listed(id) == \E m \in catalog :
              /\ m.backend = "converse" /\ m.native = id.native
              /\ IF id.prefix = "global" THEN m.region = c.primary ELSE m.region = id.prefix
<1>1. TiersSound(c.tiers)
  BY DEF ConfigSound
<1>2. \A id : listed(id) <=> Found(c, catalog, id) # {}
  BY DEF Found, RegionKey
<1> HIDE DEF catalog
<1>3. ASSUME NEW n \in DOMAIN c.tiers, Route(c, Aws, catalog, tier(n)).ok
      PROVE  \E i \in DOMAIN c.tiers[n] :
                /\ Route(c, Aws, catalog, tier(n)) = Route(c, Aws, catalog, c.tiers[n][i])
                /\ \A j \in 1..(i - 1) : ~Route(c, Aws, catalog, c.tiers[n][j]).ok
                /\ c.tiers[n][i].provider = "bedrock" /\ c.tiers[n][i].backend = "converse" =>
                      listed(c.tiers[n][i])
                      \/ (/\ Route(c, Aws, catalog, tier(n)).backend = "mantle"
                          /\ c.fallback /\ c.tiers[n][i].native \in Claude)
  <2> DEFINE entries == c.tiers[n]
             S == {id \in Range(entries) : RoutePlain(c, Aws, catalog, id).ok}
             target == Route(c, Aws, catalog, tier(n))
  <2>1. IsSeq(entries) /\ \A i \in DOMAIN entries : entries[i].provider # "virtual"
    BY <1>1 DEF TiersSound
  <2>2. \A i \in DOMAIN entries :
           Route(c, Aws, catalog, entries[i]) = RoutePlain(c, Aws, catalog, entries[i])
    BY <2>1 DEF Route
  <2>3. /\ Only(entries, S) # <<>>
        /\ target = RoutePlain(c, Aws, catalog, Head(Only(entries, S)))
    <3>1. \A why : ~Fails(why).ok
      BY DEF Fails
    <3>2. target = RouteVirtual(c, Aws, catalog, tier(n))
      BY DEF Route
    <3> QED BY <1>3, <3>1, <3>2 DEF RouteVirtual, Available
  <2>4. PICK i \in DOMAIN entries : /\ Head(Only(entries, S)) = entries[i] /\ entries[i] \in S
                                    /\ \A j \in 1..(i - 1) : entries[j] \notin S
    <3> HIDE DEF S, entries
    <3> QED BY <2>1, <2>3, FirstKept
  <2>5. \A j \in 1..(i - 1) : j \in DOMAIN entries
    <3>1. DOMAIN entries = 1..Len(entries) /\ Len(entries) \in Nat
      BY <2>1, SeqShape
    <3> QED BY <3>1
  <2>6. /\ target = RoutePlain(c, Aws, catalog, entries[i])
        /\ RoutePlain(c, Aws, catalog, entries[i]).ok
    BY <2>3, <2>4
  <2>7. \A j \in 1..(i - 1) : ~RoutePlain(c, Aws, catalog, entries[j]).ok
    BY <2>4, <2>5 DEF Range
  <2>8. entries[i].provider = "bedrock" /\ entries[i].backend = "converse" =>
           \/ listed(entries[i])
           \/ target.backend = "mantle" /\ c.fallback /\ entries[i].native \in Claude
    <3> HIDE DEF listed
    <3> QED BY <1>2, <2>6, ConverseServed
  <2> HIDE DEF listed, S
  <2> QED BY <2>2, <2>5, <2>6, <2>7, <2>8
<1> HIDE DEF listed
<1> QED BY <1>3 DEF TierSound, listed, catalog

\* A tier that routes goes to its first entry that would be routed by itself, and a
\* Converse entry of another region is not served in place of the one that was meant,
\* under every configuration a post can bring (routeVirtual(), routeCandidates(),
\* routeConverse()).
THEOREM RuntimeTierSound ==
    ASSUME NoneIsPlain, EditsTyped
    PROVE  RuntimeSpec => []TierSound
<1>1. RuntimeInv /\ ConfigInv => TierSound
  <2> SUFFICES ASSUME RuntimeInv, ConfigInv, proc = "up" PROVE TierSound
    BY DEF TierSound
  <2>1. ConfigSound(Config)
    BY DEF RuntimeInv, ProcSound, ConfigInv, ConfigsSound, Config, Serving
  <2> QED BY <2>1, TiersRoute
<1> QED BY <1>1, RuntimeConfigInvariant, PTL

------------------------------------------------------------------------------
(* What a manager knows.                                                     *)

FlightOf(a, d) == d.asks \subseteq a /\ \A x \in Source : d.got[x] # 0 => x \in d.asks
KnowsOnly(a, g) ==
    /\ \A x \in Source : g.models[x] # 0 => x \in a
    /\ \A k \in DOMAIN g.flights : FlightOf(a, g.flights[k])
Knowledge == \A i \in DOMAIN managers : KnowsOnly(Asked(managers[i].config, Aws), managers[i])

LEMMA NewFlight ==
    ASSUME NEW a, NEW asks, asks \subseteq a, NEW kept
    PROVE  FlightOf(a, Flight(asks, kept))
BY DEF FlightOf, Flight, Nothing

LEMMA StartedKnows ==
    ASSUME NEW c, NEW aws
    PROVE  KnowsOnly(Asked(c, aws), Started(c, aws))
<1> DEFINE m == Manager(c)
           d == Flight(Asked(c, aws), FALSE)
           g == Started(c, aws)
<1>1. Whole(m) /\ m.models = Nothing
  BY DEF Manager, Whole
<1>2. g = [m EXCEPT !.flights = <<d>>]
  BY DEF Started
<1>3. FlightOf(Asked(c, aws), d)
  BY NewFlight
<1> HIDE DEF m, d, g
<1>4. g.models = Nothing /\ g.flights = <<d>>
  BY <1>1, <1>2 DEF Whole
<1>5. KnowsOnly(Asked(c, aws), g)
  BY <1>3, <1>4 DEF KnowsOnly, Nothing
<1> QED BY <1>5 DEF g

LEMMA RunningKnows ==
    ASSUME NEW e, NEW g, ManagerSound(e, g), FirstBack(g), NEW a, KnowsOnly(a, g)
    PROVE  KnowsOnly(a, Running(g))
<1> DEFINE h == Running(g)
<1>1. PICK d : g.flights = <<d>>
  BY DEF ManagerSound, FirstBack
<1>2. FlightOf(a, d) /\ g.flights[1] = d
  BY <1>1 DEF KnowsOnly
<1>3. h.models = d.got /\ h.flights = <<>>
  <2>1. h = [g EXCEPT !.models = d.got, !.flights = <<>>, !.timer = "armed"]
    BY <1>2 DEF Running
  <2> HIDE DEF h
  <2> QED BY <2>1 DEF ManagerSound, Whole
<1> HIDE DEF h
<1>4. KnowsOnly(a, h)
  BY <1>2, <1>3 DEF KnowsOnly, FlightOf
<1> QED BY <1>4 DEF h

LEMMA StoppedKnows ==
    ASSUME NEW e, NEW g, ManagerSound(e, g), NEW a, KnowsOnly(a, g)
    PROVE  KnowsOnly(a, Stopped(g))
<1> DEFINE h == Stopped(g)
<1>1. h.models = g.models /\ h.flights = g.flights
  BY DEF Stopped, ManagerSound, Whole
<1> HIDE DEF h
<1>2. KnowsOnly(a, h)
  BY <1>1 DEF KnowsOnly
<1> QED BY <1>2 DEF h

LEMMA FiresKnows ==
    ASSUME NEW e, NEW g, ManagerSound(e, g), NEW aws, KnowsOnly(Asked(g.config, aws), g),
           NEW h, h = [Begin(g, aws) EXCEPT !.timer = "awaiting"]
    PROVE  KnowsOnly(Asked(g.config, aws), h)
<1> DEFINE a == Asked(g.config, aws)
           d == Flight(a \ Skipped(g), TRUE)
           b == Begin(g, aws)
<1>1. FlightOf(a, d)
  <2> HIDE DEF a
  <2> QED BY NewFlight
<1>2. Whole(b) /\ b.models = g.models /\ b.flights \in {g.flights, <<d>>}
  <2>1. CASE Refreshing(g)
    BY <2>1 DEF Begin, ManagerSound
  <2>2. CASE ~Refreshing(g)
    <3>1. g.flights = <<>>
      BY <2>2 DEF Refreshing
    <3>2. Append(g.flights, d) = <<d>>
      BY <3>1
    <3>3. b = [g EXCEPT !.flights = Append(@, d)]
      BY <2>2 DEF Begin
    <3> HIDE DEF d, b
    <3>4. b = [g EXCEPT !.flights = <<d>>]
      BY <3>2, <3>3
    <3> QED BY <3>4 DEF ManagerSound, Whole
  <2> QED BY <2>1, <2>2
<1> HIDE DEF b, d, a
<1>3. h.models = g.models /\ h.flights \in {g.flights, <<d>>}
  BY <1>2 DEF Whole, b
<1>4. KnowsOnly(a, g)
  BY DEF a
<1>5. KnowsOnly(a, h)
  <2>1. CASE h.flights = g.flights
    BY <1>3, <1>4, <2>1 DEF KnowsOnly
  <2>2. CASE h.flights = <<d>>
    BY <1>1, <1>3, <1>4, <2>2 DEF KnowsOnly
  <2> QED BY <1>3, <2>1, <2>2
<1> QED BY <1>5 DEF a

LEMMA EndKnows ==
    ASSUME NEW e, NEW g, ManagerSound(e, g), NEW a, KnowsOnly(a, g),
           NEW k \in DOMAIN g.flights, NEW d, d = g.flights[k],
           NEW h, h = Ended(g, d, k)
    PROVE  KnowsOnly(a, h)
<1> DEFINE m == IF Takes(g) THEN d.got ELSE g.models
           r == [g EXCEPT !.models = m, !.flights = <<>>]
<1>1. g.flights = <<d>> /\ k = 1
  BY DEF ManagerSound
<1>2. Without(g.flights, k) = <<>>
  <2>1. SubSeq(<<d>>, 1, 0) = <<>> /\ SubSeq(<<d>>, 2, 1) = <<>>
    OBVIOUS
  <2>2. Len(<<d>>) = 1
    OBVIOUS
  <2> QED BY <1>1, <2>1, <2>2 DEF Without
<1>3. [g EXCEPT !.models = IF Takes(g) THEN d.got ELSE @, !.flights = Without(@, k)] = r
  BY <1>2
<1>4. \A x \in Source : m[x] # 0 => x \in a
  BY DEF KnowsOnly, FlightOf
<1> HIDE DEF m
<1>5. Whole(r) /\ r.models = m /\ r.flights = <<>>
  BY DEF ManagerSound, Whole
<1>6. h = Rearm(r)
  BY <1>3 DEF Ended
<1> HIDE DEF r
<1>7. h.models = m /\ h.flights = <<>>
  BY <1>5, <1>6 DEF Rearm, Whole
<1> QED BY <1>4, <1>7 DEF KnowsOnly

\* Manager g with its discovery d, the k-th, answered by the sources that were reached.
Answered(d, reached) ==
    [d EXCEPT !.back = TRUE, !.got = [x \in Source |-> IF x \in reached THEN edition[x] ELSE 0]]
Holding(g, k, n, f) == [g EXCEPT !.flights[k] = n, !.failures = f]

LEMMA AnswerKnows ==
    ASSUME NEW g, NEW e, ManagerSound(e, g), NEW a, KnowsOnly(a, g),
           NEW k \in DOMAIN g.flights, NEW reached, reached \subseteq g.flights[k].asks,
           NEW n, n = Answered(g.flights[k], reached), NEW f, NEW h, h = Holding(g, k, n, f)
    PROVE  KnowsOnly(a, h)
<1> DEFINE d == g.flights[k]
           got == [x \in Source |-> IF x \in reached THEN edition[x] ELSE 0]
<1>1. g.flights = <<d>> /\ FlightSound(e, g.models, d) /\ k = 1 /\ FlightOf(a, d)
  BY DEF ManagerSound, KnowsOnly
<1>2. n = [d EXCEPT !.back = TRUE, !.got = got]
  BY DEF Answered
<1>3. \A x \in Source : got[x] # 0 => x \in reached
  OBVIOUS
<1> HIDE DEF got, d
<1>4. n.got = got /\ n.asks = d.asks
  BY <1>1, <1>2 DEF FlightSound
<1>5. FlightOf(a, n)
  BY <1>1, <1>3, <1>4 DEF FlightOf, d
<1>6. [g.flights EXCEPT ![k] = n] = <<n>>
  BY <1>1
<1>7. h.models = g.models /\ h.flights = [g.flights EXCEPT ![k] = n]
  BY DEF ManagerSound, Whole, Holding
<1> QED BY <1>5, <1>6, <1>7 DEF KnowsOnly

LEMMA KnowledgeStays ==
    ASSUME Knowledge, UNCHANGED <<managers, env>>
    PROVE  Knowledge'
BY DEF Knowledge, Aws

LEMMA KnowledgeSet ==
    ASSUME CatalogSound, Knowledge, env' = env, NEW i \in DOMAIN managers,
           NEW h, h.config = managers[i].config, Set(i, h),
           KnowsOnly(Asked(managers[i].config, Aws), h)
    PROVE  Knowledge'
<1>1. /\ DOMAIN managers' = DOMAIN managers /\ managers'[i] = h
      /\ \A j \in DOMAIN managers \ {i} : managers'[j] = managers[j]
  <2>1. IsSeq(managers) /\ managers' = [managers EXCEPT ![i] = h]
    BY DEF CatalogSound, Set
  <2>2. DOMAIN managers' = DOMAIN managers
    BY <2>1, ExceptShape
  <2>3. managers'[i] = h
    BY <2>1, ExceptShape
  <2> QED BY <2>1, <2>2, <2>3
<1>2. Aws' = Aws
  BY DEF Aws
<1> QED BY <1>1, <1>2 DEF Knowledge

LEMMA RunningStep ==
    ASSUME CatalogSound, Knowledge, env' = env, NEW i \in DOMAIN managers,
           ~managers[i].stopped, FirstBack(managers[i]), Set(i, Running(managers[i]))
    PROVE  Knowledge'
<1> DEFINE h == Running(managers[i])
           a == Asked(managers[i].config, Aws)
<1>1. ManagerSound(edition, managers[i]) /\ edition \in [Source -> Nat] /\ KnowsOnly(a, managers[i])
  BY DEF CatalogSound, Knowledge
<1>2. h.config = managers[i].config
  BY <1>1, RunningSound
<1>3. KnowsOnly(a, h)
  <2> HIDE DEF a
  <2> QED BY <1>1, RunningKnows
<1>4. Set(i, h)
  OBVIOUS
<1> HIDE DEF h
<1> QED BY <1>2, <1>3, <1>4, KnowledgeSet

LEMMA StoppedStep ==
    ASSUME CatalogSound, Knowledge, env' = env, NEW i \in DOMAIN managers,
           Set(i, Stopped(managers[i]))
    PROVE  Knowledge'
<1> DEFINE h == Stopped(managers[i])
           a == Asked(managers[i].config, Aws)
<1>1. ManagerSound(edition, managers[i]) /\ KnowsOnly(a, managers[i])
  BY DEF CatalogSound, Knowledge
<1>2. h.config = managers[i].config
  BY <1>1, StoppedSound
<1>3. KnowsOnly(a, h)
  <2> HIDE DEF a
  <2> QED BY <1>1, StoppedKnows
<1>4. Set(i, h)
  OBVIOUS
<1> HIDE DEF h
<1> QED BY <1>2, <1>3, <1>4, KnowledgeSet

LEMMA BootKnowledge == ASSUME Boot PROVE Knowledge'
<1>1. /\ env' = env /\ \E c : managers' = <<Started(c, Aws)>>
  BY DEF Boot, BootLoads
<1>2. PICK c : managers' = <<Started(c, Aws)>>
  BY <1>1
<1> DEFINE g == Started(c, Aws)
<1>3. g.config = c /\ KnowsOnly(Asked(c, Aws), g)
  BY StartedConfig, StartedKnows
<1> HIDE DEF g
<1>4. DOMAIN managers' = {1} /\ managers'[1] = g
  BY <1>2 DEF g
<1> QED BY <1>1, <1>3, <1>4 DEF Knowledge, Aws

LEMMA BuildKnowledge ==
    ASSUME CatalogSound, Knowledge, NEW p, Build(p)
    PROVE  Knowledge'
<1>1. env' = env
  BY DEF Build
<1>2. CASE managers' = managers
  BY <1>1, <1>2, KnowledgeStays
<1>3. CASE \E c : managers' = Append(managers, Started(c, Aws))
  <2>1. PICK c : managers' = Append(managers, Started(c, Aws))
    BY <1>3
  <2> DEFINE g == Started(c, Aws)
             n == Len(managers')
  <2>2. g.config = c /\ KnowsOnly(Asked(c, Aws), g)
    BY StartedConfig, StartedKnows
  <2>3. IsSeq(managers) /\ managers' = Append(managers, g)
    BY <2>1 DEF CatalogSound
  <2> HIDE DEF g
  <2>4. managers'[n] = g
    BY <2>3, AppendShape
  <2>5. DOMAIN managers' = DOMAIN managers \cup {n}
    BY <2>3, AppendShape
  <2>6. \A i \in DOMAIN managers : managers'[i] = managers[i]
    BY <2>3, AppendShape
  <2> HIDE DEF n
  <2> QED BY <1>1, <2>2, <2>4, <2>5, <2>6 DEF Knowledge, Aws
<1> QED BY <1>2, <1>3 DEF Build

LEMMA ReloadKnowledge ==
    ASSUME RuntimeInv, Knowledge, NEW p \in DOMAIN posts, Reload(p)
    PROVE  Knowledge'
<1>1. CatalogSound /\ PostSound(managers, runtime, posts[p])
  BY DEF RuntimeInv, PostsSound
<1>2. CASE Build(p)
  BY <1>1, <1>2, BuildKnowledge
<1>3. CASE Built(p)
  <2>1. /\ posts[p].built \in DOMAIN managers /\ ~managers[posts[p].built].stopped
        /\ env' = env
    BY <1>1, <1>3 DEF Built, PostSound, UnderWay
  <2> QED BY <1>1, <1>3, <2>1, RunningStep DEF Built
<1>4. CASE Verify(p)
  BY <1>4, KnowledgeStays DEF Verify
<1>5. CASE Save(p)
  <2>1. posts[p].built \in DOMAIN managers /\ env' = env
    BY <1>1, <1>5 DEF Save, PostSound, UnderWay
  <2>2. CASE managers' = managers
    BY <2>1, <2>2, KnowledgeStays
  <2>3. CASE Set(posts[p].built, Stopped(managers[posts[p].built]))
    BY <1>1, <2>1, <2>3, StoppedStep
  <2> QED BY <1>5, <2>2, <2>3 DEF Save, Discard
<1>6. CASE Swap(p)
  <2>1. runtime \in DOMAIN managers
    BY PostsUp DEF RuntimeInv
  <2>2. env' = env /\ Set(runtime, Stopped(managers[runtime]))
    BY <1>6 DEF Swap
  <2> QED BY <1>1, <2>1, <2>2, StoppedStep
<1> QED BY <1>2, <1>3, <1>4, <1>5, <1>6 DEF Reload

LEMMA ManagersKnowledge ==
    ASSUME CatalogSound, Knowledge, Managers
    PROVE  Knowledge'
<1>1. PICK i \in DOMAIN managers : ManagerNext(i, Aws)
  BY DEF Managers
<1>2. env' = env
  BY DEF Managers, procVars
<1> DEFINE g == managers[i]
           a == Asked(g.config, Aws)
<1>3. ManagerSound(edition, g) /\ edition \in [Source -> Nat] /\ KnowsOnly(a, g)
  BY DEF CatalogSound, Knowledge
<1>4. CASE TimerFires(i, Aws)
  <2> DEFINE h == [Begin(g, Aws) EXCEPT !.timer = "awaiting"]
  <2>1. Set(i, h)
    BY <1>4 DEF TimerFires
  <2>2. h.config = g.config
    BY <1>3, FiresSound
  <2>3. KnowsOnly(a, h)
    BY <1>3, FiresKnows
  <2> HIDE DEF h
  <2> QED BY <1>2, <2>1, <2>2, <2>3, KnowledgeSet
<1>5. ASSUME NEW k \in DOMAIN g.flights, SourcesAnswer(i, k) PROVE Knowledge'
  <2> DEFINE d == g.flights[k]
             reached == {x \in d.asks : Reachable(g.config, x)}
             f == IF d.kept /\ ~g.stopped THEN Recorded(g.failures, d.asks, reached) ELSE g.failures
             n == Answered(d, reached)
             h == Holding(g, k, n, f)
  <2>1. Set(i, h)
    BY <1>5 DEF SourcesAnswer, Answered, Holding
  <2>2. KnowsOnly(a, h) /\ h.config = g.config
    <3>1. reached \subseteq g.flights[k].asks /\ k \in DOMAIN g.flights
      BY <1>5
    <3>2. n = Answered(g.flights[k], reached) /\ h = Holding(g, k, n, f)
      OBVIOUS
    <3> HIDE DEF n, h, f, reached, a, g
    <3>3. ManagerSound(edition, g) /\ KnowsOnly(a, g)
      BY <1>3
    <3>4. KnowsOnly(a, h)
      BY <3>1, <3>2, <3>3, AnswerKnows
    <3>5. h.config = g.config
      BY <3>2, <3>3 DEF Holding, ManagerSound, Whole
    <3> QED BY <3>4, <3>5
  <2> HIDE DEF h
  <2> QED BY <1>2, <2>1, <2>2, KnowledgeSet
<1>6. ASSUME NEW k \in DOMAIN g.flights, RefreshEnds(i, k) PROVE Knowledge'
  <2> DEFINE d == g.flights[k]
             h == Ended(g, d, k)
  <2>1. Set(i, h)
    BY <1>6 DEF RefreshEnds, Ended
  <2>2. /\ d = g.flights[k] /\ k \in DOMAIN g.flights /\ h = Ended(g, d, k)
    BY <1>6
  <2> HIDE DEF h, d
  <2>3. h.config = g.config
    <3> HIDE DEF g
    <3> QED BY <1>3, <2>2, EndSound
  <2>4. KnowsOnly(a, h)
    <3> HIDE DEF g, a
    <3> QED BY <1>3, <2>2, EndKnows
  <2> QED BY <1>2, <2>1, <2>3, <2>4, KnowledgeSet
<1> QED BY <1>1, <1>4, <1>5, <1>6 DEF ManagerNext

LEMMA TickKnowledge ==
    ASSUME CatalogSound, Knowledge, Tick, env' = env
    PROVE  Knowledge'
<1> DEFINE f(i) == [x \in Source |-> Waited(managers[i].failures[x])]
<1> DEFINE h(i) == [managers[i] EXCEPT !.failures = f(i)]
<1>1. managers' = [i \in DOMAIN managers |-> h(i)]
  BY DEF Tick
<1>2. \A i \in DOMAIN managers : /\ h(i).models = managers[i].models
                                 /\ h(i).config = managers[i].config
                                 /\ h(i).flights = managers[i].flights
  <2> HIDE DEF f
  <2> QED BY DEF CatalogSound, ManagerSound, Whole
<1> HIDE DEF h
<1>3. Aws' = Aws
  BY DEF Aws
<1> QED BY <1>1, <1>2, <1>3 DEF Knowledge, KnowsOnly

LEMMA KnowledgeStep ==
    ASSUME RuntimeInv, Knowledge, [RuntimeNext]_runtimeVars
    PROVE  Knowledge'
<1>1. CatalogSound
  BY DEF RuntimeInv
<1>2. CASE Boot
  BY <1>2, BootKnowledge
<1>3. CASE BootDiscovered
  <2>1. Len(managers) = 1 /\ ~managers[1].stopped
    BY <1>3 DEF BootDiscovered, RuntimeInv, ProcSound
  <2>2. 1 \in DOMAIN managers
    BY <1>1, <2>1, SeqShape DEF CatalogSound
  <2> QED BY <1>1, <1>3, <2>1, <2>2, RunningStep DEF BootDiscovered
<1>4. CASE BootServes
  BY <1>4, KnowledgeStays DEF BootServes, catalogVars
<1>5. CASE Crash
  <2>1. managers' = <<>>
    BY <1>5 DEF Crash
  <2> QED BY <2>1 DEF Knowledge
<1>6. CASE Post
  BY <1>6, KnowledgeStays DEF Post
<1>7. ASSUME NEW p \in DOMAIN posts, Reload(p) PROVE Knowledge'
  BY <1>7, ReloadKnowledge
<1>8. CASE Managers
  BY <1>1, <1>8, ManagersKnowledge
<1>9. CASE Tick /\ UNCHANGED procVars
  BY <1>1, <1>9, TickKnowledge DEF procVars
<1>10. ASSUME NEW x \in Watched, Changes(x), UNCHANGED procVars PROVE Knowledge'
  BY <1>10, KnowledgeStays DEF Changes, procVars
<1>11. CASE UNCHANGED runtimeVars
  BY <1>11, KnowledgeStays DEF runtimeVars, catalogVars, procVars
<1> QED BY <1>2, <1>3, <1>4, <1>5, <1>6, <1>7, <1>8, <1>9, <1>10, <1>11 DEF RuntimeNext

------------------------------------------------------------------------------
(* What is listed.                                                           *)

LEMMA ModelFrom ==
    ASSUME NEW c, NEW e, NEW m \in ModelsOf(c, e)
    PROVE  \E x \in Source : /\ e[x] # 0
                             /\ IF x[1] = "bedrock"
                                THEN \/ m \in Foundation(x[2], Lists(x, e[x]))
                                     \/ m \in Mantle(x[2], Lists(x, e[x]))
                                ELSE m \in External(c, x, Lists(x, e[x]))
BY DEF ModelsOf

LEMMA InvocationsOf ==
    ASSUME NEW m, NEW preference, Invocations(m, preference) # <<>>
    PROVE  Head(Invocations(m, preference)) \in {m.native} \cup m.profiles
<1> DEFINE family == IF preference = "regional" THEN <<m.region, "global">>
                     ELSE <<"global", m.region>>
           s == Only(family, m.profiles)
           t == IF m.onDemand THEN <<m.native>> ELSE <<>>
           S == {m.native} \cup m.profiles
<1>1. Invocations(m, preference) = s \o t
  BY DEF Invocations
<1>2. IsSeq(family)
  <2>1. /\ <<m.region, "global">> \in Seq({m.region, "global"})
        /\ <<"global", m.region>> \in Seq({m.region, "global"})
    OBVIOUS
  <2> QED BY <2>1, SeqIsSeq
<1> HIDE DEF family
<1>3. IsSeq(s) /\ \A j \in DOMAIN s : s[j] \in m.profiles
  BY <1>2, OnlyOf
<1>4. s \in Seq(Range(s)) /\ Len(s) \in Nat /\ DOMAIN s = 1..Len(s)
  BY <1>3, SeqShape DEF IsSeq
<1> HIDE DEF s
<1>5. s \in Seq(S)
  <2>1. \A i \in 1..Len(s) : s[i] \in S
    BY <1>3, <1>4
  <2> QED BY <1>4, <2>1
<1>6. t \in Seq(S)
  <2>1. <<m.native>> \in Seq({m.native}) /\ <<>> \in Seq({m.native})
    OBVIOUS
  <2>2. \A q \in Seq({m.native}) : q \in Seq(S)
    <3>1. m.native \in S
      OBVIOUS
    <3> HIDE DEF S
    <3> QED BY <3>1
  <2>3. t \in {<<m.native>>, <<>>}
    OBVIOUS
  <2> HIDE DEF t, S
  <2> QED BY <2>1, <2>2, <2>3
<1> HIDE DEF t, S
<1>7. s \o t \in Seq(S) /\ s \o t # <<>>
  BY <1>1, <1>5, <1>6
<1>8. Head(s \o t) \in S
  BY <1>7
<1> QED BY <1>1, <1>8 DEF S

IdOf(m) == [provider |-> m.provider, backend |-> m.backend, prefix |-> m.region, native |-> m.native]

\* What a listed model is asked for with.
RoutesTo(c, m, target) ==
    /\ target.ok /\ target.invocation \in {m.native} \cup m.profiles
    /\ IF m.provider = "bedrock" THEN target.origin.host = c.regions[m.region]
       ELSE target.keys = UsablePool(SourcePool(c, <<m.provider, m.region>>))

LEMMA ExternalListed ==
    ASSUME NEW c, NEW aws, NEW catalog, NEW x, ExternalSource(c, x), x[1] # "bedrock",
           NEW m, m.provider = x[1], m.region = x[2], ~Unserved(c, m)
    PROVE  RoutesTo(c, m, Route(c, aws, catalog, IdOf(m)))
<1> DEFINE p == c.external[x[1]]
           id == IdOf(m)
           target == Route(c, aws, catalog, id)
           pool == SourcePool(c, x)
<1>1. /\ id.provider = x[1] /\ id.prefix = x[2] /\ id.native = m.native
  BY DEF IdOf
<1>2. x[1] \in DOMAIN c.external /\ UsablePool(pool) # <<>>
  BY DEF ExternalSource
<1>3. x[1] # "virtual"
  BY DEF Unserved
<1>4. SourcePool(c, <<m.provider, m.region>>) = pool
  BY DEF SourcePool
<1> HIDE DEF id
<1>5. target = RouteExternal(c, id)
  BY <1>1, <1>3 DEF Route, RoutePlain
<1>6. \E origin : target = ExternalTarget(p, id, origin, pool)
  <2>1. CASE p.regions = None
    <3>1. ~p.inactive /\ pool = p.pool
      BY <2>1 DEF ExternalSource, SourcePool
    <3>2. ProviderOrigin(p).host \notin Blocked
      BY <2>1 DEF Unserved
    <3> QED BY <1>1, <1>2, <1>5, <2>1, <3>1, <3>2 DEF RouteExternal
  <2>2. CASE p.regions # None
    <3> DEFINE r == p.regions[x[2]]
    <3>1. x[2] \in DOMAIN p.regions /\ ~r.inactive
      BY <2>2 DEF ExternalSource, ActiveRegion
    <3>2. ~p.inactive /\ ~(r.template /\ r.workspaceId \in Blocked)
      BY <2>2 DEF Unserved
    <3>3. pool = DrawsOn(p, r)
      BY <2>2 DEF SourcePool, DrawsOn
    <3>4. target = RouteRegion(p, id)
      BY <1>1, <1>2, <1>5, <2>2, <3>2 DEF RouteExternal
    <3> HIDE DEF target, pool
    <3> QED BY <1>1, <3>1, <3>2, <3>3, <3>4 DEF RouteRegion
  <2> QED BY <2>1, <2>2
<1> HIDE DEF target, pool
<1>7. target.ok /\ target.invocation = m.native /\ target.keys = UsablePool(pool)
  BY <1>1, <1>2, <1>6 DEF ExternalTarget
<1> QED BY <1>4, <1>7 DEF RoutesTo, target, id

LEMMA MantleListed ==
    ASSUME NEW c, NEW aws, NEW catalog, BedrockUsable(c, aws), NEW m, m.provider = "bedrock",
           m.backend = "mantle", m.region \in DOMAIN c.regions, m.region # "global"
    PROVE  RoutesTo(c, m, Route(c, aws, catalog, IdOf(m)))
<1> DEFINE id == IdOf(m)
           target == Route(c, aws, catalog, id)
<1>1. /\ id.provider = "bedrock" /\ id.backend = "mantle" /\ id.prefix = m.region
      /\ id.native = m.native
  BY DEF IdOf
<1> HIDE DEF id
<1>2. target = RouteMantle(c, id)
  BY <1>1 DEF Route, RoutePlain, RouteBedrock
<1>3. AwsRegion(c, id.prefix) = c.regions[m.region] /\ KnownPrefix(c, id.prefix)
  BY <1>1 DEF AwsRegion, KnownPrefix
<1> HIDE DEF target
<1>4. target.ok /\ target.invocation = m.native /\ target.origin.host = c.regions[m.region]
  BY <1>1, <1>2, <1>3 DEF RouteMantle, BedrockTarget, Template
<1> QED BY <1>4 DEF RoutesTo, target, id

\* Whichever of the listings of one Converse model is found, all have its profiles.
LEMMA ConverseListed ==
    ASSUME NEW c, NEW aws, NEW catalog, BedrockUsable(c, aws), NEW m \in catalog,
           m.provider = "bedrock", m.backend = "converse", m.region \in DOMAIN c.regions,
           m.region # "global", Invocations(m, c.preference) # <<>>,
           \A n \in catalog : n.backend = "converse" /\ n.native = m.native /\ n.region = m.region =>
              n.profiles = m.profiles
    PROVE  RoutesTo(c, m, Route(c, aws, catalog, IdOf(m)))
<1> DEFINE id == IdOf(m)
           target == Route(c, aws, catalog, id)
           found == Found(c, catalog, id)
           ways == {Invocations(n, c.preference) : n \in found} \ {<<>>}
           w == CHOOSE w \in ways : TRUE
<1>1. /\ id.provider = "bedrock" /\ id.backend = "converse" /\ id.prefix = m.region
      /\ id.native = m.native
  BY DEF IdOf
<1> HIDE DEF id
<1>2. target = RouteConverse(c, catalog, id)
  BY <1>1 DEF Route, RoutePlain, RouteBedrock
<1>3. AwsRegion(c, id.prefix) = c.regions[m.region] /\ KnownPrefix(c, id.prefix)
  BY <1>1 DEF AwsRegion, KnownPrefix
<1>4. found = {n \in catalog : n.region = m.region /\ n.backend = "converse" /\ n.native = m.native}
  BY <1>1 DEF Found, RegionKey
<1> HIDE DEF found
<1>5. w \in ways
  <2>1. m \in found
    BY <1>4
  <2> QED BY <2>1
<1>6. target = BedrockTarget(c, id, "converse", "converse", Head(w))
  BY <1>2, <1>3, <1>5 DEF RouteConverse, found
<1> HIDE DEF target, w
<1>7. Head(w) \in {m.native} \cup m.profiles
  <2>1. PICK n \in found : w = Invocations(n, c.preference) /\ w # <<>>
    BY <1>5
  <2>2. n.native = m.native /\ n.profiles = m.profiles
    BY <1>4, <2>1
  <2> QED BY <2>1, <2>2, InvocationsOf
<1> HIDE DEF ways
<1>8. /\ target.ok /\ target.invocation = Head(w)
      /\ target.origin.host = c.regions[m.region]
  BY <1>3, <1>6 DEF BedrockTarget, Template
<1> QED BY <1>7, <1>8 DEF RoutesTo, target, id

LEMMA FoundationModel ==
    ASSUME NEW region, NEW l, NEW m \in Foundation(region, l)
    PROVE  /\ m.provider = "bedrock" /\ m.backend = "converse" /\ m.region = region
           /\ m.profiles = {q.family : q \in {q \in l.profiles : q.active /\ q.of = m.native}}
BY DEF Foundation, Model

LEMMA MantleModel ==
    ASSUME NEW region, NEW l, NEW m \in Mantle(region, l)
    PROVE  m.provider = "bedrock" /\ m.backend = "mantle" /\ m.region = region
BY DEF Mantle, Model

LEMMA ExternalModel ==
    ASSUME NEW c, NEW x, NEW l, NEW m \in External(c, x, l)
    PROVE  m.provider = x[1] /\ m.backend = c.external[x[1]].type /\ m.region = x[2]
BY DEF External, Model

LEMMA ListedRoute ==
    ASSUME NEW c, ConfigSound(c), NEW aws, NEW e,
           \A x \in Source : e[x] # 0 => x \in Asked(c, aws),
           NEW m \in ModelsOf(c, e), ~Unserved(c, m)
    PROVE  RoutesTo(c, m, Route(c, aws, ModelsOf(c, e), IdOf(m)))
<1> DEFINE catalog == ModelsOf(c, e)
           l(x) == Lists(x, e[x])
           Listed(x, n) == /\ e[x] # 0
                           /\ IF x[1] = "bedrock"
                              THEN n \in Foundation(x[2], l(x)) \/ n \in Mantle(x[2], l(x))
                              ELSE n \in External(c, x, l(x))
<1>1. \A n \in catalog : \E x \in Source : Listed(x, n)
  BY ModelFrom
<1>2. ASSUME NEW x \in Source, e[x] # 0
      PROVE  IF x[1] = "bedrock" THEN x[2] \in DOMAIN c.regions /\ BedrockUsable(c, aws)
             ELSE ExternalSource(c, x) /\ c.external[x[1]].type \in {"anthropic", "openai"}
  <2>1. x \in Asked(c, aws)
    BY <1>2
  <2>2. \A n \in DOMAIN c.external : n # "bedrock" /\ c.external[n].type \in {"anthropic", "openai"}
    BY DEF ConfigSound, ProviderSound
  <2> QED BY <2>1, <2>2 DEF Asked, ExternalSource
<1>3. "global" \notin DOMAIN c.regions
  BY DEF ConfigSound
<1> HIDE DEF catalog, l
<1>4. PICK x \in Source : Listed(x, m)
  BY <1>1 DEF catalog
<1>5. CASE x[1] # "bedrock"
  <2>1. m.provider = x[1] /\ m.region = x[2]
    BY <1>4, <1>5, ExternalModel
  <2> QED BY <1>2, <1>4, <1>5, <2>1, ExternalListed DEF catalog
<1>6. CASE x[1] = "bedrock" /\ m \in Mantle(x[2], l(x))
  <2>1. m.provider = "bedrock" /\ m.backend = "mantle" /\ m.region = x[2]
    BY <1>6, MantleModel
  <2>2. m.region \in DOMAIN c.regions /\ m.region # "global" /\ BedrockUsable(c, aws)
    BY <1>2, <1>3, <1>4, <1>6, <2>1
  <2> QED BY <2>1, <2>2, MantleListed DEF catalog
<1>7. CASE x[1] = "bedrock" /\ m \in Foundation(x[2], l(x))
  <2>1. /\ m.provider = "bedrock" /\ m.backend = "converse" /\ m.region = x[2]
        /\ m.profiles = {q.family : q \in {q \in l(x).profiles : q.active /\ q.of = m.native}}
    BY <1>7, FoundationModel
  <2>2. m.region \in DOMAIN c.regions /\ m.region # "global" /\ BedrockUsable(c, aws)
    BY <1>2, <1>3, <1>4, <1>7, <2>1
  <2>3. ASSUME NEW n \in catalog, n.backend = "converse", n.native = m.native, n.region = m.region
        PROVE  n.profiles = m.profiles
    <3>1. PICK y \in Source : Listed(y, n)
      BY <1>1, <2>3
    <3>2. y[1] = "bedrock" /\ n \in Foundation(y[2], l(y))
      <4>1. CASE y[1] # "bedrock"
        BY <1>2, <2>3, <3>1, <4>1, ExternalModel
      <4>2. CASE n \in Mantle(y[2], l(y))
        BY <2>3, <4>2, MantleModel
      <4> QED BY <3>1, <4>1, <4>2
    <3>3. /\ n.region = y[2]
          /\ n.profiles = {q.family : q \in {q \in l(y).profiles : q.active /\ q.of = n.native}}
      BY <3>2, FoundationModel
    <3>4. x = y
      <4>1. x = <<x[1], x[2]>> /\ y = <<y[1], y[2]>>
        BY SourceAssumption
      <4>2. x[1] = y[1] /\ x[2] = y[2]
        BY <1>7, <2>1, <2>3, <3>2, <3>3
      <4> QED BY <4>1, <4>2
    <3> QED BY <2>1, <2>3, <3>3, <3>4
  <2>4. Invocations(m, c.preference) # <<>>
    BY <2>1 DEF Unserved
  <2>5. m \in catalog
    BY DEF catalog
  <2> HIDE DEF Listed
  <2> QED BY <2>1, <2>2, <2>3, <2>4, <2>5, ConverseListed DEF catalog
<1> QED BY <1>4, <1>5, <1>6, <1>7

\* What the managers know is what the sources of their configurations listed
\* (discoverCatalog(), CatalogManager).
THEOREM RuntimeKnowledge == RuntimeSpec => []Knowledge
<1>1. RuntimeInit => Knowledge
  BY EmptyShape DEF RuntimeInit, CatalogInit, Knowledge
<1>2. RuntimeInv /\ Knowledge /\ [RuntimeNext]_runtimeVars => Knowledge'
  BY KnowledgeStep
<1> QED BY <1>1, <1>2, RuntimeInvariant, PTL DEF RuntimeSpec

\* Every model that GET /v1/models lists is routed to the host that listed it and
\* with the keys it was discovered with, under every configuration a post can bring,
\* but for those that Unserved() names (discoverCatalog(), route()).
THEOREM RuntimeListedModelsRoute ==
    ASSUME NoneIsPlain, EditsTyped
    PROVE  RuntimeSpec => []ListedModelsRoute
<1>1. RuntimeInv /\ ConfigInv /\ Knowledge => ListedModelsRoute
  <2> SUFFICES ASSUME RuntimeInv, ConfigInv, Knowledge, proc = "up" PROVE ListedModelsRoute
    BY DEF ListedModelsRoute
  <2>1. runtime \in DOMAIN managers
    BY DEF RuntimeInv, ProcSound
  <2>2. ConfigSound(Config)
    BY <2>1 DEF ConfigInv, ConfigsSound, Config, Serving
  <2>3. \A x \in Source : Serving.models[x] # 0 => x \in Asked(Config, Aws)
    BY <2>1 DEF Knowledge, KnowsOnly, Config, Serving
  <2> DEFINE catalog == ModelsOf(Config, Serving.models)
  <2>4. \A m \in catalog : ~Unserved(Config, m) => RoutesTo(Config, m, Route(Config, Aws, catalog, IdOf(m)))
    BY <2>2, <2>3, ListedRoute
  <2> HIDE DEF catalog
  <2> QED BY <2>4 DEF ListedModelsRoute, RoutesTo, IdOf, catalog
<1> QED BY <1>1, RuntimeConfigInvariant, RuntimeKnowledge, PTL

\* Both together: requests are routed to what is listed, directly and by tier.
THEOREM RuntimeRoutesSound ==
    ASSUME NoneIsPlain, EditsTyped
    PROVE  RuntimeSpec => []RoutesSound
BY RuntimeListedModelsRoute, RuntimeTierSound, PTL DEF RoutesSound
==============================================================================
