------------------------------- MODULE CaptureProofs -------------------------------
(***************************************************************************)
(* Proofs about Capture, for any finite set of turns, any limits and any      *)
(* bodies: the budget knows exactly what the running captures hold, and a     *)
(* record says of its text what is true of it.                                *)
(*                                                                         *)
(* The sum of the reservations is a fold, so the first part unfolds it once:  *)
(* a fold over a finite set is defined, and an update of one value adds its   *)
(* difference.  Induction is by the least counterexample.                     *)
(***************************************************************************)
EXTENDS Capture, FiniteSetTheorems, WellFoundedInduction, TLAPS

------------------------------------------------------------------------------
(* Sums.                                                                     *)

LEMMA LeastMember ==
    ASSUME NEW S \in SUBSET Nat, S # {}
    PROVE  \E n \in S : \A m \in S : n <= m
<1>1. PICK n \in S : \A m \in S : ~(<<m, n>> \in OpToRel(<, Nat))
  BY WFMin, NatLessThanWellFounded
<1>2. \A m \in S : ~(m < n)
  BY <1>1 DEF OpToRel
<1> QED BY <1>2

\* The order in which a set is summed up, and the partial sums of f.
Any(s) == CHOOSE x \in s : TRUE
Sums(f, D, g) ==
    g = [s \in SUBSET D |-> IF s = {} THEN 0 ELSE f[Any(s)] + g[s \ {Any(s)}]]
Parts(D, n) == {s \in SUBSET D : Cardinality(s) < n}
SumsTo(f, D, n, g) ==
    \A s \in Parts(D, n) : g[s] = IF s = {} THEN 0 ELSE f[Any(s)] + g[s \ {Any(s)}]

LEMMA PartsRest ==
    ASSUME NEW D, IsFiniteSet(D), NEW s \in SUBSET D, s # {}
    PROVE  /\ Any(s) \in s /\ s \ {Any(s)} \in SUBSET D
           /\ Cardinality(s) \in Nat /\ Cardinality(s) > 0
           /\ Cardinality(s \ {Any(s)}) = Cardinality(s) - 1
<1>1. Any(s) \in s
  BY DEF Any
<1>2. IsFiniteSet(s)
  BY FS_Subset
<1>3. Cardinality(s \ {Any(s)}) = Cardinality(s) - 1
  BY <1>1, <1>2, FS_RemoveElement
<1>4. Cardinality(s) \in Nat /\ Cardinality(s) # 0
  BY <1>2, FS_CardinalityType, FS_EmptySet
<1> QED BY <1>1, <1>3, <1>4

LEMMA SumsToExists ==
    ASSUME NEW D, IsFiniteSet(D), NEW f
    PROVE  \A n \in Nat : \E g : SumsTo(f, D, n, g)
<1> DEFINE Bad == {n \in Nat : ~\E g : SumsTo(f, D, n, g)}
<1> SUFFICES ASSUME Bad # {} PROVE FALSE
  OBVIOUS
<1>1. PICK n \in Bad : \A m \in Bad : n <= m
  <2>1. Bad \in SUBSET Nat
    OBVIOUS
  <2> HIDE DEF Bad
  <2> QED BY <2>1, LeastMember
<1>2. n \in Nat /\ ~\E g : SumsTo(f, D, n, g)
  OBVIOUS
<1>3. \A s \in SUBSET D : Cardinality(s) \in Nat
  BY FS_Subset, FS_CardinalityType
<1>4. n # 0
  <2>1. Parts(D, 0) = {}
    BY <1>3 DEF Parts
  <2>2. SumsTo(f, D, 0, {})
    BY <2>1 DEF SumsTo
  <2> QED BY <1>2, <2>2
<1>5. n - 1 \in Nat /\ n - 1 \notin Bad
  <2>1. n - 1 \in Nat /\ n - 1 < n
    BY <1>2, <1>4
  <2> HIDE DEF Bad
  <2> QED BY <1>1, <1>2, <2>1
<1>6. PICK g : SumsTo(f, D, n - 1, g)
  BY <1>5
<1> DEFINE h == [s \in SUBSET D |->
                    IF s = {} THEN 0 ELSE f[Any(s)] + g[s \ {Any(s)}]]
<1>7. ASSUME NEW s \in Parts(D, n)
      PROVE  h[s] = IF s = {} THEN 0 ELSE f[Any(s)] + h[s \ {Any(s)}]
  <2>1. CASE s = {}
    BY <1>7, <2>1 DEF Parts
  <2>2. CASE s # {}
    <3> DEFINE r == s \ {Any(s)}
    <3>1. s \in SUBSET D /\ r \in SUBSET D /\ Cardinality(r) < n - 1
      BY <1>2, <1>7, <2>2, PartsRest DEF Parts
    <3>2. r \in Parts(D, n - 1)
      BY <3>1 DEF Parts
    <3>3. h[r] = g[r]
      BY <1>6, <3>1, <3>2 DEF SumsTo
    <3> QED BY <2>2, <3>1, <3>3
  <2> QED BY <2>1, <2>2
<1>8. SumsTo(f, D, n, h)
  BY <1>7 DEF SumsTo
<1> QED BY <1>2, <1>8

\* A sum over a finite set unfolds.
Unfolds(f, D, g) ==
    /\ g[{}] = 0
    /\ \A s \in SUBSET D : s # {} => g[s] = f[Any(s)] + g[s \ {Any(s)}]

LEMMA SumUnfolds ==
    ASSUME NEW D, IsFiniteSet(D), NEW f, DOMAIN f = D
    PROVE  \E g : SumFunction(f) = g[D] /\ Unfolds(f, D, g)
<1> DEFINE G == CHOOSE g : Sums(f, D, g)
<1>1. SumFunction(f) = G[D]
  BY DEF SumFunction, SumFunctionOnSet, FoldFunctionOnSet, MapThenFoldSet, Sums, Any
<1>2. IsFiniteSet(D)
  OBVIOUS
<1> DEFINE n == Cardinality(D) + 1
<1>3. n \in Nat /\ SUBSET D = Parts(D, n)
  BY <1>2, FS_Subset, FS_CardinalityType DEF Parts
<1>4. PICK g : SumsTo(f, D, n, g)
  BY <1>2, <1>3, SumsToExists
<1> DEFINE h == [s \in SUBSET D |-> g[s]]
<1>5. Sums(f, D, h)
  <2>1. ASSUME NEW s \in SUBSET D
        PROVE  h[s] = IF s = {} THEN 0 ELSE f[Any(s)] + h[s \ {Any(s)}]
    BY <1>3, <1>4 DEF SumsTo
  <2>2. h = [s \in SUBSET D |-> h[s]]
    OBVIOUS
  <2> HIDE DEF h
  <2> QED BY <2>1, <2>2 DEF Sums
<1>6. Sums(f, D, G)
  BY <1>5
<1> HIDE DEF G
<1>7. \A s \in SUBSET D : G[s] = IF s = {} THEN 0 ELSE f[Any(s)] + G[s \ {Any(s)}]
  BY <1>6 DEF Sums
<1>8. Unfolds(f, D, G)
  BY <1>7 DEF Unfolds
<1> QED BY <1>1, <1>8

LEMMA SmallestSubset ==
    ASSUME NEW D, IsFiniteSet(D), NEW B \in SUBSET SUBSET D, B # {}
    PROVE  \E s \in B : s = {} \/ s \ {Any(s)} \notin B
<1> DEFINE C == {Cardinality(s) : s \in B}
<1>1. \A s \in SUBSET D : Cardinality(s) \in Nat
  BY FS_Subset, FS_CardinalityType
<1>2. C \in SUBSET Nat /\ C # {}
  BY <1>1
<1>3. PICK n \in C : \A m \in C : n <= m
  <2> HIDE DEF C
  <2> QED BY <1>2, LeastMember
<1>4. PICK s \in B : n = Cardinality(s)
  OBVIOUS
<1>5. ASSUME s # {} PROVE s \ {Any(s)} \notin B
  <2>1. /\ Cardinality(s) \in Nat
        /\ Cardinality(s \ {Any(s)}) = Cardinality(s) - 1
    BY <1>5, PartsRest
  <2>2. s \ {Any(s)} \in B => Cardinality(s \ {Any(s)}) \in C
    OBVIOUS
  <2> HIDE DEF C
  <2> QED BY <1>3, <1>4, <2>1, <2>2
<1> QED BY <1>5

\* A sum of naturals is one, and no smaller than each of them.
LEMMA SumNat ==
    ASSUME NEW D, IsFiniteSet(D), NEW f \in [D -> Nat]
    PROVE  SumFunction(f) \in Nat /\ \A d \in D : f[d] <= SumFunction(f)
<1>1. DOMAIN f = D
  OBVIOUS
<1>2. PICK g : SumFunction(f) = g[D] /\ Unfolds(f, D, g)
  BY <1>1, SumUnfolds
<1> DEFINE Good(s) == g[s] \in Nat /\ \A d \in s : f[d] <= g[s]
<1> DEFINE B == {s \in SUBSET D : ~Good(s)}
<1>3. B = {}
  <2> SUFFICES ASSUME B # {} PROVE FALSE
    OBVIOUS
  <2>1. B \in SUBSET SUBSET D
    OBVIOUS
  <2>2. PICK s \in B : s = {} \/ s \ {Any(s)} \notin B
    <3> HIDE DEF B
    <3> QED BY <2>1, SmallestSubset
  <2>3. CASE s = {}
    BY <1>2, <2>2, <2>3 DEF Unfolds
  <2>4. CASE s # {}
    <3> DEFINE x == Any(s)
    <3> DEFINE r == s \ {x}
    <3>1. s \in SUBSET D /\ ~Good(s)
      BY <2>2
    <3>2. x \in s /\ r \in SUBSET D
      BY <2>4, <3>1, PartsRest
    <3>3. Good(r)
      BY <2>2, <2>4, <3>2
    <3>4. g[s] = f[x] + g[r]
      BY <1>2, <2>4, <3>1 DEF Unfolds
    <3> HIDE DEF x
    <3>5. f[x] \in Nat /\ g[r] \in Nat
      BY <3>1, <3>2, <3>3
    <3>6. \A d \in s : d = x \/ d \in r
      OBVIOUS
    <3>7. \A d \in s : f[d] \in Nat
      BY <3>1
    <3> HIDE DEF r
    <3>8. Good(s)
      BY <3>3, <3>4, <3>5, <3>6, <3>7
    <3> QED BY <3>1, <3>8
  <2> QED BY <2>3, <2>4
<1>4. Good(D)
  BY <1>3
<1> QED BY <1>2, <1>4

\* A sum follows an update of one value.
LEMMA SumUpdate ==
    ASSUME NEW D, IsFiniteSet(D), NEW f \in [D -> Nat], NEW h \in [D -> Nat],
           NEW d \in D, \A x \in D \ {d} : h[x] = f[x]
    PROVE  SumFunction(h) = SumFunction(f) + h[d] - f[d]
<1>1. DOMAIN f = D /\ DOMAIN h = D
  OBVIOUS
<1>2. PICK F : SumFunction(f) = F[D] /\ Unfolds(f, D, F)
  BY <1>1, SumUnfolds
<1>3. PICK H : SumFunction(h) = H[D] /\ Unfolds(h, D, H)
  BY <1>1, SumUnfolds
<1> DEFINE Good(s) ==
      F[s] \in Nat /\ H[s] = F[s] + (IF d \in s THEN h[d] - f[d] ELSE 0)
<1> DEFINE B == {s \in SUBSET D : ~Good(s)}
<1>4. B = {}
  <2> SUFFICES ASSUME B # {} PROVE FALSE
    OBVIOUS
  <2>1. B \in SUBSET SUBSET D
    OBVIOUS
  <2>2. PICK s \in B : s = {} \/ s \ {Any(s)} \notin B
    <3> HIDE DEF B
    <3> QED BY <2>1, SmallestSubset
  <2>3. CASE s = {}
    BY <1>2, <1>3, <2>2, <2>3 DEF Unfolds
  <2>4. CASE s # {}
    <3> DEFINE x == Any(s)
    <3> DEFINE r == s \ {x}
    <3>1. s \in SUBSET D /\ ~Good(s)
      BY <2>2
    <3>2. x \in s /\ r \in SUBSET D
      BY <2>4, <3>1, PartsRest
    <3>3. Good(r)
      BY <2>2, <2>4, <3>2
    <3>4. F[s] = f[x] + F[r] /\ H[s] = h[x] + H[r]
      BY <1>2, <1>3, <2>4, <3>1 DEF Unfolds
    <3> HIDE DEF x
    <3>5. f[x] \in Nat /\ h[x] \in Nat /\ f[d] \in Nat /\ h[d] \in Nat
      BY <3>1, <3>2
    <3>6. IF x = d THEN d \in s /\ d \notin r ELSE h[x] = f[x] /\ (d \in s <=> d \in r)
      BY <3>1, <3>2
    <3> HIDE DEF r
    <3>7. Good(s)
      BY <3>3, <3>4, <3>5, <3>6
    <3> QED BY <3>1, <3>7
  <2> QED BY <2>3, <2>4
<1>5. Good(D)
  BY <1>4
<1> QED BY <1>2, <1>3, <1>5

LEMMA SumZero ==
    ASSUME NEW D, IsFiniteSet(D), NEW f \in [D -> {0}]
    PROVE  SumFunction(f) = 0
<1>1. DOMAIN f = D
  OBVIOUS
<1>2. PICK g : SumFunction(f) = g[D] /\ Unfolds(f, D, g)
  BY <1>1, SumUnfolds
<1> DEFINE B == {s \in SUBSET D : g[s] # 0}
<1>3. B = {}
  <2> SUFFICES ASSUME B # {} PROVE FALSE
    OBVIOUS
  <2>1. B \in SUBSET SUBSET D
    OBVIOUS
  <2>2. PICK s \in B : s = {} \/ s \ {Any(s)} \notin B
    <3> HIDE DEF B
    <3> QED BY <2>1, SmallestSubset
  <2>3. CASE s = {}
    BY <1>2, <2>2, <2>3 DEF Unfolds
  <2>4. CASE s # {}
    <3>1. s \in SUBSET D /\ g[s] # 0
      BY <2>2
    <3>2. Any(s) \in s /\ s \ {Any(s)} \in SUBSET D
      BY <2>4, <3>1, PartsRest
    <3>3. g[s \ {Any(s)}] = 0 /\ f[Any(s)] = 0
      BY <2>2, <2>4, <3>1, <3>2
    <3> QED BY <1>2, <2>4, <3>1, <3>3 DEF Unfolds
  <2> QED BY <2>3, <2>4
<1> QED BY <1>2, <1>3

------------------------------------------------------------------------------
(* The inductive invariant.                                                  *)

MeterStates == {"full", "truncated", "shed"}
Event == Text \cup {UsageEvent, Endless}
Branch == [queue : Seq(Event), cancelled : BOOLEAN, dropped : Seq(Event)]

CaptureTypes ==
    /\ limits \in Limits /\ bytes \in Nat
    /\ meter \in [Turn -> [state : MeterStates, reserved : Nat]]
    /\ task \in [Turn -> {"none", "hashing", "reading", "recording", "over"}]
    /\ log \in [Turn -> Branch]
    /\ acc \in [Turn -> [kept : Nat, usage : BOOLEAN, overflowed : BOOLEAN]]
    /\ upstream \in [Turn -> {"none", "flowing", "ended", "failed", "cancelled"}]
    /\ client \in [Turn -> {"none", "reading", "ended", "gone"}]
    /\ early \in [Turn -> BOOLEAN]
    /\ sent \in [Turn -> [chunks : Nat, text : Nat, usage : BOOLEAN, endless : BOOLEAN]]
    /\ record = [t \in Turn |-> record[t]]

\* The budget: what is in flight is what the meters hold, and only a running
\* capture holds anything.
Reserved == [t \in Turn |-> meter[t].reserved]
BudgetSound ==
    /\ bytes = SumFunction(Reserved)
    /\ \A t \in Turn : task[t] \in {"none", "over"} => meter[t].reserved = 0

\* The text that was sent is the text that was kept and the text in the queue: p
\* runs through the partial sums.
TextOf(c) == IF c \in Text THEN c.size ELSE 0
Balanced(kept, q, total) ==
    \E p \in [0..Len(q) -> Nat] :
        /\ p[0] = kept /\ p[Len(q)] = total
        /\ \A i \in 1..Len(q) : p[i] = p[i - 1] + TextOf(q[i])

\* A turn that was not begun, or not by a stream.
Untouched(t) ==
    /\ client[t] = "none" /\ ~early[t]
    /\ log[t] = [queue |-> <<>>, cancelled |-> FALSE, dropped |-> <<>>]
    /\ acc[t] = [kept |-> 0, usage |-> FALSE, overflowed |-> FALSE]
    /\ sent[t].text = 0 /\ ~sent[t].usage /\ ~sent[t].endless

\* Why the log's branch may be cut off: a cut or a client that left, or the end of the
\* stream, which the client came to first.
CutShort(t) == early[t] \/ client[t] = "gone"
EndFollowedOf(t) == client[t] = "ended" /\ upstream[t] = "ended"

\* The two branches: the log's branch is cut off for a reason, and a failed or
\* cancelled upstream has a client that is through.
BranchesSound(t) ==
    /\ task[t] = "none" => upstream[t] = "none"
    /\ upstream[t] = "none" => Untouched(t) /\ task[t] \notin {"hashing", "reading"}
    /\ IF log[t].cancelled THEN log[t].queue = <<>> ELSE log[t].dropped = <<>>
    /\ log[t].cancelled => CutShort(t) \/ EndFollowedOf(t) \/ task[t] = "over"
    /\ upstream[t] = "failed" => client[t] \in {"ended", "gone"}
    /\ upstream[t] = "cancelled" => client[t] = "gone" /\ log[t].cancelled
    /\ upstream[t] # "none" => client[t] # "none"

\* What was sent and not read: still to read, or dropped when the branch was cut off.
Ahead(t) == log[t].dropped \o log[t].queue

\* The accumulator while its task runs on a branch that did not fail.
Whole(t) == task[t] \in {"hashing", "reading"} /\ upstream[t] # "failed"
AccSound(t) ==
    /\ Whole(t) /\ meter[t].state = "full" =>
          ~acc[t].overflowed /\ Balanced(acc[t].kept, Ahead(t), sent[t].text)
    /\ Whole(t) /\ ~sent[t].endless =>
          (sent[t].usage <=> acc[t].usage \/ UsageEvent \in Range(Ahead(t)))
    /\ acc[t].overflowed => sent[t].endless
    /\ Endless \in Range(log[t].queue) => sent[t].endless

\* A record was made once, of a stream that had ended unless it was cut.
FullSound(t) ==
    /\ record[t].text + TextSize(log[t].dropped) = record[t].of
    /\ log[t].dropped # <<>> => EndFollowedOf(t)
RecordSound(t) ==
    /\ task[t] \in {"none", "hashing", "reading"} => record[t] = NoRecord
    /\ record[t] # NoRecord =>
          /\ record[t].state = "shed" => record[t].text = 0
          /\ record[t].state = "full" => FullSound(t)
          /\ log[t].queue = <<>>
          /\ upstream[t] \in {"none", "ended"} \/ log[t].cancelled
          /\ upstream[t] \notin {"none", "failed"} /\ ~sent[t].endless =>
                (sent[t].usage <=> record[t].usage \/ UsageEvent \in Range(log[t].dropped))

TurnSound(t) == BranchesSound(t) /\ AccSound(t) /\ RecordSound(t)
CaptureInv == CaptureTypes /\ BudgetSound /\ \A t \in Turn : TurnSound(t)

------------------------------------------------------------------------------
(* The meter.                                                                *)

LEMMA TurnFinite == IsFiniteSet(Turn)
BY CaptureAssumption, FS_Union DEF Turn

\* A meter changes what it holds and the bytes in flight by the same amount.
View == [bytes : Nat, state : MeterStates, reserved : Nat]
Exchanges(b, c) ==
    /\ b \in View => c \in View
    /\ b \in View => c.bytes - c.reserved = b.bytes - b.reserved

LEMMA ReleaseExchanges ==
    ASSUME NEW b \in View, b.reserved <= b.bytes
    PROVE  Exchanges(b, Release(b)) /\ Release(b).reserved = 0 /\ Release(b).state = b.state
<1> DEFINE c == Release(b)
<1> DEFINE n == IF b.bytes > b.reserved THEN b.bytes - b.reserved ELSE 0
<1>1. c = [b EXCEPT !.bytes = n, !.reserved = 0]
  BY DEF Release
<1>2. b.bytes \in Nat /\ b.reserved \in Nat /\ b.state \in MeterStates
  BY DEF View
<1>3. n = b.bytes - b.reserved /\ n \in Nat
  BY <1>2
<1> HIDE DEF c, n
<1>4. c \in View /\ c.bytes = n /\ c.reserved = 0 /\ c.state = b.state
  BY <1>1, <1>3 DEF View
<1> QED BY <1>2, <1>3, <1>4 DEF Exchanges, c

LEMMA OfferExchanges ==
    ASSUME NEW b \in View, b.reserved <= b.bytes, NEW n \in Nat, NEW l \in Limits
    PROVE  LET c == Offer(b, n, l)
           IN /\ Exchanges(b, c)
              /\ c.state = "full" <=> Accepts(b, n, l)
              /\ Accepts(b, n, l) => b.state = "full"
              /\ b.state # "full" => c.state = b.state
<1> DEFINE c == Offer(b, n, l)
<1>1. b.bytes \in Nat /\ b.reserved \in Nat /\ b.state \in MeterStates
      /\ l.maxTurn \in Nat /\ l.budget \in Nat
  BY CaptureAssumption DEF View
<1>2. CASE b.state # "full"
  <2>1. c = b
    BY <1>2 DEF Offer
  <2> QED BY <1>2, <2>1 DEF Exchanges, Accepts
<1>3. CASE b.state = "full" /\ b.reserved + n > l.maxTurn
  <2>1. c = [b EXCEPT !.state = "truncated"]
    BY <1>3 DEF Offer, Truncate
  <2>2. c \in View /\ c.bytes = b.bytes /\ c.reserved = b.reserved /\ c.state = "truncated"
    BY <2>1 DEF View, MeterStates
  <2>3. ~Accepts(b, n, l)
    BY <1>1, <1>3 DEF Accepts
  <2> QED BY <1>3, <2>2, <2>3 DEF Exchanges
<1>4. CASE b.state = "full" /\ ~(b.reserved + n > l.maxTurn) /\ ~Fits(b, n, l)
  <2> DEFINE d == [b EXCEPT !.state = "shed"]
  <2>1. d \in View /\ d.bytes = b.bytes /\ d.reserved = b.reserved /\ d.state = "shed"
    BY DEF View, MeterStates
  <2>2. c = Release(d)
    BY <1>4 DEF Offer, MarkShed
  <2> HIDE DEF d, c
  <2>3. Exchanges(d, c) /\ c.state = "shed"
    BY <2>1, <2>2, ReleaseExchanges
  <2>4. Exchanges(b, c)
    BY <2>1, <2>3 DEF Exchanges
  <2> QED BY <1>4, <2>3, <2>4 DEF Accepts, c
<1>5. CASE b.state = "full" /\ ~(b.reserved + n > l.maxTurn) /\ Fits(b, n, l)
  <2> DEFINE x == b.bytes + n
  <2> DEFINE y == b.reserved + n
  <2>1. c = [b EXCEPT !.bytes = x, !.reserved = y]
    BY <1>5 DEF Offer
  <2>2. x \in Nat /\ y \in Nat
    BY <1>1
  <2> HIDE DEF c, x, y
  <2>3. c \in View /\ c.bytes = x /\ c.reserved = y /\ c.state = "full"
    BY <1>5, <2>1, <2>2 DEF View
  <2>4. Accepts(b, n, l)
    BY <1>1, <1>5 DEF Accepts
  <2>5. Exchanges(b, c)
    BY <1>1, <2>3 DEF Exchanges, x, y
  <2> QED BY <1>5, <2>3, <2>4, <2>5 DEF c
<1> QED BY <1>2, <1>3, <1>4, <1>5

LEMMA TruncateExchanges ==
    ASSUME NEW b \in View
    PROVE  Exchanges(b, Truncate(b)) /\ Truncate(b).state # "full"
           /\ (b.state # "full" => Truncate(b).state = b.state)
           /\ (b.state = "full" => Truncate(b).state = "truncated")
<1> DEFINE c == Truncate(b)
<1>1. CASE b.state = "full"
  <2>1. c = [b EXCEPT !.state = "truncated"]
    BY <1>1 DEF Truncate
  <2>2. c \in View /\ c.bytes = b.bytes /\ c.reserved = b.reserved /\ c.state = "truncated"
    BY <2>1 DEF View, MeterStates
  <2> QED BY <1>1, <2>2 DEF Exchanges
<1>2. CASE b.state # "full"
  BY <1>2 DEF Truncate, Exchanges
<1> QED BY <1>1, <1>2

\* The bytes in flight follow one meter.
LEMMA MeterMoves ==
    ASSUME CaptureTypes, BudgetSound, NEW t \in Turn, NEW c \in View,
           c.bytes - c.reserved = bytes - meter[t].reserved, SetMeter(t, c)
    PROVE  /\ bytes' \in Nat
           /\ meter' \in [Turn -> [state : MeterStates, reserved : Nat]]
           /\ bytes' = SumFunction(Reserved')
           /\ meter'[t].state = c.state /\ meter'[t].reserved = c.reserved
           /\ \A u \in Turn \ {t} : meter'[u] = meter[u]
<1> DEFINE r == [state |-> c.state, reserved |-> c.reserved]
<1>1. bytes' = c.bytes /\ meter' = [meter EXCEPT ![t] = r]
  BY DEF SetMeter
<1>2. c.bytes \in Nat /\ c.state \in MeterStates /\ c.reserved \in Nat
  BY DEF View
<1>3. r \in [state : MeterStates, reserved : Nat]
  BY <1>2
<1>4. meter \in [Turn -> [state : MeterStates, reserved : Nat]] /\ bytes \in Nat
  BY DEF CaptureTypes, Branch
<1>5. r.state = c.state /\ r.reserved = c.reserved
  OBVIOUS
<1> HIDE DEF r
<1>6. /\ meter' \in [Turn -> [state : MeterStates, reserved : Nat]]
      /\ meter'[t] = r /\ \A u \in Turn \ {t} : meter'[u] = meter[u]
  BY <1>1, <1>3, <1>4
<1>7. Reserved \in [Turn -> Nat] /\ Reserved' \in [Turn -> Nat]
  BY <1>4, <1>6 DEF Reserved
<1>8. /\ Reserved[t] = meter[t].reserved /\ Reserved'[t] = c.reserved
      /\ \A u \in Turn \ {t} : Reserved'[u] = Reserved[u]
  BY <1>5, <1>6 DEF Reserved
<1> DEFINE f == Reserved
<1> DEFINE h == Reserved'
<1>9. SumFunction(h) = SumFunction(f) + h[t] - f[t]
  <2> HIDE DEF f, h
  <2>1. f \in [Turn -> Nat] /\ h \in [Turn -> Nat] /\ \A u \in Turn \ {t} : h[u] = f[u]
    BY <1>7, <1>8 DEF f, h
  <2> QED BY <2>1, TurnFinite, SumUpdate
<1>10. bytes = SumFunction(f)
  BY DEF BudgetSound
<1> HIDE DEF f, h
<1>11. f[t] = meter[t].reserved /\ h[t] = c.reserved
  BY <1>8 DEF f, h
<1>12. meter[t].reserved \in Nat
  BY <1>4
<1>13. bytes' = SumFunction(h)
  BY <1>1, <1>2, <1>4, <1>9, <1>10, <1>11, <1>12
<1> QED BY <1>1, <1>2, <1>5, <1>6, <1>13 DEF h

LEMMA MeteredView ==
    ASSUME CaptureTypes, BudgetSound, NEW t \in Turn
    PROVE  /\ Metered(t) \in View /\ Metered(t).reserved <= Metered(t).bytes
           /\ Metered(t).bytes = bytes /\ Metered(t).reserved = meter[t].reserved
           /\ Metered(t).state = meter[t].state
<1>1. /\ bytes \in Nat /\ meter[t].reserved \in Nat /\ meter[t].state \in MeterStates
      /\ Reserved \in [Turn -> Nat] /\ Reserved[t] = meter[t].reserved
  BY DEF CaptureTypes, Branch, Reserved
<1>2. meter[t].reserved <= bytes
  <2>1. Reserved[t] <= SumFunction(Reserved)
    BY <1>1, TurnFinite, SumNat
  <2> QED BY <1>1, <2>1 DEF BudgetSound
<1> QED BY <1>1, <1>2 DEF Metered, View

LEMMA BudgetStays ==
    ASSUME BudgetSound, UNCHANGED <<bytes, meter>>,
           \A u \in Turn : task'[u] \in {"none", "over"} => task[u] \in {"none", "over"}
    PROVE  BudgetSound'
BY DEF BudgetSound, Reserved

\* Release of the meter, in the finally block.
LEMMA DisposeMoves ==
    ASSUME CaptureTypes, BudgetSound, NEW t \in Turn, Dispose(t)
    PROVE  /\ bytes' \in Nat
           /\ meter' \in [Turn -> [state : MeterStates, reserved : Nat]]
           /\ bytes' = SumFunction(Reserved')
           /\ meter'[t].state = meter[t].state /\ meter'[t].reserved = 0
           /\ \A u \in Turn \ {t} : meter'[u] = meter[u]
<1> DEFINE b == Metered(t)
<1> DEFINE c == Release(b)
<1>1. b \in View /\ b.reserved <= b.bytes /\ b.bytes = bytes /\ b.reserved = meter[t].reserved
      /\ b.state = meter[t].state
  BY MeteredView
<1>2. SetMeter(t, c)
  BY DEF Dispose
<1> HIDE DEF b
<1>3. Exchanges(b, c) /\ c.reserved = 0 /\ c.state = b.state
  BY <1>1, ReleaseExchanges
<1> HIDE DEF c
<1>4. c \in View /\ c.bytes - c.reserved = bytes - meter[t].reserved
  BY <1>1, <1>3 DEF Exchanges
<1> QED BY <1>1, <1>2, <1>3, <1>4, MeterMoves

------------------------------------------------------------------------------
(* The queue of the log's branch.                                            *)

LEMMA TextOfNat == \A c \in Event : TextOf(c) \in Nat
BY CaptureAssumption DEF Event, TextOf, Text

LEMMA EventsApart ==
    /\ UsageEvent \notin Text /\ Endless \notin Text /\ UsageEvent # Endless
    /\ \A c \in Text : c.type = "text" /\ c.size \in Nat
    /\ UsageEvent.type # "text" /\ Endless.type # "text"
<1>1. UsageEvent.type = "usage" /\ Endless.type = "endless"
  BY DEF UsageEvent, Endless
<1>2. \A c \in Text : c.type = "text" /\ c.size \in Nat
  BY CaptureAssumption DEF Text
<1> QED BY <1>1, <1>2

LEMMA BalancedEmpty ==
    ASSUME NEW k \in Nat, NEW n \in Nat
    PROVE  Balanced(k, <<>>, n) <=> k = n
<1>1. Len(<<>>) = 0
  OBVIOUS
<1>2. ASSUME k = n PROVE Balanced(k, <<>>, n)
  <2> DEFINE p == [i \in 0..0 |-> k]
  <2>1. p \in [0..0 -> Nat] /\ p[0] = k
    OBVIOUS
  <2> HIDE DEF p
  <2> QED BY <1>1, <1>2, <2>1 DEF Balanced
<1> QED BY <1>1, <1>2 DEF Balanced

\* A balanced queue is short of the total by the size of its text.
LEMMA BalancedSum ==
    ASSUME NEW q \in Seq(Event), NEW k \in Nat, NEW n \in Nat, Balanced(k, q, n)
    PROVE  k + TextSize(q) = n
<1> DEFINE D == 1..Len(q)
<1> DEFINE f(j) == [i \in D |-> IF i <= j THEN TextOf(q[i]) ELSE 0]
<1>1. Len(q) \in Nat /\ DOMAIN q = D /\ IsFiniteSet(D) /\ \A i \in D : q[i] \in Event
  BY FS_Interval
<1>2. PICK p \in [0..Len(q) -> Nat] :
            /\ p[0] = k /\ p[Len(q)] = n
            /\ \A i \in 1..Len(q) : p[i] = p[i - 1] + TextOf(q[i])
  BY DEF Balanced
<1>3. \A i \in D : TextOf(q[i]) \in Nat
  BY <1>1, TextOfNat
<1> DEFINE Bad == {j \in 0..Len(q) : p[j] # k + SumFunction(f(j))}
<1>4. Bad = {}
  <2> SUFFICES ASSUME Bad # {} PROVE FALSE
    OBVIOUS
  <2>1. PICK j \in Bad : \A m \in Bad : j <= m
    <3>1. Bad \in SUBSET Nat
      BY <1>1
    <3> HIDE DEF Bad
    <3> QED BY <3>1, LeastMember
  <2>2. j \in 0..Len(q) /\ p[j] # k + SumFunction(f(j))
    OBVIOUS
  <2>3. j # 0
    <3>1. f(0) \in [D -> {0}]
      OBVIOUS
    <3>2. SumFunction(f(0)) = 0
      <4> DEFINE g == f(0)
      <4> HIDE DEF f, D
      <4> QED BY <1>1, <3>1, SumZero
    <3> HIDE DEF f
    <3> QED BY <1>2, <2>2, <3>2
  <2>4. j - 1 \in 0..Len(q) /\ j \in D /\ j - 1 < j
    BY <1>1, <2>2, <2>3
  <2>5. j - 1 \notin Bad
    <3> HIDE DEF Bad
    <3> QED BY <1>1, <2>1, <2>2, <2>4
  <2>6. p[j - 1] = k + SumFunction(f(j - 1))
    BY <2>4, <2>5
  <2>7. /\ f(j) \in [D -> Nat] /\ f(j - 1) \in [D -> Nat]
        /\ \A x \in D \ {j} : f(j)[x] = f(j - 1)[x]
        /\ f(j)[j] = TextOf(q[j]) /\ f(j - 1)[j] = 0
    BY <1>1, <1>3, <2>2, <2>4
  <2> HIDE DEF f, D
  <2>8. SumFunction(f(j)) = SumFunction(f(j - 1)) + f(j)[j] - f(j - 1)[j]
    BY <1>1, <2>4, <2>7, SumUpdate
  <2>9. SumFunction(f(j - 1)) \in Nat
    BY <1>1, <2>7, SumNat
  <2>10. p[j] = p[j - 1] + TextOf(q[j]) /\ TextOf(q[j]) \in Nat
    BY <1>2, <1>3, <2>4 DEF D
  <2> QED BY <2>2, <2>6, <2>7, <2>8, <2>9, <2>10
<1>5. f(Len(q)) = [i \in DOMAIN q |-> IF q[i] \in Text THEN q[i].size ELSE 0]
  BY <1>1 DEF TextOf
<1>6. TextSize(q) = SumFunction(f(Len(q)))
  BY <1>5 DEF TextSize
<1>7. Len(q) \in 0..Len(q) /\ Len(q) \notin Bad
  BY <1>1, <1>4
<1> QED BY <1>2, <1>6, <1>7

LEMMA EmptyText == TextSize(<<>>) = 0
<1> DEFINE f == [i \in DOMAIN <<>> |-> IF <<>>[i] \in Text THEN <<>>[i].size ELSE 0]
<1>1. f \in [{} -> {0}] /\ IsFiniteSet({})
  BY FS_EmptySet
<1>2. SumFunction(f) = 0
  <2> HIDE DEF f
  <2> QED BY <1>1, SumZero
<1> QED BY <1>2 DEF TextSize

LEMMA QueueAppend ==
    ASSUME NEW q \in Seq(Event), NEW c \in Event
    PROVE  /\ Append(q, c) \in Seq(Event)
           /\ Range(Append(q, c)) = Range(q) \cup {c}
           /\ \A k \in Nat, n \in Nat :
                Balanced(k, q, n) => Balanced(k, Append(q, c), n + TextOf(c))
<1> DEFINE r == Append(q, c)
<1>1. /\ r \in Seq(Event) /\ Len(r) = Len(q) + 1 /\ Len(q) \in Nat /\ r[Len(q) + 1] = c
      /\ \A i \in 1..Len(q) : r[i] = q[i]
      /\ DOMAIN r = 1..(Len(q) + 1) /\ DOMAIN q = 1..Len(q)
  OBVIOUS
<1> HIDE DEF r
<1>2. Range(r) = Range(q) \cup {c}
  BY <1>1 DEF Range
<1>3. ASSUME NEW k \in Nat, NEW n \in Nat, Balanced(k, q, n)
      PROVE  Balanced(k, r, n + TextOf(c))
  <2>1. PICK p \in [0..Len(q) -> Nat] :
              /\ p[0] = k /\ p[Len(q)] = n
              /\ \A i \in 1..Len(q) : p[i] = p[i - 1] + TextOf(q[i])
    BY <1>3 DEF Balanced
  <2> DEFINE s == [i \in 0..Len(r) |-> IF i = Len(r) THEN n + TextOf(c) ELSE p[i]]
  <2>2. TextOf(c) \in Nat
    BY TextOfNat
  <2>3. s \in [0..Len(r) -> Nat]
    BY <1>1, <2>2
  <2>4. s[0] = k /\ s[Len(r)] = n + TextOf(c) /\ \A i \in 0..Len(q) : s[i] = p[i]
    BY <1>1, <2>1
  <2> HIDE DEF s
  <2>5. ASSUME NEW i \in 1..Len(r)
        PROVE  s[i] = s[i - 1] + TextOf(r[i])
    <3>1. CASE i = Len(r)
      <4>1. r[i] = c /\ s[i] = n + TextOf(c) /\ i - 1 = Len(q)
        BY <1>1, <2>4, <3>1
      <4>2. s[i - 1] = n
        BY <1>1, <2>1, <2>4, <4>1
      <4> QED BY <4>1, <4>2
    <3>2. CASE i # Len(r)
      <4>1. i \in 1..Len(q) /\ i - 1 \in 0..Len(q) /\ i \in 0..Len(q)
        BY <1>1, <3>2
      <4> QED BY <1>1, <2>1, <2>4, <4>1
    <3> QED BY <3>1, <3>2
  <2> QED BY <2>3, <2>4, <2>5 DEF Balanced
<1> QED BY <1>1, <1>2, <1>3 DEF r

LEMMA QueueTail ==
    ASSUME NEW q \in Seq(Event), q # <<>>
    PROVE  /\ Head(q) \in Event /\ Tail(q) \in Seq(Event)
           /\ Range(q) = {Head(q)} \cup Range(Tail(q))
           /\ \A k \in Nat, n \in Nat :
                Balanced(k, q, n) => Balanced(k + TextOf(Head(q)), Tail(q), n)
<1> DEFINE r == Tail(q)
<1> DEFINE c == Head(q)
<1>1. /\ c \in Event /\ r \in Seq(Event) /\ Len(q) \in Nat /\ Len(q) > 0
      /\ Len(r) = Len(q) - 1 /\ c = q[1] /\ \A i \in 1..Len(r) : r[i] = q[i + 1]
      /\ DOMAIN r = 1..Len(r) /\ DOMAIN q = 1..Len(q)
  OBVIOUS
<1> HIDE DEF r, c
<1>2. Range(q) = {c} \cup Range(r)
  <2>1. \A i \in 1..Len(q) : i = 1 \/ (i - 1 \in 1..Len(r) /\ r[i - 1] = q[i])
    BY <1>1
  <2>2. Range(q) \subseteq {c} \cup Range(r)
    BY <1>1, <2>1 DEF Range
  <2>3. \A i \in 1..Len(r) : i + 1 \in 1..Len(q)
    BY <1>1
  <2>4. {c} \cup Range(r) \subseteq Range(q)
    BY <1>1, <2>3 DEF Range
  <2> QED BY <2>2, <2>4
<1>3. ASSUME NEW k \in Nat, NEW n \in Nat, Balanced(k, q, n)
      PROVE  Balanced(k + TextOf(c), r, n)
  <2>1. PICK p \in [0..Len(q) -> Nat] :
              /\ p[0] = k /\ p[Len(q)] = n
              /\ \A i \in 1..Len(q) : p[i] = p[i - 1] + TextOf(q[i])
    BY <1>3 DEF Balanced
  <2> DEFINE s == [i \in 0..Len(r) |-> p[i + 1]]
  <2>2. s \in [0..Len(r) -> Nat] /\ \A i \in 0..Len(r) : s[i] = p[i + 1]
    BY <1>1
  <2> HIDE DEF s
  <2>3. s[0] = k + TextOf(c) /\ s[Len(r)] = n
    <3>1. 0 \in 0..Len(r) /\ Len(r) \in 0..Len(r) /\ 1 \in 1..Len(q) /\ Len(r) + 1 = Len(q)
      BY <1>1
    <3>2. s[0] = p[1] /\ p[1] = p[1 - 1] + TextOf(q[1])
      BY <2>1, <2>2, <3>1
    <3> QED BY <1>1, <2>1, <2>2, <3>1, <3>2
  <2>4. ASSUME NEW i \in 1..Len(r)
        PROVE  s[i] = s[i - 1] + TextOf(r[i])
    <3>1. i \in 0..Len(r) /\ i - 1 \in 0..Len(r) /\ i + 1 \in 1..Len(q) /\ (i + 1) - 1 = i
          /\ (i - 1) + 1 = i
      BY <1>1
    <3>2. p[i + 1] = p[i] + TextOf(q[i + 1])
      BY <2>1, <3>1
    <3>3. s[i] = p[i + 1] /\ s[i - 1] = p[i] /\ r[i] = q[i + 1]
      BY <1>1, <2>2, <3>1
    <3> QED BY <3>2, <3>3
  <2> QED BY <2>2, <2>3, <2>4 DEF Balanced
<1> QED BY <1>1, <1>2, <1>3 DEF r, c

------------------------------------------------------------------------------
(* The steps.                                                                *)

\* The other turns are as they were.
Same(u) ==
    /\ meter'[u] = meter[u] /\ task'[u] = task[u] /\ log'[u] = log[u] /\ acc'[u] = acc[u]
    /\ upstream'[u] = upstream[u] /\ client'[u] = client[u] /\ early'[u] = early[u]
    /\ sent'[u] = sent[u] /\ record'[u] = record[u]

LEMMA OthersSound ==
    ASSUME CaptureInv, NEW t \in Turn, \A u \in Turn \ {t} : Same(u), TurnSound(t)'
    PROVE  \A u \in Turn : TurnSound(u)'
<1> SUFFICES ASSUME NEW u \in Turn, u # t PROVE TurnSound(u)'
  OBVIOUS
<1>1. TurnSound(u) /\ Same(u)
  BY DEF CaptureInv
<1>2. BranchesSound(u)'
  BY <1>1 DEF TurnSound, BranchesSound, CutShort, EndFollowedOf, Untouched, Same
<1>3. AccSound(u)'
  BY <1>1 DEF TurnSound, AccSound, Ahead, Whole, Same
<1>4. RecordSound(u)'
  BY <1>1 DEF TurnSound, RecordSound, FullSound, EndFollowedOf, Same
<1> QED BY <1>2, <1>3, <1>4 DEF TurnSound

\* A branch that runs has dropped nothing; one that was cut off has nothing to read.
LEMMA AheadOf ==
    ASSUME NEW t \in Turn, log[t] \in Branch, BranchesSound(t)
    PROVE  /\ ~log[t].cancelled => Ahead(t) = log[t].queue /\ log[t].dropped = <<>>
           /\ log[t].cancelled => Ahead(t) = log[t].dropped /\ log[t].queue = <<>>
<1>1. log[t].dropped \in Seq(Event) /\ log[t].queue \in Seq(Event)
  BY DEF Branch
<1>2. \A q \in Seq(Event) : q \o <<>> = q /\ <<>> \o q = q
  OBVIOUS
<1>3. IF log[t].cancelled THEN log[t].queue = <<>> ELSE log[t].dropped = <<>>
  BY DEF BranchesSound
<1> QED BY <1>1, <1>2, <1>3 DEF Ahead

LEMMA NewMeterSound ==
    ASSUME CaptureTypes, BudgetSound, NEW t \in Turn, task[t] = "none", NEW l
    PROVE  /\ NewMeter(l) \in View /\ NewMeter(l).bytes = bytes /\ NewMeter(l).reserved = 0
           /\ NewMeter(l).state \in {"full", "shed"}
           /\ NewMeter(l).bytes - NewMeter(l).reserved = bytes - meter[t].reserved
<1>1. bytes \in Nat /\ meter[t].reserved = 0
  BY DEF CaptureTypes, Branch, BudgetSound
<1> DEFINE s == IF l.budget - bytes <= 0 THEN "shed" ELSE "full"
<1>2. NewMeter(l) = [bytes |-> bytes, reserved |-> 0, state |-> s] /\ s \in {"full", "shed"}
  BY DEF NewMeter
<1> HIDE DEF s
<1>3. s \in MeterStates
  BY <1>2 DEF MeterStates
<1> QED BY <1>1, <1>2, <1>3 DEF View

LEMMA BeginStreamSound ==
    ASSUME CaptureInv, NEW t \in Turn, BeginStream(t)
    PROVE  CaptureInv'
<1> USE DEF CaptureInv
<1>1. PICK l \in Limits : Configure(l) /\ SetMeter(t, NewMeter(l))
  BY DEF BeginStream
<1>2. /\ task[t] = "none" /\ task' = [task EXCEPT ![t] = "hashing"]
      /\ upstream' = [upstream EXCEPT ![t] = "flowing"]
      /\ client' = [client EXCEPT ![t] = "reading"]
      /\ UNCHANGED <<log, acc, early, sent, record>>
  BY DEF BeginStream
<1> DEFINE c == NewMeter(l)
<1>3. c \in View /\ c.state \in {"full", "shed"} /\ c.bytes - c.reserved = bytes - meter[t].reserved
  BY <1>2, NewMeterSound
<1> HIDE DEF c
<1>4. /\ bytes' \in Nat
      /\ meter' \in [Turn -> [state : MeterStates, reserved : Nat]]
      /\ bytes' = SumFunction(Reserved')
      /\ meter'[t].state = c.state
      /\ \A u \in Turn \ {t} : meter'[u] = meter[u]
  BY <1>1, <1>3, MeterMoves DEF c
<1>5. CaptureTypes'
  BY <1>1, <1>2, <1>4 DEF CaptureTypes, Branch, Configure
<1>6. /\ task'[t] = "hashing" /\ upstream'[t] = "flowing" /\ client'[t] = "reading"
      /\ \A u \in Turn \ {t} : Same(u)
  BY <1>2, <1>4 DEF CaptureTypes, Branch, Same
<1>7. BudgetSound'
  BY <1>4, <1>6 DEF BudgetSound, Same
<1>8. /\ Untouched(t) /\ record[t] = NoRecord
  BY <1>2 DEF TurnSound, BranchesSound, CutShort, EndFollowedOf, RecordSound
<1>9. BranchesSound(t)'
  BY <1>2, <1>6, <1>8 DEF BranchesSound, CutShort, EndFollowedOf, Untouched
<1>10. AccSound(t)'
  <2>1. Balanced(0, <<>>, 0)
    BY BalancedEmpty
  <2>2. Range(<<>>) = {}
    BY DEF Range
  <2>3. Ahead(t)' = <<>> /\ log'[t].queue = <<>>
    BY <1>2, <1>8 DEF Ahead, Untouched
  <2> QED BY <1>2, <1>8, <2>1, <2>2, <2>3 DEF AccSound, Untouched
<1>11. RecordSound(t)'
  BY <1>2, <1>6, <1>8 DEF RecordSound, FullSound, EndFollowedOf
<1> QED BY <1>5, <1>6, <1>7, <1>9, <1>10, <1>11, OthersSound DEF TurnSound

LEMMA ChunkSound ==
    ASSUME CaptureInv, NEW t \in Turn, Chunk(t)
    PROVE  CaptureInv'
<1> USE DEF CaptureInv
<1>1. PICK c \in Event :
          /\ log' = [log EXCEPT ![t].queue = Append(@, c)]
          /\ sent' = [sent EXCEPT ![t].chunks = @ + 1,
                                  ![t].text = IF c.type = "text" THEN @ + c.size ELSE @,
                                  ![t].usage = @ \/ c = UsageEvent,
                                  ![t].endless = @ \/ c = Endless]
  BY DEF Chunk, Event
<1>2. /\ upstream[t] = "flowing" /\ task[t] \in {"hashing", "reading", "recording"}
      /\ ~log[t].cancelled
      /\ UNCHANGED <<limits, bytes, meter, task, acc, upstream, client, early, record>>
  BY DEF Chunk, Listening
<1> DEFINE q == log[t].queue
<1> DEFINE n == sent[t].text + TextOf(c)
<1>3. TextOf(c) = IF c.type = "text" THEN c.size ELSE 0
  BY EventsApart DEF TextOf, Event
<1>4. q \in Seq(Event) /\ sent[t].text \in Nat /\ acc[t].kept \in Nat /\ TextOf(c) \in Nat
  BY TextOfNat DEF CaptureTypes, Branch
<1>5. /\ Append(q, c) \in Seq(Event) /\ Range(Append(q, c)) = Range(q) \cup {c}
      /\ \A k \in Nat : Balanced(k, q, sent[t].text) => Balanced(k, Append(q, c), n)
  BY <1>4, QueueAppend
<1>6. /\ log' \in [Turn -> Branch]
      /\ log'[t].queue = Append(q, c) /\ log'[t].cancelled = log[t].cancelled
      /\ log'[t].dropped = log[t].dropped
      /\ \A u \in Turn \ {t} : log'[u] = log[u]
  <2>1. log \in [Turn -> Branch]
    BY DEF CaptureTypes
  <2> QED BY <1>1, <1>5, <2>1 DEF Branch
<1>7. /\ sent' \in [Turn -> [chunks : Nat, text : Nat, usage : BOOLEAN, endless : BOOLEAN]]
      /\ sent'[t].text = n
      /\ sent'[t].usage = (sent[t].usage \/ c = UsageEvent)
      /\ sent'[t].endless = (sent[t].endless \/ c = Endless)
      /\ \A u \in Turn \ {t} : sent'[u] = sent[u]
  <2>1. sent \in [Turn -> [chunks : Nat, text : Nat, usage : BOOLEAN, endless : BOOLEAN]]
    BY DEF CaptureTypes, Branch
  <2> DEFINE x == sent[t].chunks + 1
  <2> DEFINE y == sent[t].usage \/ c = UsageEvent
  <2> DEFINE z == sent[t].endless \/ c = Endless
  <2>2. x \in Nat /\ n \in Nat /\ y \in BOOLEAN /\ z \in BOOLEAN
    BY <1>4, <2>1
  <2>3. n = IF c.type = "text" THEN sent[t].text + c.size ELSE sent[t].text
    BY <1>3, <1>4
  <2>4. sent' = [sent EXCEPT ![t].chunks = x, ![t].text = n, ![t].usage = y, ![t].endless = z]
    BY <1>1, <2>3
  <2> HIDE DEF x, y, z, n
  <2>5. /\ sent' \in [Turn -> [chunks : Nat, text : Nat, usage : BOOLEAN, endless : BOOLEAN]]
        /\ sent'[t].text = n /\ sent'[t].usage = y /\ sent'[t].endless = z
        /\ \A u \in Turn \ {t} : sent'[u] = sent[u]
    BY <2>1, <2>2, <2>4
  <2> QED BY <2>5 DEF y, z
<1> HIDE DEF q, n
<1>8. CaptureTypes'
  BY <1>2, <1>6, <1>7 DEF CaptureTypes, Branch
<1>9. BudgetSound'
  BY <1>2, BudgetStays
<1>10. \A u \in Turn \ {t} : Same(u)
  BY <1>2, <1>6, <1>7 DEF Same
<1>11. TurnSound(t)
  OBVIOUS
<1>12. BranchesSound(t)'
  BY <1>2, <1>6, <1>11 DEF TurnSound, BranchesSound, CutShort, EndFollowedOf
<1>13. AccSound(t)'
  <2>0. Ahead(t) = q /\ Ahead(t)' = Append(q, c)
    <3>1. Ahead(t) = log[t].queue /\ log[t].dropped = <<>>
      BY <1>2, <1>11, AheadOf DEF TurnSound, CaptureTypes
    <3>2. Ahead(t)' = <<>> \o Append(q, c)
      BY <1>6, <3>1 DEF Ahead
    <3> QED BY <1>5, <3>1, <3>2 DEF q
  <2>1. Whole(t)' => Whole(t)
    BY <1>2 DEF Whole
  <2>2. ASSUME Whole(t)', (meter[t].state = "full")'
        PROVE  (~acc[t].overflowed /\ Balanced(acc[t].kept, Ahead(t), sent[t].text))'
    <3>1. ~acc[t].overflowed /\ Balanced(acc[t].kept, q, sent[t].text)
      BY <1>2, <1>11, <2>0, <2>1, <2>2 DEF TurnSound, AccSound
    <3>2. Balanced(acc[t].kept, Append(q, c), n)
      BY <1>4, <1>5, <3>1
    <3> QED BY <1>2, <1>7, <2>0, <3>1, <3>2
  <2>3. ASSUME Whole(t)', ~sent'[t].endless
        PROVE  (sent[t].usage <=> acc[t].usage \/ UsageEvent \in Range(Ahead(t)))'
    <3>1. sent[t].usage <=> acc[t].usage \/ UsageEvent \in Range(q)
      BY <1>7, <1>11, <2>0, <2>1, <2>3 DEF TurnSound, AccSound
    <3> QED BY <1>2, <1>5, <1>7, <2>0, <3>1
  <2>4. (acc[t].overflowed => sent[t].endless)'
    BY <1>2, <1>7, <1>11 DEF TurnSound, AccSound
  <2>5. (Endless \in Range(log[t].queue) => sent[t].endless)'
    BY <1>5, <1>6, <1>7, <1>11 DEF TurnSound, AccSound, q
  <2> QED BY <2>2, <2>3, <2>4, <2>5 DEF AccSound
<1>14. RecordSound(t)'
  <2>1. record[t] = NoRecord
    BY <1>2, <1>11 DEF TurnSound, RecordSound, FullSound, EndFollowedOf
  <2> QED BY <1>2, <2>1 DEF RecordSound, FullSound, EndFollowedOf
<1> QED BY <1>8, <1>9, <1>10, <1>12, <1>13, <1>14, OthersSound DEF TurnSound

LEMMA UpstreamEndsSound ==
    ASSUME CaptureInv, NEW t \in Turn, UpstreamEnds(t)
    PROVE  CaptureInv'
<1> USE DEF CaptureInv
<1>1. /\ upstream[t] = "flowing" /\ upstream' = [upstream EXCEPT ![t] = "ended"]
      /\ UNCHANGED <<limits, bytes, meter, task, log, acc, client, early, sent, record>>
  BY DEF UpstreamEnds
<1>2. CaptureTypes' /\ upstream'[t] = "ended" /\ \A u \in Turn \ {t} : Same(u)
  BY <1>1 DEF CaptureTypes, Branch, Same
<1>3. BudgetSound'
  BY <1>1, BudgetStays
<1>4. TurnSound(t)'
  <2>1. TurnSound(t)
    OBVIOUS
  <2>2. BranchesSound(t)'
    BY <1>1, <1>2, <2>1 DEF TurnSound, BranchesSound, CutShort, EndFollowedOf
  <2>3. AccSound(t)'
    BY <1>1, <1>2, <2>1 DEF TurnSound, AccSound, Ahead, Whole
  <2>4. RecordSound(t)'
    BY <1>1, <1>2, <2>1 DEF TurnSound, RecordSound, FullSound, EndFollowedOf
  <2> QED BY <2>2, <2>3, <2>4 DEF TurnSound
<1> QED BY <1>2, <1>3, <1>4, OthersSound

LEMMA UpstreamFailsSound ==
    ASSUME CaptureInv, NEW t \in Turn, UpstreamFails(t)
    PROVE  CaptureInv'
<1> USE DEF CaptureInv
<1>1. /\ upstream[t] = "flowing" /\ upstream' = [upstream EXCEPT ![t] = "failed"]
      /\ client' = [client EXCEPT ![t] = IF @ = "reading" THEN "ended" ELSE @]
      /\ log' = [log EXCEPT ![t].queue = <<>>]
      /\ UNCHANGED <<limits, bytes, meter, task, acc, early, sent, record>>
  BY DEF UpstreamFails
<1>2. /\ <<>> \in Seq(Event) /\ log \in [Turn -> Branch]
      /\ client \in [Turn -> {"none", "reading", "ended", "gone"}]
  BY DEF CaptureTypes, Branch
<1>3. /\ log' \in [Turn -> Branch]
      /\ log'[t].queue = <<>> /\ log'[t].cancelled = log[t].cancelled
      /\ log'[t].dropped = log[t].dropped
      /\ \A u \in Turn \ {t} : log'[u] = log[u]
  BY <1>1, <1>2 DEF Branch
<1>4. /\ client' \in [Turn -> {"none", "reading", "ended", "gone"}]
      /\ client'[t] = (IF client[t] = "reading" THEN "ended" ELSE client[t])
      /\ \A u \in Turn \ {t} : client'[u] = client[u]
  BY <1>1, <1>2
<1>5. CaptureTypes' /\ upstream'[t] = "failed" /\ \A u \in Turn \ {t} : Same(u)
  BY <1>1, <1>3, <1>4 DEF CaptureTypes, Branch, Same
<1>6. BudgetSound'
  BY <1>1, BudgetStays
<1>7. TurnSound(t)'
  <2>1. TurnSound(t)
    OBVIOUS
  <2>2. BranchesSound(t)'
    <3>1. client[t] # "none"
      BY <1>1, <2>1 DEF TurnSound, BranchesSound, CutShort, EndFollowedOf
    <3>2. client'[t] \in {"ended", "gone"}
      BY <1>2, <1>4, <3>1
    <3> QED BY <1>1, <1>3, <1>5, <2>1, <3>2 DEF TurnSound, BranchesSound, CutShort, EndFollowedOf
  <2>3. AccSound(t)'
    <3>1. Range(<<>>) = {}
      BY DEF Range
    <3> QED BY <1>1, <1>3, <1>5, <2>1, <3>1 DEF TurnSound, AccSound, Ahead, Whole
  <2>4. RecordSound(t)'
    BY <1>1, <1>3, <1>4, <1>5, <2>1 DEF TurnSound, RecordSound, FullSound, EndFollowedOf
  <2> QED BY <2>2, <2>3, <2>4 DEF TurnSound
<1> QED BY <1>5, <1>6, <1>7, OthersSound

\* The log's branch is cut off, or the client is through, or both.
CutOff(b) == [queue |-> <<>>, cancelled |-> TRUE, dropped |-> b.dropped \o b.queue]

LEMMA CutOffLog ==
    ASSUME CaptureTypes, NEW t \in Turn, CancelLog(t)
    PROVE  /\ log' \in [Turn -> Branch]
           /\ log'[t].queue = <<>> /\ log'[t].cancelled
           /\ log'[t].dropped = log[t].dropped \o log[t].queue
           /\ \A u \in Turn \ {t} : log'[u] = log[u]
<1>1. log' = [log EXCEPT ![t] = CutOff(log[t])]
  BY DEF CancelLog, CutOff
<1>2. log \in [Turn -> Branch]
  BY DEF CaptureTypes
<1>3. log[t].dropped \o log[t].queue \in Seq(Event)
  <2>1. log[t].dropped \in Seq(Event) /\ log[t].queue \in Seq(Event)
    BY <1>2 DEF Branch
  <2> QED BY <2>1
<1> DEFINE rest == log[t].dropped \o log[t].queue
<1>4. /\ CutOff(log[t]) \in Branch
      /\ CutOff(log[t]).queue = <<>> /\ CutOff(log[t]).cancelled
      /\ CutOff(log[t]).dropped = log[t].dropped \o log[t].queue
  <2>1. CutOff(log[t]) = [queue |-> <<>>, cancelled |-> TRUE, dropped |-> rest]
    BY DEF CutOff
  <2>2. rest \in Seq(Event) /\ <<>> \in Seq(Event)
    BY <1>3
  <2> HIDE DEF rest
  <2>3. /\ CutOff(log[t]) \in Branch
        /\ CutOff(log[t]).queue = <<>> /\ CutOff(log[t]).cancelled
        /\ CutOff(log[t]).dropped = rest
    BY <2>1, <2>2 DEF Branch
  <2> QED BY <2>3 DEF rest
<1> QED BY <1>1, <1>2, <1>4

LEMMA ReleasedUpstream ==
    ASSUME CaptureTypes, NEW t \in Turn, ReleaseUpstream(t)
    PROVE  /\ upstream' \in [Turn -> {"none", "flowing", "ended", "failed", "cancelled"}]
           /\ \/ upstream'[t] = upstream[t]
              \/ /\ upstream'[t] = "cancelled" /\ upstream[t] = "flowing"
                 /\ client'[t] = "gone" /\ log'[t].cancelled
           /\ \A u \in Turn \ {t} : upstream'[u] = upstream[u]
BY DEF CaptureTypes, Branch, ReleaseUpstream

LEMMA CutSound ==
    ASSUME CaptureInv, NEW t \in Turn, upstream[t] # "none",
           UNCHANGED <<limits, bytes, meter, task, acc, sent, record>>,
           CaptureTypes', \A u \in Turn \ {t} : Same(u),
           \/ log'[t] = log[t]
           \/ /\ log'[t].queue = <<>> /\ log'[t].cancelled
              /\ log'[t].dropped = log[t].dropped \o log[t].queue
              /\ CutShort(t)' \/ EndFollowedOf(t)',
           client'[t] = client[t] \/ (client[t] = "reading" /\ client'[t] \in {"ended", "gone"}),
           early[t] => early'[t],
           \/ upstream'[t] = upstream[t]
           \/ /\ upstream'[t] = "cancelled" /\ upstream[t] = "flowing"
              /\ client'[t] = "gone" /\ log'[t].cancelled
    PROVE  CaptureInv'
<1> USE DEF CaptureInv
<1>1. TurnSound(t)
  OBVIOUS
<1>2. log[t].cancelled => log'[t].cancelled
  OBVIOUS
<1>3. BudgetSound'
  BY BudgetStays
<1>4. BranchesSound(t)'
  <2>1. /\ (log[t].cancelled => CutShort(t) \/ EndFollowedOf(t) \/ task[t] = "over")'
        /\ (IF log[t].cancelled THEN log[t].queue = <<>> ELSE log[t].dropped = <<>>)'
    BY <1>1 DEF TurnSound, BranchesSound, CutShort, EndFollowedOf
  <2>2. upstream'[t] # "none" /\ client'[t] # "none" /\ task'[t] # "none"
    BY <1>1 DEF TurnSound, BranchesSound, CutShort, EndFollowedOf
  <2>3. (upstream[t] = "failed" => client[t] \in {"ended", "gone"})'
    BY <1>1 DEF TurnSound, BranchesSound, CutShort, EndFollowedOf
  <2>4. (upstream[t] = "cancelled" => client[t] = "gone" /\ log[t].cancelled)'
    BY <1>1, <1>2 DEF TurnSound, BranchesSound, CutShort, EndFollowedOf
  <2> QED BY <2>1, <2>2, <2>3, <2>4 DEF BranchesSound, CutShort, EndFollowedOf
<1>5. /\ Ahead(t)' = Ahead(t)
      /\ Endless \in Range(log'[t].queue) => Endless \in Range(log[t].queue)
      /\ log[t].queue = <<>> => log'[t].queue = <<>> /\ log'[t].dropped = log[t].dropped
  <2>1. Range(<<>>) = {}
    BY DEF Range
  <2>2. log[t].dropped \in Seq(Event) /\ log[t].queue \in Seq(Event)
    BY DEF CaptureTypes, Branch
  <2> DEFINE rest == log[t].dropped \o log[t].queue
  <2>3. CASE log'[t] = log[t]
    BY <2>3 DEF Ahead
  <2>4. CASE /\ log'[t].queue = <<>>
             /\ log'[t].dropped = log[t].dropped \o log[t].queue
    <3>1. Ahead(t)' = log'[t].dropped \o log'[t].queue
      BY DEF Ahead
    <3>2. \A q \in Seq(Event) : q \o <<>> = q
      OBVIOUS
    <3>3. rest \in Seq(Event)
      BY <2>2
    <3>4. Ahead(t)' = Ahead(t)
      BY <2>4, <3>1, <3>2, <3>3 DEF Ahead
    <3>5. log[t].queue = <<>> => log'[t].dropped = log[t].dropped
      BY <2>2, <2>4, <3>2
    <3> QED BY <2>1, <2>4, <3>4, <3>5
  <2> QED BY <2>3, <2>4
<1>6. AccSound(t)'
  BY <1>1, <1>5 DEF TurnSound, AccSound, Whole
<1>7. RecordSound(t)'
  BY <1>1, <1>2, <1>5 DEF TurnSound, RecordSound, FullSound, EndFollowedOf
<1> QED BY <1>3, <1>4, <1>6, <1>7, OthersSound DEF TurnSound

LEMMA ClientEndsSound ==
    ASSUME CaptureInv, NEW t \in Turn, ClientEnds(t)
    PROVE  CaptureInv'
<1> USE DEF CaptureInv
<1>1. /\ client[t] = "reading" /\ upstream[t] = "ended"
      /\ client' = [client EXCEPT ![t] = "ended"]
      /\ CancelLog(t) \/ log' = log
      /\ UNCHANGED <<limits, bytes, meter, task, acc, upstream, early, sent, record>>
  BY DEF ClientEnds, EndFollowed
<1>2. /\ log' \in [Turn -> Branch]
      /\ \/ log'[t] = log[t]
         \/ /\ log'[t].queue = <<>> /\ log'[t].cancelled
            /\ log'[t].dropped = log[t].dropped \o log[t].queue
      /\ \A u \in Turn \ {t} : log'[u] = log[u]
  BY <1>1, CutOffLog DEF CaptureTypes, Branch
<1>3. client'[t] = "ended" /\ \A u \in Turn \ {t} : client'[u] = client[u]
  BY <1>1 DEF CaptureTypes, Branch
<1>4. CaptureTypes' /\ \A u \in Turn \ {t} : Same(u)
  BY <1>1, <1>2, <1>3 DEF CaptureTypes, Branch, Same
<1> QED BY <1>1, <1>2, <1>3, <1>4, CutSound DEF CutShort, EndFollowedOf

LEMMA ClientGoesSound ==
    ASSUME CaptureInv, NEW t \in Turn, ClientGoes(t)
    PROVE  CaptureInv'
<1> USE DEF CaptureInv
<1>1. /\ client[t] = "reading" /\ upstream[t] # "none"
      /\ client' = [client EXCEPT ![t] = "gone"]
      /\ CancelLog(t) \/ log' = log
      /\ ReleaseUpstream(t)
      /\ UNCHANGED <<limits, bytes, meter, task, acc, early, sent, record>>
  BY DEF ClientGoes, EndFollowed
<1>2. /\ log' \in [Turn -> Branch]
      /\ \/ log'[t] = log[t]
         \/ /\ log'[t].queue = <<>> /\ log'[t].cancelled
            /\ log'[t].dropped = log[t].dropped \o log[t].queue
      /\ \A u \in Turn \ {t} : log'[u] = log[u]
  BY <1>1, CutOffLog DEF CaptureTypes, Branch
<1>3. client'[t] = "gone" /\ \A u \in Turn \ {t} : client'[u] = client[u]
  BY <1>1 DEF CaptureTypes, Branch
<1>4. /\ upstream' \in [Turn -> {"none", "flowing", "ended", "failed", "cancelled"}]
      /\ \/ upstream'[t] = upstream[t]
         \/ /\ upstream'[t] = "cancelled" /\ upstream[t] = "flowing"
            /\ client'[t] = "gone" /\ log'[t].cancelled
      /\ \A u \in Turn \ {t} : upstream'[u] = upstream[u]
  BY <1>1, ReleasedUpstream
<1>5. CaptureTypes' /\ \A u \in Turn \ {t} : Same(u)
  BY <1>1, <1>2, <1>3, <1>4 DEF CaptureTypes, Branch, Same
<1> QED BY <1>1, <1>2, <1>3, <1>4, <1>5, CutSound DEF CutShort, EndFollowedOf

LEMMA CutStepSound ==
    ASSUME CaptureInv, NEW t \in Turn, Cut(t)
    PROVE  CaptureInv'
<1> USE DEF CaptureInv
<1>1. /\ upstream[t] # "none" /\ early' = [early EXCEPT ![t] = TRUE]
      /\ CancelLog(t) /\ ReleaseUpstream(t)
      /\ UNCHANGED <<limits, bytes, meter, task, acc, client, sent, record>>
  BY DEF Cut, CutMarked
<1>2. /\ log' \in [Turn -> Branch]
      /\ log'[t].queue = <<>> /\ log'[t].cancelled
      /\ log'[t].dropped = log[t].dropped \o log[t].queue
      /\ \A u \in Turn \ {t} : log'[u] = log[u]
  BY <1>1, CutOffLog
<1>3. early'[t] /\ \A u \in Turn \ {t} : early'[u] = early[u]
  BY <1>1 DEF CaptureTypes, Branch
<1>4. /\ upstream' \in [Turn -> {"none", "flowing", "ended", "failed", "cancelled"}]
      /\ \/ upstream'[t] = upstream[t]
         \/ /\ upstream'[t] = "cancelled" /\ upstream[t] = "flowing"
            /\ client'[t] = "gone" /\ log'[t].cancelled
      /\ \A u \in Turn \ {t} : upstream'[u] = upstream[u]
  BY <1>1, ReleasedUpstream
<1>5. CaptureTypes' /\ \A u \in Turn \ {t} : Same(u)
  BY <1>1, <1>2, <1>3, <1>4 DEF CaptureTypes, Branch, Same
<1>6. CutShort(t)'
  BY <1>3 DEF CutShort
<1>7. client'[t] = client[t] /\ (early[t] => early'[t])
  BY <1>1, <1>3
<1> QED BY <1>1, <1>2, <1>4, <1>5, <1>6, <1>7, CutSound

LEMMA HashedSound ==
    ASSUME CaptureInv, NEW t \in Turn, Hashed(t)
    PROVE  CaptureInv'
<1> USE DEF CaptureInv
<1>1. /\ task[t] = "hashing" /\ task' = [task EXCEPT ![t] = "reading"]
      /\ UNCHANGED <<limits, bytes, meter, log, acc, upstream, client, early, sent, record>>
  BY DEF Hashed
<1>2. CaptureTypes' /\ task'[t] = "reading" /\ \A u \in Turn \ {t} : Same(u)
  BY <1>1 DEF CaptureTypes, Branch, Same
<1>3. BudgetSound'
  <2>1. \A u \in Turn : task'[u] \in {"none", "over"} => task[u] \in {"none", "over"}
    BY <1>2 DEF Same
  <2> QED BY <1>1, <2>1, BudgetStays
<1>4. TurnSound(t)
  OBVIOUS
<1>5. BranchesSound(t)'
  BY <1>1, <1>2, <1>4 DEF TurnSound, BranchesSound, CutShort, EndFollowedOf, Untouched
<1>6. AccSound(t)'
  BY <1>1, <1>2, <1>4 DEF TurnSound, AccSound, Ahead, Whole
<1>7. RecordSound(t)'
  BY <1>1, <1>2, <1>4 DEF TurnSound, RecordSound, FullSound, EndFollowedOf
<1> QED BY <1>2, <1>3, <1>5, <1>6, <1>7, OthersSound DEF TurnSound

------------------------------------------------------------------------------
(* The task.                                                                 *)

\* What one event does to the accumulator and to the meter.
Taken(t, c) ==
    /\ bytes' \in Nat /\ bytes' = SumFunction(Reserved')
    /\ meter' \in [Turn -> [state : MeterStates, reserved : Nat]]
    /\ acc' \in [Turn -> [kept : Nat, usage : BOOLEAN, overflowed : BOOLEAN]]
    /\ \A u \in Turn \ {t} : meter'[u] = meter[u] /\ acc'[u] = acc[u]
    /\ meter'[t].state = "full" => meter[t].state = "full"
    /\ meter'[t].state = "full" /\ ~acc[t].overflowed =>
          ~acc'[t].overflowed /\ acc'[t].kept = acc[t].kept + TextOf(c)
    /\ acc'[t].overflowed => acc[t].overflowed \/ c = Endless
    /\ ~acc[t].overflowed => (acc'[t].usage <=> acc[t].usage \/ c = UsageEvent)

LEMMA PushSound ==
    ASSUME CaptureTypes, BudgetSound, NEW t \in Turn, NEW c \in Event, Push(t, c)
    PROVE  Taken(t, c)
<1> DEFINE b == Metered(t)
<1>1. /\ b \in View /\ b.reserved <= b.bytes
      /\ b.bytes = bytes /\ b.reserved = meter[t].reserved /\ b.state = meter[t].state
  BY MeteredView
<1>2. /\ bytes \in Nat /\ limits \in Limits
      /\ meter \in [Turn -> [state : MeterStates, reserved : Nat]]
      /\ acc \in [Turn -> [kept : Nat, usage : BOOLEAN, overflowed : BOOLEAN]]
  BY DEF CaptureTypes, Branch
<1>3. acc[t].kept \in Nat
  BY <1>2
<1>4. ASSUME bytes' = bytes, meter' = meter
      PROVE  bytes' = SumFunction(Reserved')
  BY <1>4 DEF BudgetSound, Reserved
<1>5. CASE acc[t].overflowed
  <2>1. UNCHANGED <<acc, bytes, meter>>
    BY <1>5 DEF Push
  <2> QED BY <1>2, <1>4, <1>5, <2>1 DEF Taken
<1>6. CASE ~acc[t].overflowed /\ c = Endless
  <2>1. SetMeter(t, Truncate(b)) /\ acc' = [acc EXCEPT ![t].overflowed = TRUE]
    BY <1>6, EventsApart DEF Push
  <2> DEFINE d == Truncate(b)
  <2>2. Exchanges(b, d) /\ d.state # "full"
    BY <1>1, TruncateExchanges
  <2> HIDE DEF b, d
  <2>3. d \in View /\ d.bytes - d.reserved = bytes - meter[t].reserved
    BY <1>1, <2>2 DEF Exchanges
  <2>4. /\ bytes' \in Nat /\ bytes' = SumFunction(Reserved')
        /\ meter' \in [Turn -> [state : MeterStates, reserved : Nat]]
        /\ meter'[t].state = d.state /\ \A u \in Turn \ {t} : meter'[u] = meter[u]
    BY <2>1, <2>3, MeterMoves DEF d
  <2>5. /\ acc' \in [Turn -> [kept : Nat, usage : BOOLEAN, overflowed : BOOLEAN]]
        /\ acc'[t].usage = acc[t].usage /\ \A u \in Turn \ {t} : acc'[u] = acc[u]
    BY <1>2, <2>1
  <2>6. c # UsageEvent
    BY <1>6, EventsApart
  <2> QED BY <1>6, <2>2, <2>4, <2>5, <2>6 DEF Taken
<1>7. CASE ~acc[t].overflowed /\ c = UsageEvent
  <2>1. acc' = [acc EXCEPT ![t].usage = TRUE] /\ UNCHANGED <<bytes, meter>>
    BY <1>7, EventsApart DEF Push, PushUsage
  <2>2. /\ acc' \in [Turn -> [kept : Nat, usage : BOOLEAN, overflowed : BOOLEAN]]
        /\ acc'[t].usage = TRUE /\ acc'[t].kept = acc[t].kept
        /\ acc'[t].overflowed = acc[t].overflowed
        /\ \A u \in Turn \ {t} : acc'[u] = acc[u]
    BY <1>2, <2>1
  <2>3. TextOf(c) = 0
    BY <1>7, EventsApart DEF TextOf
  <2> QED BY <1>2, <1>3, <1>4, <1>7, <2>1, <2>2, <2>3 DEF Taken
<1>8. CASE ~acc[t].overflowed /\ c \in Text
  <2>1. /\ c # Endless /\ c # UsageEvent /\ c.type = "text"
        /\ TextOf(c) = c.size /\ c.size \in Nat
    BY <1>8, EventsApart DEF TextOf
  <2> DEFINE d == Offer(b, c.size, limits)
  <2> DEFINE took == Accepts(b, c.size, limits)
  <2>2. /\ SetMeter(t, d)
        /\ acc' = IF took THEN [acc EXCEPT ![t].kept = @ + c.size] ELSE acc
    BY <1>8, <2>1 DEF Push
  <2>3. /\ Exchanges(b, d) /\ (d.state = "full" <=> took) /\ (took => b.state = "full")
    <3> HIDE DEF b
    <3> QED BY <1>1, <1>2, <2>1, OfferExchanges
  <2> HIDE DEF b, d, took
  <2>4. d \in View /\ d.bytes - d.reserved = bytes - meter[t].reserved
    BY <1>1, <2>3 DEF Exchanges
  <2>5. /\ bytes' \in Nat /\ bytes' = SumFunction(Reserved')
        /\ meter' \in [Turn -> [state : MeterStates, reserved : Nat]]
        /\ meter'[t].state = d.state /\ \A u \in Turn \ {t} : meter'[u] = meter[u]
    BY <2>2, <2>4, MeterMoves
  <2> DEFINE n == acc[t].kept + c.size
  <2>6. n \in Nat
    BY <1>3, <2>1
  <2>7. acc' = IF took THEN [acc EXCEPT ![t].kept = n] ELSE acc
    BY <2>2
  <2> HIDE DEF n
  <2>8. /\ acc' \in [Turn -> [kept : Nat, usage : BOOLEAN, overflowed : BOOLEAN]]
        /\ acc'[t].usage = acc[t].usage /\ acc'[t].overflowed = acc[t].overflowed
        /\ took => acc'[t].kept = n
        /\ \A u \in Turn \ {t} : acc'[u] = acc[u]
    BY <1>2, <2>6, <2>7
  <2> QED BY <1>1, <1>8, <2>1, <2>3, <2>5, <2>8 DEF Taken, n
<1> QED BY <1>5, <1>6, <1>7, <1>8 DEF Event

LEMMA LogReadsSound ==
    ASSUME CaptureInv, NEW t \in Turn, LogReads(t)
    PROVE  CaptureInv'
<1> USE DEF CaptureInv
<1> DEFINE q == log[t].queue
<1> DEFINE c == Head(q)
<1>1. /\ task[t] = "reading" /\ q # <<>> /\ Push(t, c)
      /\ log' = [log EXCEPT ![t].queue = Tail(@)]
      /\ UNCHANGED <<limits, task, upstream, client, early, sent, record>>
  BY DEF LogReads
<1>2. /\ log \in [Turn -> Branch] /\ q \in Seq(Event)
      /\ acc[t].kept \in Nat /\ sent[t].text \in Nat
  BY DEF CaptureTypes, Branch
<1>3. /\ c \in Event /\ Tail(q) \in Seq(Event) /\ Range(q) = {c} \cup Range(Tail(q))
      /\ \A k \in Nat, n \in Nat : Balanced(k, q, n) => Balanced(k + TextOf(c), Tail(q), n)
  BY <1>1, <1>2, QueueTail
<1>4. Taken(t, c)
  BY <1>1, <1>3, PushSound
<1>5. /\ log' \in [Turn -> Branch]
      /\ log'[t].queue = Tail(q) /\ log'[t].cancelled = log[t].cancelled
      /\ log'[t].dropped = log[t].dropped
      /\ \A u \in Turn \ {t} : log'[u] = log[u]
  BY <1>1, <1>2, <1>3 DEF Branch
<1>6. TurnSound(t)
  OBVIOUS
<1> HIDE DEF c
<1>7. CaptureTypes'
  BY <1>1, <1>4, <1>5 DEF CaptureTypes, Branch, Taken
<1>8. \A u \in Turn \ {t} : Same(u)
  BY <1>1, <1>4, <1>5 DEF Same, Taken
<1>9. BudgetSound'
  <2>1. \A u \in Turn : task'[u] \in {"none", "over"} => meter'[u] = meter[u]
    BY <1>1, <1>8 DEF Same
  <2> QED BY <1>1, <1>4, <2>1 DEF BudgetSound, Taken
<1>10. ~log[t].cancelled /\ Ahead(t) = q /\ Ahead(t)' = Tail(q)
  <2>1. ~log[t].cancelled
    BY <1>1, <1>6 DEF TurnSound, BranchesSound
  <2>2. Ahead(t) = q /\ log[t].dropped = <<>>
    BY <1>2, <1>6, <2>1, AheadOf DEF TurnSound
  <2> QED BY <1>3, <1>5, <2>1, <2>2 DEF Ahead
<1>11. BranchesSound(t)'
  BY <1>1, <1>5, <1>6, <1>10 DEF TurnSound, BranchesSound, CutShort, EndFollowedOf
<1>12. AccSound(t)'
  <2>1. Whole(t)' => Whole(t)
    BY <1>1, <1>5 DEF Whole
  <2>2. ASSUME Whole(t)', (meter[t].state = "full")'
        PROVE  (~acc[t].overflowed /\ Balanced(acc[t].kept, Ahead(t), sent[t].text))'
    <3>1. ~acc[t].overflowed /\ Balanced(acc[t].kept, q, sent[t].text)
      BY <1>4, <1>6, <1>10, <2>1, <2>2 DEF TurnSound, AccSound, Taken
    <3>2. ~acc'[t].overflowed /\ acc'[t].kept = acc[t].kept + TextOf(c)
      BY <1>4, <2>2, <3>1 DEF Taken
    <3> QED BY <1>1, <1>2, <1>3, <1>10, <3>1, <3>2
  <2>3. ASSUME Whole(t)', ~sent'[t].endless
        PROVE  (sent[t].usage <=> acc[t].usage \/ UsageEvent \in Range(Ahead(t)))'
    <3>1. sent[t].usage <=> acc[t].usage \/ UsageEvent \in Range(q)
      BY <1>1, <1>6, <1>10, <2>1, <2>3 DEF TurnSound, AccSound
    <3>2. ~acc[t].overflowed
      BY <1>1, <1>6, <2>3 DEF TurnSound, AccSound
    <3>3. acc'[t].usage <=> acc[t].usage \/ c = UsageEvent
      BY <1>4, <3>2 DEF Taken
    <3> QED BY <1>1, <1>3, <1>10, <3>1, <3>3
  <2>4. (acc[t].overflowed => sent[t].endless)'
    <3>1. c = Endless => sent[t].endless
      BY <1>3, <1>6 DEF TurnSound, AccSound
    <3> QED BY <1>1, <1>4, <1>6, <3>1 DEF TurnSound, AccSound, Taken
  <2>5. (Endless \in Range(log[t].queue) => sent[t].endless)'
    BY <1>1, <1>3, <1>5, <1>6 DEF TurnSound, AccSound
  <2> QED BY <2>2, <2>3, <2>4, <2>5 DEF AccSound
<1>13. RecordSound(t)'
  BY <1>1, <1>5, <1>6 DEF TurnSound, RecordSound, FullSound, EndFollowedOf
<1> QED BY <1>7, <1>8, <1>9, <1>11, <1>12, <1>13, OthersSound DEF TurnSound

LEMMA LogDoneSound ==
    ASSUME CaptureInv, NEW t \in Turn, LogDone(t)
    PROVE  CaptureInv'
<1> USE DEF CaptureInv
<1> DEFINE r == [state |-> BodyState(t), text |-> IF meter[t].state = "shed" THEN 0 ELSE acc[t].kept,
                 usage |-> acc[t].usage, of |-> sent[t].text]
<1>1. /\ task[t] = "reading" /\ log[t].queue = <<>>
      /\ log[t].cancelled \/ upstream[t] \in {"ended", "cancelled"}
      /\ record' = [record EXCEPT ![t] = r]
      /\ task' = [task EXCEPT ![t] = "recording"]
      /\ UNCHANGED <<limits, bytes, meter, log, acc, upstream, client, early, sent>>
  BY DEF LogDone
<1>2. /\ r.state = BodyState(t) /\ r.usage = acc[t].usage /\ r.of = sent[t].text
      /\ r.text = IF meter[t].state = "shed" THEN 0 ELSE acc[t].kept
  OBVIOUS
<1> HIDE DEF r
<1>3. /\ record' = [u \in Turn |-> record'[u]] /\ record'[t] = r
      /\ \A u \in Turn \ {t} : record'[u] = record[u]
  <2>1. record = [u \in Turn |-> record[u]]
    BY DEF CaptureTypes, Branch
  <2> QED BY <1>1, <2>1
<1>4. CaptureTypes' /\ task'[t] = "recording" /\ \A u \in Turn \ {t} : Same(u)
  BY <1>1, <1>3 DEF CaptureTypes, Branch, Same
<1>5. BudgetSound'
  <2>1. \A u \in Turn : task'[u] \in {"none", "over"} => task[u] \in {"none", "over"}
    BY <1>4 DEF Same
  <2> QED BY <1>1, <2>1, BudgetStays
<1>6. TurnSound(t)
  OBVIOUS
<1>7. BranchesSound(t)'
  BY <1>1, <1>4, <1>6 DEF TurnSound, BranchesSound, CutShort, EndFollowedOf, Untouched
<1>8. AccSound(t)'
  BY <1>1, <1>4, <1>6 DEF TurnSound, AccSound, Ahead, Whole
<1>9. Ahead(t) = log[t].dropped
  <2>1. log[t] \in Branch
    BY DEF CaptureTypes
  <2>2. log[t].queue = <<>> /\ BranchesSound(t)
    BY <1>1, <1>6 DEF TurnSound
  <2> QED BY <2>1, <2>2, AheadOf
<1>10. FullSound(t)' \/ r.state # "full"
  <2> SUFFICES ASSUME r.state = "full" PROVE FullSound(t)'
    OBVIOUS
  <2>1. meter[t].state = "full" /\ ~CutShort(t)
    BY <1>2 DEF BodyState, CutShort
  <2>2. /\ log[t].cancelled => EndFollowedOf(t)
        /\ ~log[t].cancelled => log[t].dropped = <<>>
        /\ upstream[t] # "failed"
    BY <1>1, <1>6, <2>1 DEF TurnSound, BranchesSound, EndFollowedOf
  <2>3. Balanced(acc[t].kept, log[t].dropped, sent[t].text)
    BY <1>1, <1>6, <1>9, <2>1, <2>2 DEF TurnSound, AccSound, Whole
  <2>4. log[t].dropped \in Seq(Event) /\ acc[t].kept \in Nat /\ sent[t].text \in Nat
    BY DEF CaptureTypes, Branch
  <2>5. acc[t].kept + TextSize(log[t].dropped) = sent[t].text
    BY <2>3, <2>4, BalancedSum
  <2> QED BY <1>1, <1>2, <1>3, <2>1, <2>2, <2>5 DEF FullSound, EndFollowedOf
<1>11. RecordSound(t)'
  <2>1. r.state = "shed" => r.text = 0
    BY <1>2 DEF BodyState
  <2>2. upstream[t] \in {"none", "ended"} \/ log[t].cancelled
    BY <1>1, <1>6 DEF TurnSound, BranchesSound
  <2>3. ASSUME upstream[t] \notin {"none", "failed"}, ~sent[t].endless
        PROVE  sent[t].usage <=> r.usage \/ UsageEvent \in Range(log[t].dropped)
    BY <1>1, <1>2, <1>6, <1>9, <2>3 DEF TurnSound, AccSound, Whole
  <2> QED BY <1>1, <1>3, <1>4, <1>10, <2>1, <2>2, <2>3 DEF RecordSound
<1> QED BY <1>4, <1>5, <1>7, <1>8, <1>11, OthersSound DEF TurnSound

LEMMA TaskFailsSound ==
    ASSUME CaptureInv, NEW t \in Turn, TaskFails(t)
    PROVE  CaptureInv'
<1> USE DEF CaptureInv
<1>1. /\ task[t] \in {"hashing", "reading"} /\ task' = [task EXCEPT ![t] = "over"]
      /\ CancelLog(t) /\ ReleaseUpstream(t) /\ Dispose(t)
      /\ UNCHANGED <<limits, acc, client, early, sent, record>>
  BY DEF TaskFails
<1>2. /\ log' \in [Turn -> Branch]
      /\ log'[t].queue = <<>> /\ log'[t].cancelled
      /\ \A u \in Turn \ {t} : log'[u] = log[u]
  BY <1>1, CutOffLog
<1>3. /\ upstream' \in [Turn -> {"none", "flowing", "ended", "failed", "cancelled"}]
      /\ \/ upstream'[t] = upstream[t]
         \/ /\ upstream'[t] = "cancelled" /\ upstream[t] = "flowing"
            /\ client'[t] = "gone" /\ log'[t].cancelled
      /\ \A u \in Turn \ {t} : upstream'[u] = upstream[u]
  BY <1>1, ReleasedUpstream
<1>4. /\ bytes' \in Nat /\ meter' \in [Turn -> [state : MeterStates, reserved : Nat]]
      /\ bytes' = SumFunction(Reserved')
      /\ meter'[t].reserved = 0 /\ \A u \in Turn \ {t} : meter'[u] = meter[u]
  BY <1>1, DisposeMoves
<1>5. task'[t] = "over" /\ \A u \in Turn \ {t} : task'[u] = task[u]
  BY <1>1 DEF CaptureTypes, Branch
<1>6. CaptureTypes' /\ \A u \in Turn \ {t} : Same(u)
  BY <1>1, <1>2, <1>3, <1>4, <1>5 DEF CaptureTypes, Branch, Same
<1>7. BudgetSound'
  BY <1>4, <1>5 DEF BudgetSound
<1>8. TurnSound(t)
  OBVIOUS
<1>9. BranchesSound(t)'
  <2>1. upstream[t] # "none" /\ client[t] # "none"
    BY <1>1, <1>8 DEF TurnSound, BranchesSound, CutShort, EndFollowedOf
  <2> QED BY <1>1, <1>2, <1>3, <1>5, <1>8, <2>1 DEF TurnSound, BranchesSound, CutShort, EndFollowedOf
<1>10. AccSound(t)'
  <2>1. Range(<<>>) = {}
    BY DEF Range
  <2> QED BY <1>1, <1>2, <1>5, <1>8, <2>1 DEF TurnSound, AccSound, Ahead, Whole
<1>11. RecordSound(t)'
  BY <1>1, <1>5, <1>8 DEF TurnSound, RecordSound, FullSound, EndFollowedOf
<1> QED BY <1>6, <1>7, <1>9, <1>10, <1>11, OthersSound DEF TurnSound

LEMMA RecordedSound ==
    ASSUME CaptureInv, NEW t \in Turn, Recorded(t)
    PROVE  CaptureInv'
<1> USE DEF CaptureInv
<1>1. /\ task[t] = "recording" /\ task' = [task EXCEPT ![t] = "over"] /\ Dispose(t)
      /\ UNCHANGED <<limits, log, acc, upstream, client, early, sent, record>>
  BY DEF Recorded
<1>2. /\ bytes' \in Nat /\ meter' \in [Turn -> [state : MeterStates, reserved : Nat]]
      /\ bytes' = SumFunction(Reserved')
      /\ meter'[t].reserved = 0 /\ \A u \in Turn \ {t} : meter'[u] = meter[u]
  BY <1>1, DisposeMoves
<1>3. task'[t] = "over" /\ \A u \in Turn \ {t} : task'[u] = task[u]
  BY <1>1 DEF CaptureTypes, Branch
<1>4. CaptureTypes' /\ \A u \in Turn \ {t} : Same(u)
  BY <1>1, <1>2, <1>3 DEF CaptureTypes, Branch, Same
<1>5. BudgetSound'
  BY <1>2, <1>3 DEF BudgetSound
<1>6. TurnSound(t)
  OBVIOUS
<1>7. BranchesSound(t)'
  BY <1>1, <1>3, <1>6 DEF TurnSound, BranchesSound, CutShort, EndFollowedOf, Untouched
<1>8. AccSound(t)'
  BY <1>1, <1>3, <1>6 DEF TurnSound, AccSound, Ahead, Whole
<1>9. RecordSound(t)'
  BY <1>1, <1>3, <1>6 DEF TurnSound, RecordSound, FullSound, EndFollowedOf
<1> QED BY <1>4, <1>5, <1>7, <1>8, <1>9, OthersSound DEF TurnSound

------------------------------------------------------------------------------
(* A JSON body.                                                              *)

LEMMA SumOfSeq ==
    ASSUME NEW s \in Seq(Nat)
    PROVE  SumFunction(s) \in Nat
<1>1. Len(s) \in Nat /\ s \in [1..Len(s) -> Nat]
  OBVIOUS
<1>2. IsFiniteSet(1..Len(s))
  BY <1>1, FS_Interval
<1> QED BY <1>1, <1>2, SumNat

\* A bounded set of naturals has a greatest member.
LEMMA MaxNat ==
    ASSUME NEW S \in SUBSET Nat, S # {}, NEW b \in Nat, \A x \in S : x <= b
    PROVE  Max(S) \in S
<1> DEFINE B == {m \in Nat : \A x \in S : x <= m}
<1>1. PICK m \in B : \A n \in B : m <= n
  <2>1. B \in SUBSET Nat /\ b \in B
    OBVIOUS
  <2> HIDE DEF B
  <2> QED BY <2>1, LeastMember
<1>2. m \in Nat /\ \A x \in S : x <= m
  OBVIOUS
<1>3. m \in S
  <2> SUFFICES ASSUME m \notin S PROVE FALSE
    OBVIOUS
  <2>1. PICK y \in S : TRUE
    OBVIOUS
  <2>2. m > 0 /\ m - 1 \in Nat /\ \A x \in S : x <= m - 1
    BY <1>2, <2>1
  <2>3. m - 1 \in B
    BY <2>2
  <2> HIDE DEF B
  <2> QED BY <1>1, <1>2, <2>3
<1>4. \E x \in S : \A y \in S : x >= y
  BY <1>2, <1>3
<1> QED BY <1>4 DEF Max

LEMMA ArrayBytesNat ==
    ASSUME NEW s \in Seq(Nat)
    PROVE  ArrayBytes(s) \in Nat
<1>1. SumFunction(s) \in Nat /\ Len(s) \in Nat /\ (s # <<>> => Len(s) > 0)
  BY SumOfSeq
<1> QED BY <1>1 DEF ArrayBytes

LEMMA PlanSound ==
    ASSUME NEW sizes \in Seq(Nat), NEW n
    PROVE  LET plan == PlanContentCapture(sizes, n)
           IN /\ plan.stored \in Seq(Nat) /\ plan.truncated \in BOOLEAN
              /\ ~plan.truncated => plan.stored = sizes
<1> DEFINE k == Clipped(sizes, n)
<1>1. k \in 0..Len(sizes)
  <2> DEFINE S == {0} \cup {i \in DOMAIN sizes : 2 + i + SumFunction(SubSeq(sizes, 1, i)) <= n}
  <2>1. DOMAIN sizes = 1..Len(sizes) /\ Len(sizes) \in Nat
    OBVIOUS
  <2>2. S \in SUBSET (0..Len(sizes)) /\ S # {}
    BY <2>1
  <2>3. k = Max(S)
    BY DEF Clipped
  <2> HIDE DEF S
  <2>4. S \in SUBSET Nat /\ \A x \in S : x <= Len(sizes)
    BY <2>1, <2>2
  <2>5. Max(S) \in S
    BY <2>1, <2>2, <2>4, MaxNat
  <2> QED BY <2>2, <2>3, <2>5
<1> HIDE DEF k
<1>2. SubSeq(sizes, 1, k) \in Seq(Nat)
  BY <1>1
<1> QED BY <1>2 DEF PlanContentCapture, k

LEMMA CaptureBodySound ==
    ASSUME CaptureInv, NEW t \in Turn, CaptureBody(t)
    PROVE  CaptureInv'
<1> USE DEF CaptureInv
<1>1. task[t] = "none" /\ task' = [task EXCEPT ![t] = "recording"]
      /\ UNCHANGED <<log, acc, upstream, client, early, sent>>
  BY DEF CaptureBody
<1>2. PICK l \in Limits, sizes \in Bodies :
          LET new == NewMeter(l)
              plan == PlanContentCapture(sizes, l.maxTurn)
              cost == ArrayBytes(plan.stored)
              offered == IF new.state = "shed" THEN new ELSE Offer(new, cost, l)
              kept == new.state # "shed" /\ Accepts(new, cost, l)
              final == IF kept /\ plan.truncated THEN Truncate(offered) ELSE offered
          IN /\ Configure(l)
             /\ SetMeter(t, final)
             /\ record' = [record EXCEPT ![t] =
                   [state |-> final.state, text |-> IF kept THEN SumFunction(plan.stored) ELSE 0,
                    usage |-> TRUE, of |-> SumFunction(sizes)]]
  BY DEF CaptureBody
<1> DEFINE new == NewMeter(l)
<1> DEFINE plan == PlanContentCapture(sizes, l.maxTurn)
<1> DEFINE cost == ArrayBytes(plan.stored)
<1> DEFINE offered == IF new.state = "shed" THEN new ELSE Offer(new, cost, l)
<1> DEFINE kept == new.state # "shed" /\ Accepts(new, cost, l)
<1> DEFINE final == IF kept /\ plan.truncated THEN Truncate(offered) ELSE offered
<1> DEFINE r == [state |-> final.state, text |-> IF kept THEN SumFunction(plan.stored) ELSE 0,
                 usage |-> TRUE, of |-> SumFunction(sizes)]
<1>3. Configure(l) /\ SetMeter(t, final) /\ record' = [record EXCEPT ![t] = r]
  BY <1>2
<1>4. /\ r.state = final.state /\ r.text = IF kept THEN SumFunction(plan.stored) ELSE 0
      /\ r.of = SumFunction(sizes)
  OBVIOUS
<1> HIDE DEF r
<1>5. /\ new \in View /\ new.bytes = bytes /\ new.reserved = 0 /\ new.state \in {"full", "shed"}
      /\ new.bytes - new.reserved = bytes - meter[t].reserved
  BY <1>1, NewMeterSound
<1>6. bytes \in Nat /\ new.reserved <= new.bytes
  BY <1>5 DEF CaptureTypes, Branch
<1>7. /\ plan.stored \in Seq(Nat) /\ (~plan.truncated => plan.stored = sizes)
      /\ plan.truncated \in BOOLEAN
  BY CaptureAssumption, PlanSound
<1>8. cost \in Nat
  <2> HIDE DEF plan
  <2> QED BY <1>7, ArrayBytesNat
<1> HIDE DEF new, plan, cost
<1>9. /\ Exchanges(new, offered)
      /\ offered.state = "full" => kept
      /\ kept => offered.state = "full"
      /\ offered.state = "shed" => ~kept
  <2>1. CASE new.state = "shed"
    BY <2>1 DEF Exchanges
  <2>2. CASE new.state # "shed"
    <3>1. /\ Exchanges(new, Offer(new, cost, l))
          /\ Offer(new, cost, l).state = "full" <=> Accepts(new, cost, l)
      BY <1>5, <1>6, <1>8, OfferExchanges
    <3> QED BY <2>2, <3>1
  <2> QED BY <2>1, <2>2
<1> HIDE DEF offered, kept
<1>10. offered \in View
  BY <1>5, <1>9 DEF Exchanges
<1>11. /\ Exchanges(new, final)
       /\ final.state = "full" => kept /\ ~plan.truncated
       /\ final.state = "shed" => ~kept
  <2>1. CASE kept /\ plan.truncated
    <3>1. /\ Exchanges(offered, Truncate(offered)) /\ Truncate(offered).state = "truncated"
      BY <1>9, <1>10, <2>1, TruncateExchanges
    <3>2. Exchanges(new, Truncate(offered))
      BY <1>9, <3>1 DEF Exchanges
    <3> QED BY <2>1, <3>1, <3>2
  <2>2. CASE ~(kept /\ plan.truncated)
    BY <1>9, <2>2
  <2> QED BY <2>1, <2>2
<1> HIDE DEF final
<1>12. final \in View /\ final.bytes - final.reserved = bytes - meter[t].reserved
  BY <1>5, <1>11 DEF Exchanges
<1>13. /\ bytes' \in Nat
       /\ meter' \in [Turn -> [state : MeterStates, reserved : Nat]]
       /\ bytes' = SumFunction(Reserved')
       /\ \A u \in Turn \ {t} : meter'[u] = meter[u]
  BY <1>3, <1>12, MeterMoves
<1>14. /\ record' = [u \in Turn |-> record'[u]] /\ record'[t] = r
       /\ \A u \in Turn \ {t} : record'[u] = record[u]
  <2>1. record = [u \in Turn |-> record[u]]
    BY DEF CaptureTypes, Branch
  <2> QED BY <1>3, <2>1
<1>15. CaptureTypes'
  BY <1>1, <1>3, <1>13, <1>14 DEF CaptureTypes, Branch, Configure
<1>16. task'[t] = "recording" /\ \A u \in Turn \ {t} : Same(u)
  BY <1>1, <1>13, <1>14 DEF CaptureTypes, Branch, Same
<1>17. BudgetSound'
  BY <1>13, <1>16 DEF BudgetSound, Same
<1>18. upstream[t] = "none" /\ Untouched(t)
  BY <1>1 DEF TurnSound, BranchesSound, CutShort, EndFollowedOf
<1>19. BranchesSound(t)'
  BY <1>1, <1>16, <1>18 DEF BranchesSound, CutShort, EndFollowedOf, Untouched
<1>20. AccSound(t)'
  <2>1. Range(<<>>) = {}
    BY DEF Range
  <2> QED BY <1>1, <1>16, <1>18, <2>1 DEF AccSound, Untouched, Whole
<1>21. RecordSound(t)'
  <2>1. r.state = "full" => r.text = r.of
    BY <1>4, <1>7, <1>11
  <2>2. r.state = "shed" => r.text = 0
    BY <1>4, <1>11
  <2>3. /\ record'[t].text + TextSize(<<>>) = record'[t].of \/ r.state # "full"
        /\ log'[t].dropped = <<>> /\ log'[t].queue = <<>>
    <3>1. r.of \in Nat
      BY <1>4, CaptureAssumption, SumOfSeq
    <3> QED BY <1>1, <1>14, <1>18, <2>1, <3>1, EmptyText DEF Untouched
  <2> QED BY <1>1, <1>14, <1>16, <1>18, <2>1, <2>2, <2>3 DEF RecordSound, FullSound
<1> QED BY <1>15, <1>16, <1>17, <1>19, <1>20, <1>21, OthersSound DEF TurnSound

------------------------------------------------------------------------------

LEMMA CaptureInitSound == CaptureInit => CaptureInv
<1> SUFFICES ASSUME CaptureInit PROVE CaptureInv
  OBVIOUS
<1> USE DEF CaptureInit
<1>1. CaptureTypes
  BY DEF CaptureTypes, Branch, MeterStates
<1>2. BudgetSound
  <2>1. Reserved \in [Turn -> {0}]
    BY DEF Reserved
  <2> QED BY <2>1, TurnFinite, SumZero DEF BudgetSound
<1>3. ASSUME NEW t \in Turn PROVE TurnSound(t)
  <2>1. Range(<<>>) = {}
    BY DEF Range
  <2>2. log[t] = [queue |-> <<>>, cancelled |-> FALSE, dropped |-> <<>>]
    OBVIOUS
  <2>3. BranchesSound(t)
    BY <2>2 DEF BranchesSound, CutShort, EndFollowedOf, Untouched
  <2>4. AccSound(t)
    BY <2>1, <2>2 DEF AccSound, Ahead, Whole
  <2>5. RecordSound(t)
    BY DEF RecordSound, FullSound, EndFollowedOf
  <2> QED BY <2>3, <2>4, <2>5 DEF TurnSound
<1> QED BY <1>1, <1>2, <1>3 DEF CaptureInv

LEMMA CaptureStepSound == CaptureInv /\ [CaptureNext]_captureVars => CaptureInv'
<1> SUFFICES ASSUME CaptureInv, [CaptureNext]_captureVars PROVE CaptureInv'
  OBVIOUS
<1>1. CASE CaptureNext
  <2>1. PICK t \in Turn :
          \/ BeginStream(t) \/ CaptureBody(t)
          \/ Chunk(t) \/ UpstreamEnds(t) \/ UpstreamFails(t)
          \/ ClientEnds(t) \/ ClientGoes(t) \/ Cut(t)
          \/ Task(t)
    BY <1>1 DEF CaptureNext
  <2>2. CASE BeginStream(t) \/ CaptureBody(t)
    BY <2>2, BeginStreamSound, CaptureBodySound
  <2>3. CASE Chunk(t) \/ UpstreamEnds(t) \/ UpstreamFails(t)
    BY <2>3, ChunkSound, UpstreamEndsSound, UpstreamFailsSound
  <2>4. CASE ClientEnds(t) \/ ClientGoes(t) \/ Cut(t)
    BY <2>4, ClientEndsSound, ClientGoesSound, CutStepSound
  <2>5. CASE Task(t)
    BY <2>5, HashedSound, LogReadsSound, LogDoneSound, TaskFailsSound, RecordedSound DEF Task
  <2> QED BY <2>1, <2>2, <2>3, <2>4, <2>5
<1>2. CASE UNCHANGED captureVars
  <2>1. UNCHANGED <<limits, bytes, meter, task, log, acc, upstream, client, early, sent, record>>
    BY <1>2 DEF captureVars
  <2>2. CaptureTypes' /\ BudgetSound'
    BY <2>1 DEF CaptureInv, CaptureTypes, BudgetSound, Reserved
  <2>3. ASSUME NEW t \in Turn PROVE TurnSound(t)'
    <3>1. TurnSound(t)
      BY DEF CaptureInv
    <3> QED BY <2>1, <3>1
            DEF TurnSound, BranchesSound, CutShort, EndFollowedOf, Untouched, AccSound, Ahead, Whole,
                RecordSound, FullSound
  <2> QED BY <2>2, <2>3 DEF CaptureInv
<1> QED BY <1>1, <1>2

\* The invariant of the captures, under every order of upstream, client, timeout
\* and task (logging/capture.ts: captureTurn()).
THEOREM CaptureInvariant == CaptureSpec => []CaptureInv
BY CaptureInitSound, CaptureStepSound, PTL DEF CaptureSpec

\* The bytes in flight are exactly those of the running captures, and a capture that
\* is over has given back what it took (CaptureBudget, BodyCapture.dispose()).
THEOREM CaptureBudgetExact == CaptureSpec => []BudgetExact
<1>1. CaptureInv => BudgetExact
  BY DEF CaptureInv, BudgetSound, BudgetExact, Reserved
<1> QED BY <1>1, CaptureInvariant, PTL

\* A record says of its body what is true of it, in every order of upstream, client,
\* cut and task (captureTurn(), BodyCapture.content()): a full one lacks exactly what
\* was dropped because its client had come to the end of the stream first.
THEOREM CaptureRecordHonest == CaptureSpec => []RecordHonest
<1>1. CaptureInv => RecordHonest
  BY DEF CaptureInv, TurnSound, RecordSound, FullSound, EndFollowedOf, RecordHonest
<1> QED BY <1>1, CaptureInvariant, PTL
==============================================================================
