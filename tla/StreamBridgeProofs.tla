--------------------------- MODULE StreamBridgeProofs ---------------------------
(***************************************************************************)
(* Proofs about StreamBridge, for any number of frames and timer events and  *)
(* any tool-call indices: what the client is sent is a Messages stream, a    *)
(* finished one is the whole answer, and a failed one has told its usage.     *)
(*                                                                         *)
(* The grammar of AnthropicStream knows what was sent, the bridge what it     *)
(* believes to have open; the invariant is that the two agree as long as the  *)
(* stream is not closed.  Once it is, nothing is sent and nothing is claimed  *)
(* of the bridge but its types.                                              *)
(***************************************************************************)
EXTENDS StreamBridge, SequenceTheorems, WellFoundedInduction, TLAPS

------------------------------------------------------------------------------
(* The invariant.                                                            *)

Index == Nat \cup {None}
BlockKinds == {"thinking", "text", "tool_use"}

View == [
    begun : BOOLEAN, open : SUBSET Nat, next : Nat, rank : 0..3, args : Nat,
    usage : Nat, closing : BOOLEAN, end : {"none", "stop", "error"}, legal : BOOLEAN]

Call == [tool : Tool, block : Index, pending : Nat]

Bridge == [
    sent : View, started : BOOLEAN, closed : BOOLEAN, nextIndex : Nat,
    openBlock : Index, pingTimer : BOOLEAN, usageTimer : BOOLEAN,
    running : Nat, reported : BOOLEAN, emitted : Index,
    tokens : Nat, chars : Nat, args : Nat,
    blockIndex : [0..MaxFrames -> Index],
    thinking : Index, text : Index, tools : Seq(Call), finished : BOOLEAN]

\* What was sent is a stream under way.
Speaking(w) == w.legal /\ w.end = "none" /\ ~w.closing

\* The emitter knows what it has sent.
EmitterSound(b) ==
    /\ Speaking(b.sent)
    /\ b.sent.begun = b.started
    /\ b.sent.next = b.nextIndex
    /\ b.openBlock \in b.sent.open \cup {None}
    /\ \A i \in b.sent.open : i < b.nextIndex
    /\ b.sent.open # {} \/ b.pingTimer => b.started
    /\ b.sent.usage = IF b.emitted = None THEN 0 ELSE b.emitted
    /\ ~b.reported => b.running = 0 /\ b.emitted = None

\* The Converse bridge has at most one block open, the one the source stands in.
ConverseSound(b, src) ==
    /\ b.sent.args = b.args
    /\ b.openBlock # None <=> src.at = "block"
    /\ b.sent.open = {b.openBlock} \ {None}
    /\ b.blockIndex = [n \in 0..MaxFrames |-> IF n = src.block THEN b.openBlock ELSE None]

\* p[n]: the arguments that the first n calls hold back.
HeldBack(calls, p) ==
    /\ p[0] = 0
    /\ \A n \in 1..Len(calls) : p[n] = p[n - 1] + calls[n].pending

\* The calls of the OpenAI bridge after the first n: no two share a block, one that
\* has a block holds nothing back, and but for k fragments in hand what was received
\* is sent or held back.
CallsSound(b, n, k) ==
    /\ \A i, j \in (n + 1)..Len(b.tools) :
          i # j /\ b.tools[j].block # None => b.tools[i].block # b.tools[j].block
    /\ \A i \in 1..Len(b.tools) : b.tools[i].block # None => b.tools[i].pending = 0
    /\ \E p \in [0..Len(b.tools) -> Int] :
          HeldBack(b.tools, p) /\ b.sent.args + (p[Len(b.tools)] - p[n]) + k = b.args
CallBlocks(calls, n) == {calls[i].block : i \in (n + 1)..Len(calls)}

\* Its blocks are the open ones and each kind comes after those before it.
OpenAiSound(b) ==
    /\ b.sent.open = ({b.thinking, b.text} \cup CallBlocks(b.tools, 0)) \ {None}
    /\ b.text # None => b.thinking = None
    /\ b.tools # <<>> => b.thinking = None /\ b.text = None
    /\ b.tools = <<>> => b.sent.rank <= IF b.text = None THEN 1 ELSE 2
    /\ CallsSound(b, 0, 0)

\* The tee starts nothing of its own.
NativeSound(b) == b.sent.legal /\ b.sent.end = "none" /\ ~b.started

BridgeSound(b, src) ==
    CASE path = "converse" -> EmitterSound(b) /\ ConverseSound(b, src)
      [] path = "openai" -> EmitterSound(b) /\ OpenAiSound(b)
      [] path = "native" -> NativeSound(b)

\* A closed stream was legal to its end; a finished one had nothing held back.
ClosedSound ==
    /\ s.sent.legal
    /\ path = "native" => ~s.started
    /\ s.sent.end = "stop" =>
          /\ pc = "over"
          /\ path # "native" => s.sent.args = s.args
          /\ client = "here" => upstream = "ended"

StreamTypes ==
    /\ path \in {"converse", "openai", "native"}
    /\ pc \in {"reading", "cancelling", "over"}
    /\ read \in {"pending", "value", "done", "error"}
    /\ upstream \in {"flowing", "ended", "failed", "cancelled"}
    /\ source \in [at : {"start", "between", "block", "stopped", "done"},
                   block : Nat, kind : BlockKinds]
    /\ client \in {"here", "gone"}
    /\ s \in Bridge
    /\ frames \in 0..MaxFrames

\* A block of the source took a frame that was read.
SourceBounded ==
    /\ source.block <= frames
    /\ read = "value" => source.block < frames

PumpSound ==
    /\ read = "done" /\ client = "here" => upstream = "ended"
    /\ client = "gone" \/ pc = "over" => s.closed
    /\ pc = "cancelling" => s.started /\ path # "native"

StreamInv ==
    /\ StreamTypes /\ SourceBounded /\ PumpSound
    /\ IF s.closed THEN ClosedSound ELSE BridgeSound(s, source)

------------------------------------------------------------------------------
(* The grammar: what a stream under way becomes by each event that may follow. *)

LEMMA KindRanks ==
    KindRank("thinking") = 1 /\ KindRank("text") = 2 /\ KindRank("tool_use") = 3
<1>1. DOMAIN Kinds = 1..3 /\ Kinds[1] = "thinking" /\ Kinds[2] = "text" /\ Kinds[3] = "tool_use"
  BY DEF Kinds
<1> HIDE DEF Kinds
<1>2. \A kind : \A n \in 1..3 :
         Kinds[n] = kind /\ (\A m \in 1..3 : Kinds[m] = kind => m = n) => KindRank(kind) = n
  BY <1>1 DEF KindRank
<1> QED BY <1>1, <1>2

LEMMA AfterMessageStart ==
    ASSUME NEW w \in View, Speaking(w), ~w.begun, NEW o \in BOOLEAN
    PROVE  After(w, MessageStart, o) = [w EXCEPT !.begun = TRUE]
<1>1. Legal(w, MessageStart, o) = TRUE
  BY DEF Legal, MessageStart, Speaking
<1>2. [w EXCEPT !.legal = TRUE] = w
  BY DEF View, Speaking
<1> QED BY <1>1, <1>2 DEF After, MessageStart

LEMMA AfterPing ==
    ASSUME NEW w \in View, Speaking(w), w.begun, NEW o \in BOOLEAN
    PROVE  After(w, Ping, o) = w
<1>1. Legal(w, Ping, o) = TRUE
  BY DEF Legal, Ping, Speaking
<1>2. [w EXCEPT !.legal = TRUE] = w
  BY DEF View, Speaking
<1> QED BY <1>1, <1>2 DEF After, Ping

LEMMA AfterBlockStart ==
    ASSUME NEW w \in View, Speaking(w), w.begun, NEW o \in BOOLEAN, NEW kind,
           o => w.rank <= KindRank(kind)
    PROVE  After(w, BlockStart(w.next, kind), o)
              = [w EXCEPT !.open = @ \cup {w.next}, !.next = @ + 1, !.rank = KindRank(kind)]
<1> DEFINE e == BlockStart(w.next, kind)
<1>0. e.type = "block_start" /\ e.index = w.next /\ e.kind = kind
  BY DEF BlockStart
<1> HIDE DEF e
<1>1. Legal(w, e, o) = TRUE
  BY <1>0 DEF Legal, Speaking
<1>2. [w EXCEPT !.legal = TRUE] = w
  BY DEF View, Speaking
<1>3. After(w, e, o) = [w EXCEPT !.open = @ \cup {w.next}, !.next = @ + 1, !.rank = KindRank(kind)]
  BY <1>0, <1>1, <1>2 DEF After
<1> QED BY <1>3 DEF e

LEMMA AfterDelta ==
    ASSUME NEW w \in View, Speaking(w), w.begun, NEW o \in BOOLEAN,
           NEW i \in w.open, NEW size \in Nat, NEW m, m = w.args + size
    PROVE  After(w, Delta(i, size), o) = [w EXCEPT !.args = m]
<1>1. Legal(w, Delta(i, size), o) = TRUE
  BY DEF Legal, Delta, Speaking
<1>2. [w EXCEPT !.legal = TRUE] = w
  BY DEF View, Speaking
<1> QED BY <1>1, <1>2 DEF After, Delta

LEMMA AfterBlockStop ==
    ASSUME NEW w \in View, Speaking(w), w.begun, NEW o \in BOOLEAN, NEW i \in w.open
    PROVE  After(w, BlockStop(i), o) = [w EXCEPT !.open = @ \ {i}]
<1>1. Legal(w, BlockStop(i), o) = TRUE
  BY DEF Legal, BlockStop, Speaking
<1>2. [w EXCEPT !.legal = TRUE] = w
  BY DEF View, Speaking
<1> QED BY <1>1, <1>2 DEF After, BlockStop

LEMMA AfterUsage ==
    ASSUME NEW w \in View, Speaking(w), w.begun, NEW o \in BOOLEAN, NEW n
    PROVE  After(w, Usage(n), o) = [w EXCEPT !.usage = n]
<1>1. Legal(w, Usage(n), o) = TRUE
  BY DEF Legal, Usage, Speaking
<1>2. [w EXCEPT !.legal = TRUE] = w
  BY DEF View, Speaking
<1> QED BY <1>1, <1>2 DEF After, Usage

LEMMA AfterError ==
    ASSUME NEW w \in View, Speaking(w), w.begun, NEW o \in BOOLEAN
    PROVE  After(w, Error, o) = [w EXCEPT !.end = "error"]
<1>1. Legal(w, Error, o) = TRUE
  BY DEF Legal, Error, Speaking
<1>2. [w EXCEPT !.legal = TRUE] = w
  BY DEF View, Speaking
<1> QED BY <1>1, <1>2 DEF After, Error

\* The two events that finish a message.
LEMMA AfterFinish ==
    ASSUME NEW w \in View, Speaking(w), w.begun, w.open = {}, NEW o \in BOOLEAN, NEW n \in Nat
    PROVE  After(After(w, MessageDelta(n), o), MessageStop, o)
              = [w EXCEPT !.usage = n, !.closing = TRUE, !.end = "stop"]
<1> DEFINE v == After(w, MessageDelta(n), o)
<1>1. Legal(w, MessageDelta(n), o) = TRUE
  BY DEF Legal, MessageDelta, Speaking
<1>2. [w EXCEPT !.legal = TRUE] = w
  BY DEF View, Speaking
<1>3. v = [w EXCEPT !.usage = n, !.closing = TRUE]
  BY <1>1, <1>2 DEF After, MessageDelta
<1> HIDE DEF v
<1>4. v \in View /\ v.legal /\ v.end = "none" /\ v.begun /\ v.closing
  BY <1>3 DEF View, Speaking
<1>5. Legal(v, MessageStop, o) = TRUE
  BY <1>4 DEF Legal, MessageStop
<1>6. [v EXCEPT !.legal = TRUE] = v
  BY <1>4 DEF View
<1>7. After(v, MessageStop, o) = [v EXCEPT !.end = "stop"]
  BY <1>5, <1>6 DEF After, MessageStop
<1>8. [v EXCEPT !.end = "stop"] = [w EXCEPT !.usage = n, !.closing = TRUE, !.end = "stop"]
  BY <1>3 DEF View
<1> QED BY <1>7, <1>8 DEF v

------------------------------------------------------------------------------
(* The emitter.                                                              *)

\* A bridge as the handlers find it, and as they leave it.
Fit(b) == b \in Bridge /\ (~b.closed => EmitterSound(b))

\* c is b but for what the blocks of the bridges do not depend on.
Keeps(b, c) ==
    /\ c.closed = b.closed /\ (b.closed => c.sent = b.sent) /\ (b.started => c.started)
    /\ c.sent.open = b.sent.open /\ c.sent.args = b.sent.args /\ c.sent.rank = b.sent.rank
    /\ c.args = b.args /\ c.openBlock = b.openBlock /\ c.blockIndex = b.blockIndex
    /\ c.thinking = b.thinking /\ c.text = b.text /\ c.tools = b.tools

LEMMA KeepsSound ==
    ASSUME NEW b, NEW c, Keeps(b, c), NEW src
    PROVE  /\ ConverseSound(b, src) => ConverseSound(c, src)
           /\ OpenAiSound(b) => OpenAiSound(c)
<1>1. ConverseSound(b, src) => ConverseSound(c, src)
  BY DEF Keeps, ConverseSound
<1>2. OpenAiSound(b) => OpenAiSound(c)
  BY DEF Keeps, OpenAiSound, CallsSound
<1> QED BY <1>1, <1>2

LEMMA WriteOpen ==
    ASSUME NEW b \in Bridge, ~b.closed, NEW e
    PROVE  Write(b, e) = [b EXCEPT !.sent = After(b.sent, e, path = "openai")]
BY DEF Write

LEMMA PingKeeps ==
    ASSUME NEW b, Fit(b), b.closed \/ b.started
    PROVE  Write(b, Ping) = b
<1>1. CASE b.closed
  BY <1>1 DEF Write
<1>2. CASE ~b.closed
  <2>1. After(b.sent, Ping, path = "openai") = b.sent
    <3>1. b.sent \in View /\ Speaking(b.sent) /\ b.sent.begun
      BY <1>2 DEF Fit, Bridge, EmitterSound
    <3>2. (path = "openai") \in BOOLEAN
      OBVIOUS
    <3> QED BY <3>1, <3>2, AfterPing
  <2>2. [b EXCEPT !.sent = b.sent] = b
    BY DEF Fit, Bridge
  <2> QED BY <1>2, <2>1, <2>2, WriteOpen DEF Fit
<1> QED BY <1>1, <1>2

LEMMA Starts ==
    ASSUME NEW b, Fit(b)
    PROVE  /\ Fit(Start(b)) /\ Keeps(b, Start(b)) /\ Start(b).started
           /\ b.started => Start(b) = b
<1>1. CASE b.started
  BY <1>1 DEF Start, Keeps
<1>2. CASE ~b.started /\ b.closed
  <2> DEFINE d == [b EXCEPT !.started = TRUE]
  <2>1. d.closed /\ d \in Bridge /\ d.started
    BY <1>2 DEF Fit, Bridge
  <2>2. Start(b) = d
    BY <1>2, <2>1 DEF Start, Write, StartTimers
  <2>3. Keeps(b, d)
    BY <1>2 DEF Fit, Bridge, Keeps
  <2> QED BY <1>2, <2>1, <2>2, <2>3 DEF Fit
<1>3. CASE ~b.started /\ ~b.closed
  <2> DEFINE v == [b.sent EXCEPT !.begun = TRUE]
             d == [b EXCEPT !.started = TRUE]
             f == [d EXCEPT !.sent = v]
             g == [f EXCEPT !.pingTimer = TRUE, !.usageTimer = TRUE]
  <2>1. b.sent \in View /\ Speaking(b.sent) /\ ~b.sent.begun
    BY <1>3 DEF Fit, Bridge, EmitterSound
  <2>2. v \in View /\ Speaking(v) /\ v.begun /\ v.next = b.sent.next /\ v.open = b.sent.open
           /\ v.args = b.sent.args /\ v.rank = b.sent.rank /\ v.usage = b.sent.usage
    BY <2>1 DEF View, Speaking
  <2>3. d \in Bridge /\ ~d.closed /\ d.sent = b.sent
    BY <1>3 DEF Fit, Bridge
  <2>4. After(d.sent, MessageStart, path = "openai") = v
    <3>1. (path = "openai") \in BOOLEAN
      OBVIOUS
    <3> QED BY <2>1, <2>3, <3>1, AfterMessageStart
  <2> HIDE DEF v
  <2>5. Write(d, MessageStart) = f
    <3> HIDE DEF d
    <3> QED BY <2>3, <2>4, WriteOpen
  <2>6. f \in Bridge /\ ~f.closed
    BY <1>3, <2>2 DEF Fit, Bridge
  <2>7. StartTimers(f) = g
    <3> HIDE DEF f
    <3> QED BY <2>6 DEF StartTimers
  <2>8. /\ g \in Bridge /\ ~g.closed /\ g.started /\ g.sent = v
        /\ g.nextIndex = b.nextIndex /\ g.openBlock = b.openBlock /\ g.emitted = b.emitted
        /\ g.reported = b.reported /\ g.running = b.running
    BY <1>3, <2>2 DEF Fit, Bridge
  <2>9. Keeps(b, g)
    BY <1>3, <2>2 DEF Fit, Bridge, Keeps
  <2>10. Start(b) = Write(g, Ping)
    <3> HIDE DEF f, g
    <3> QED BY <1>3, <2>5, <2>7 DEF Start
  <2> HIDE DEF g
  <2>11. Fit(g)
    BY <1>3, <2>2, <2>8 DEF Fit, EmitterSound
  <2> QED BY <1>3, <2>8, <2>9, <2>10, <2>11, PingKeeps
<1> QED BY <1>1, <1>2, <1>3

LEMMA OpensBlock ==
    ASSUME NEW b, Fit(b), NEW kind \in BlockKinds, ~b.closed => b.started,
           ~b.closed /\ path = "openai" => b.sent.rank <= KindRank(kind)
    PROVE  LET c == OpenBlock(b, kind)
           IN /\ Fit(c)
              /\ c = [b EXCEPT
                         !.nextIndex = b.nextIndex + 1, !.openBlock = b.nextIndex,
                         !.sent = IF b.closed THEN b.sent
                                  ELSE [b.sent EXCEPT !.open = @ \cup {b.nextIndex},
                                                      !.next = @ + 1,
                                                      !.rank = KindRank(kind)]]
<1> DEFINE n == b.nextIndex + 1
           d == [b EXCEPT !.nextIndex = n, !.openBlock = b.nextIndex]
<1>0. b.nextIndex \in Nat /\ n \in Nat /\ b \in Bridge
  BY DEF Fit, Bridge
<1> HIDE DEF n
<1>1. d \in Bridge /\ d.closed = b.closed /\ d.sent = b.sent
  BY <1>0 DEF Bridge, Index
<1>2. OpenBlock(b, kind) = Write(d, BlockStart(b.nextIndex, kind))
  BY DEF OpenBlock, n
<1>3. CASE b.closed
  <2>1. OpenBlock(b, kind) = d
    <3> HIDE DEF d
    <3> QED BY <1>1, <1>2, <1>3 DEF Write
  <2>2. d = [b EXCEPT !.nextIndex = n, !.openBlock = b.nextIndex, !.sent = b.sent]
    BY <1>0 DEF Bridge
  <2> QED BY <1>1, <1>3, <2>1, <2>2 DEF Fit, n
<1>4. CASE ~b.closed
  <2> DEFINE o == b.sent.open \cup {b.nextIndex}
             r == KindRank(kind)
             v == [b.sent EXCEPT !.open = o, !.next = n, !.rank = r]
             c == [b EXCEPT !.nextIndex = n, !.openBlock = b.nextIndex, !.sent = v]
  <2>1. /\ b.sent \in View /\ Speaking(b.sent) /\ b.sent.begun /\ b.sent.next = b.nextIndex
        /\ b.nextIndex \in Nat /\ b.started
    BY <1>4 DEF Fit, Bridge, EmitterSound
  <2>2. (path = "openai") \in BOOLEAN
    OBVIOUS
  <2>3. After(b.sent, BlockStart(b.sent.next, kind), path = "openai")
          = [b.sent EXCEPT !.open = @ \cup {b.sent.next}, !.next = @ + 1, !.rank = KindRank(kind)]
    BY <1>4, <2>1, <2>2, AfterBlockStart
  <2>4. After(d.sent, BlockStart(b.nextIndex, kind), path = "openai") = v
    BY <1>1, <2>1, <2>3 DEF n
  <2>5. r \in 0..3 /\ o \in SUBSET Nat
    BY <2>1, KindRanks DEF BlockKinds, View
  <2> HIDE DEF o, r
  <2>6. v \in View /\ Speaking(v) /\ v.begun /\ v.open = o /\ v.next = n /\ v.usage = b.sent.usage
    BY <1>0, <2>1, <2>5 DEF View, Speaking
  <2> HIDE DEF v
  <2>7. Write(d, BlockStart(b.nextIndex, kind)) = [d EXCEPT !.sent = v]
    <3> HIDE DEF d
    <3> QED BY <1>1, <1>4, <2>4, WriteOpen
  <2>8. [d EXCEPT !.sent = v] = c
    BY DEF Fit, Bridge
  <2>9. c \in Bridge
    BY <1>0, <2>6 DEF Bridge, Index
  <2>10. /\ c.sent = v /\ c.started = b.started /\ c.nextIndex = n
         /\ c.openBlock = b.nextIndex /\ c.emitted = b.emitted /\ c.reported = b.reported
         /\ c.running = b.running
    BY <1>0 DEF Bridge
  <2> HIDE DEF c
  <2>12. c.openBlock \in o /\ \A i \in o : i < n
    BY <1>0, <1>4, <2>1, <2>10 DEF Fit, EmitterSound, Bridge, View, o, n
  <2>13. Fit(c)
    BY <1>4, <2>1, <2>6, <2>9, <2>10, <2>12 DEF Fit, EmitterSound
  <2>11. OpenBlock(b, kind) = c
    <3> HIDE DEF d
    <3> QED BY <1>2, <2>7, <2>8
  <2> QED BY <1>4, <2>11, <2>13, <2>1 DEF c, v, o, r, n
<1> QED BY <1>3, <1>4

\* Deltas of a block; a closed stream drops them.
LEMMA WritesDelta ==
    ASSUME NEW b, Fit(b), NEW i, ~b.closed => i \in b.sent.open, NEW size \in Nat
    PROVE  LET c == Write(b, Delta(i, size))
           IN /\ Fit(c)
              /\ c = [b EXCEPT !.sent = IF b.closed THEN b.sent
                                        ELSE [b.sent EXCEPT !.args = b.sent.args + size]]
<1>1. CASE b.closed
  <2>1. b = [b EXCEPT !.sent = b.sent]
    BY DEF Fit, Bridge
  <2> QED BY <1>1, <2>1 DEF Write
<1>2. CASE ~b.closed
  <2> DEFINE m == b.sent.args + size
             v == [b.sent EXCEPT !.args = m]
             c == [b EXCEPT !.sent = v]
  <2>1. b.sent \in View /\ Speaking(b.sent) /\ b.sent.begun /\ i \in b.sent.open /\ b \in Bridge
    BY <1>2 DEF Fit, Bridge, EmitterSound
  <2>2. (path = "openai") \in BOOLEAN
    OBVIOUS
  <2>3. After(b.sent, Delta(i, size), path = "openai") = v
    <3>1. m = b.sent.args + size /\ size \in Nat
      OBVIOUS
    <3> HIDE DEF m
    <3>2. \A o \in BOOLEAN : After(b.sent, Delta(i, size), o) = [b.sent EXCEPT !.args = m]
      BY <2>1, <3>1, AfterDelta
    <3> QED BY <2>2, <3>2
  <2>8. m \in Nat
    BY <2>1 DEF View
  <2> HIDE DEF m
  <2>4. /\ v \in View /\ Speaking(v) /\ v.begun /\ v.open = b.sent.open
        /\ v.next = b.sent.next /\ v.usage = b.sent.usage
    BY <2>1, <2>8 DEF View, Speaking
  <2> HIDE DEF v
  <2>5. Write(b, Delta(i, size)) = c
    BY <1>2, <2>1, <2>3, WriteOpen
  <2>6. /\ c \in Bridge /\ c.sent = v /\ c.started = b.started /\ c.nextIndex = b.nextIndex
        /\ c.openBlock = b.openBlock /\ c.emitted = b.emitted /\ c.reported = b.reported
        /\ c.running = b.running /\ c.pingTimer = b.pingTimer
    BY <2>1, <2>4 DEF Bridge
  <2> HIDE DEF c
  <2>7. Fit(c)
    BY <1>2, <2>4, <2>6 DEF Fit, EmitterSound
  <2> QED BY <1>2, <2>5, <2>7 DEF c, v, m
<1> QED BY <1>1, <1>2

LEMMA StopsBlock ==
    ASSUME NEW b, Fit(b), NEW i, ~b.closed => i \in b.sent.open
    PROVE  LET c == StopBlock(b, i)
           IN /\ Fit(c)
              /\ c = [b EXCEPT
                         !.openBlock = IF b.openBlock = i THEN None ELSE b.openBlock,
                         !.sent = IF b.closed THEN b.sent
                                  ELSE [b.sent EXCEPT !.open = @ \ {i}]]
<1> DEFINE k == IF b.openBlock = i THEN None ELSE b.openBlock
<1>1. k \in Index /\ (k = None \/ (k = b.openBlock /\ k # i))
  <2>1. b.openBlock \in Index /\ None \in Index
    BY DEF Fit, Bridge, Index
  <2> QED BY <2>1
<1>2. StopBlock(b, i) = [Write(b, BlockStop(i)) EXCEPT !.openBlock = IF @ = i THEN None ELSE @]
  BY DEF StopBlock
<1>3. CASE b.closed
  <2>1. Write(b, BlockStop(i)) = b
    BY <1>3 DEF Write
  <2>2. StopBlock(b, i) = [b EXCEPT !.openBlock = k]
    BY <1>2, <2>1
  <2> HIDE DEF k
  <2>3. /\ [b EXCEPT !.openBlock = k] = [b EXCEPT !.openBlock = k, !.sent = b.sent]
        /\ [b EXCEPT !.openBlock = k] \in Bridge /\ [b EXCEPT !.openBlock = k].closed
    BY <1>1, <1>3 DEF Fit, Bridge, Index
  <2> QED BY <1>3, <2>2, <2>3 DEF k, Fit
<1>4. CASE ~b.closed
  <2> DEFINE v == [b.sent EXCEPT !.open = @ \ {i}]
             d == [b EXCEPT !.sent = v]
             c == [b EXCEPT !.openBlock = k, !.sent = v]
  <2>1. b.sent \in View /\ Speaking(b.sent) /\ b.sent.begun /\ i \in b.sent.open /\ b \in Bridge
    BY <1>4 DEF Fit, Bridge, EmitterSound
  <2>2. (path = "openai") \in BOOLEAN
    OBVIOUS
  <2>3. After(b.sent, BlockStop(i), path = "openai") = v
    BY <2>1, <2>2, AfterBlockStop
  <2>4. /\ v \in View /\ Speaking(v) /\ v.begun /\ v.open = b.sent.open \ {i}
        /\ v.next = b.sent.next /\ v.usage = b.sent.usage
    BY <2>1 DEF View, Speaking
  <2> HIDE DEF v
  <2>5. Write(b, BlockStop(i)) = d
    BY <1>4, <2>1, <2>3, WriteOpen
  <2>6. d.openBlock = b.openBlock
    BY <2>1 DEF Bridge
  <2>7. StopBlock(b, i) = [d EXCEPT !.openBlock = k]
    <3> HIDE DEF d
    <3> QED BY <1>2, <2>5, <2>6
  <2> HIDE DEF k
  <2>8. [d EXCEPT !.openBlock = k] = c
    BY <2>1 DEF Bridge
  <2>9. /\ c \in Bridge /\ c.sent = v /\ c.started = b.started /\ c.nextIndex = b.nextIndex
        /\ c.openBlock = k /\ c.emitted = b.emitted /\ c.reported = b.reported
        /\ c.running = b.running /\ c.pingTimer = b.pingTimer
    BY <1>1, <2>1, <2>4 DEF Bridge
  <2> HIDE DEF c
  <2>10. k \in v.open \cup {None}
    BY <1>1, <1>4, <2>4 DEF k, Fit, EmitterSound
  <2>11. Fit(c)
    BY <1>4, <2>1, <2>4, <2>9, <2>10 DEF Fit, EmitterSound
  <2>12. StopBlock(b, i) = c
    <3> HIDE DEF d
    <3> QED BY <2>7, <2>8
  <2> QED BY <1>4, <2>11, <2>12 DEF c, k, v
<1> QED BY <1>3, <1>4

LEMMA OutputCounted ==
    ASSUME NEW b \in Bridge
    PROVE  OutputTokens(b) \in Nat
BY DEF OutputTokens, Bridge

LEMMA UsageUpdates ==
    ASSUME NEW b, Fit(b)
    PROVE  LET c == UpdateUsage(b)
           IN /\ Fit(c) /\ Keeps(b, c) /\ c.sent = b.sent /\ c.started = b.started
<1> DEFINE n == IF OutputTokens(b) > b.running THEN OutputTokens(b) ELSE b.running
           c == [b EXCEPT !.reported = TRUE, !.running = n]
<1>1. n \in Nat
  <2>1. b.running \in Nat /\ OutputTokens(b) \in Nat
    BY OutputCounted DEF Fit, Bridge
  <2> QED BY <2>1
<1>2. UpdateUsage(b) = c
  BY DEF UpdateUsage
<1> HIDE DEF n
<1>3. c \in Bridge
  BY <1>1 DEF Fit, Bridge
<1>4. /\ c.closed = b.closed /\ c.sent = b.sent /\ c.started = b.started
      /\ c.nextIndex = b.nextIndex /\ c.openBlock = b.openBlock /\ c.pingTimer = b.pingTimer
      /\ c.emitted = b.emitted /\ c.reported = TRUE
  BY DEF Fit, Bridge
<1>5. /\ c.args = b.args /\ c.blockIndex = b.blockIndex
      /\ c.thinking = b.thinking /\ c.text = b.text /\ c.tools = b.tools
  BY DEF Fit, Bridge
<1> HIDE DEF c
<1>6. Fit(c)
  BY <1>3, <1>4 DEF Fit, EmitterSound
<1> QED BY <1>2, <1>4, <1>5, <1>6 DEF Keeps

\* After emitUsageDelta() the client knows the usage, unless none was counted.
LEMMA UsageEmits ==
    ASSUME NEW b, Fit(b)
    PROVE  LET c == EmitUsage(b)
           IN /\ Fit(c) /\ Keeps(b, c) /\ c.started = b.started /\ c.running = b.running
              /\ ~b.closed /\ b.started => c.sent.usage = b.running
<1>1. CASE b.closed \/ ~b.started
  BY <1>1 DEF EmitUsage, Keeps, Fit
<1>2. CASE ~b.closed /\ b.started /\ (~b.reported \/ b.running = b.emitted)
  <2>1. EmitUsage(b) = b
    BY <1>2 DEF EmitUsage
  <2>2. b.running \in Nat /\ b.emitted \in Index
    BY DEF Fit, Bridge
  <2>4. b.running # None
    BY <2>2 DEF None
  <2>5. EmitterSound(b)
    BY <1>2 DEF Fit
  <2>3. b.sent.usage = b.running
    BY <1>2, <2>4, <2>5 DEF EmitterSound
  <2> QED BY <2>1, <2>3 DEF Keeps
<1>3. CASE ~b.closed /\ b.started /\ b.reported /\ b.running # b.emitted
  <2> DEFINE v == [b.sent EXCEPT !.usage = b.running]
             d == [b EXCEPT !.sent = v]
             c == [b EXCEPT !.sent = v, !.emitted = b.running]
  <2>1. /\ b.sent \in View /\ Speaking(b.sent) /\ b.sent.begun /\ b \in Bridge
        /\ b.running \in Nat
    BY <1>3 DEF Fit, Bridge, EmitterSound
  <2>2. \A o \in BOOLEAN : After(b.sent, Usage(b.running), o) = v
    BY <2>1, AfterUsage
  <2>3. After(b.sent, Usage(b.running), path = "openai") = v
    BY <2>2
  <2>4. /\ v \in View /\ Speaking(v) /\ v.begun /\ v.open = b.sent.open /\ v.args = b.sent.args
        /\ v.rank = b.sent.rank /\ v.next = b.sent.next /\ v.usage = b.running
    BY <2>1 DEF View, Speaking
  <2> HIDE DEF v
  <2>5. Write(b, Usage(b.running)) = d
    BY <1>3, <2>1, <2>3, WriteOpen
  <2>6. EmitUsage(b) = [d EXCEPT !.emitted = b.running]
    <3> HIDE DEF d
    <3> QED BY <1>3, <2>5 DEF EmitUsage
  <2>7. [d EXCEPT !.emitted = b.running] = c
    BY <2>1 DEF Bridge
  <2>8. c \in Bridge
    BY <2>1, <2>4 DEF Bridge, Index
  <2>9. /\ c.closed = b.closed /\ c.sent = v /\ c.started = b.started
        /\ c.nextIndex = b.nextIndex /\ c.openBlock = b.openBlock /\ c.pingTimer = b.pingTimer
        /\ c.emitted = b.running /\ c.reported = b.reported /\ c.running = b.running
    BY <2>1 DEF Bridge
  <2>10. /\ c.args = b.args /\ c.blockIndex = b.blockIndex
         /\ c.thinking = b.thinking /\ c.text = b.text /\ c.tools = b.tools
    BY <2>1 DEF Bridge
  <2>11. EmitUsage(b) = c
    <3> HIDE DEF c, d
    <3> QED BY <2>6, <2>7
  <2> HIDE DEF c
  <2>14. b.running # None
    BY <2>1 DEF None
  <2>15. EmitterSound(b)
    BY <1>3 DEF Fit
  <2>16. EmitterSound(c)
    BY <1>3, <2>4, <2>9, <2>14, <2>15 DEF EmitterSound
  <2>12. Fit(c)
    BY <2>8, <2>16 DEF Fit
  <2>13. Keeps(b, c)
    BY <1>3, <2>4, <2>9, <2>10 DEF Keeps
  <2> QED BY <2>4, <2>9, <2>11, <2>12, <2>13
<1> QED BY <1>1, <1>2, <1>3

\* cleanup() closes and says nothing.
LEMMA CleansUp ==
    ASSUME NEW b \in Bridge
    PROVE  LET c == Cleanup(b)
           IN /\ c \in Bridge /\ c.closed /\ c.sent = b.sent /\ c.started = b.started
              /\ c.args = b.args /\ c.running = b.running
<1> DEFINE c == [b EXCEPT !.closed = TRUE, !.pingTimer = FALSE, !.usageTimer = FALSE]
<1>1. c \in Bridge
  BY DEF Bridge
<1>2. /\ c.closed /\ c.sent = b.sent /\ c.started = b.started
      /\ c.args = b.args /\ c.running = b.running
  BY DEF Bridge
<1> QED BY <1>1, <1>2 DEF Cleanup

LEMMA Finishes ==
    ASSUME NEW b, Fit(b), ~b.closed => b.started /\ b.sent.open \subseteq {b.openBlock}
    PROVE  LET c == Finish(b)
           IN /\ c \in Bridge /\ c.closed /\ c.started = b.started
              /\ b.closed => c = b
              /\ ~b.closed => /\ c.sent.legal /\ c.sent.end = "stop"
                              /\ c.sent.args = b.sent.args /\ c.args = b.args
<1>1. CASE b.closed
  BY <1>1 DEF Finish, Fit
<1>2. CASE ~b.closed
  <2> DEFINE d == IF b.openBlock # None THEN StopBlock(b, b.openBlock) ELSE b
  <2>1. /\ Fit(d) /\ ~d.closed /\ d.sent.open = {} /\ d.sent.args = b.sent.args
        /\ d.args = b.args /\ d.started
    <3>1. CASE b.openBlock = None
      <4>1. b.sent.open = {}
        <5>1. b.sent.open \in SUBSET Nat
          BY DEF Fit, Bridge, View
        <5>2. None \notin Nat
          BY DEF None
        <5> QED BY <1>2, <3>1, <5>1, <5>2
      <4> QED BY <1>2, <3>1, <4>1
    <3>2. CASE b.openBlock # None
      <4> DEFINE e == StopBlock(b, b.openBlock)
                 v == [b.sent EXCEPT !.open = @ \ {b.openBlock}]
      <4>1. b.openBlock \in b.sent.open
        BY <1>2, <3>2 DEF Fit, EmitterSound
      <4>2. Fit(e) /\ e = [b EXCEPT !.openBlock = None, !.sent = v]
        BY <1>2, <4>1, StopsBlock
      <4>3. v.open = {} /\ v.args = b.sent.args
        BY <1>2 DEF Fit, Bridge, View
      <4> HIDE DEF e, v
      <4>4. ~e.closed /\ e.sent = v /\ e.args = b.args /\ e.started
        BY <1>2, <4>2 DEF Fit, Bridge
      <4> QED BY <3>2, <4>2, <4>3, <4>4 DEF e
    <3> QED BY <3>1, <3>2
  <2>2. d.sent \in View /\ Speaking(d.sent) /\ d.sent.begun /\ d \in Bridge
    <3> HIDE DEF d
    <3> QED BY <2>1 DEF Fit, Bridge, EmitterSound
  <2> DEFINE n == OutputTokens(b)
             u == After(d.sent, MessageDelta(n), path = "openai")
             v == After(u, MessageStop, path = "openai")
             e == [d EXCEPT !.sent = u]
             f == [d EXCEPT !.sent = v]
  <2>3. n \in Nat
    BY OutputCounted DEF Fit
  <2>4. v = [d.sent EXCEPT !.usage = n, !.closing = TRUE, !.end = "stop"]
    <3>1. \A o \in BOOLEAN : After(After(d.sent, MessageDelta(n), o), MessageStop, o)
                               = [d.sent EXCEPT !.usage = n, !.closing = TRUE, !.end = "stop"]
      <4> HIDE DEF d, n
      <4> QED BY <2>1, <2>2, <2>3, AfterFinish
    <3> QED BY <3>1
  <2>5. Finish(b) = Cleanup(Write(Write(d, MessageDelta(n)), MessageStop))
    BY <1>2 DEF Finish
  <2> HIDE DEF d, n
  <2>6. v \in View /\ v.legal /\ v.end = "stop" /\ v.args = d.sent.args
    BY <2>2, <2>3, <2>4 DEF View, Speaking
  <2> HIDE DEF v
  <2>7. Write(d, MessageDelta(n)) = e
    BY <2>1, <2>2, WriteOpen
  <2> HIDE DEF u
  <2>8. ~e.closed /\ e.sent = u
    BY <2>1, <2>2 DEF Bridge
  <2>9. Write(e, MessageStop) = [e EXCEPT !.sent = v]
    <3> HIDE DEF e
    <3> QED BY <2>8 DEF v, Write
  <2>10. [e EXCEPT !.sent = v] = f
    BY <2>2 DEF Bridge
  <2>11. f \in Bridge /\ f.sent = v /\ f.args = d.args /\ f.started = d.started
    BY <2>2, <2>6 DEF Bridge
  <2>12. Finish(b) = Cleanup(f)
    <3> HIDE DEF e, f
    <3> QED BY <2>5, <2>7, <2>9, <2>10
  <2> HIDE DEF f
  <2> QED BY <1>2, <2>1, <2>6, <2>11, <2>12, CleansUp
<1> QED BY <1>1, <1>2

LEMMA Fails ==
    ASSUME NEW b, Fit(b), ~b.closed => b.started
    PROVE  LET c == Fail(b)
           IN /\ c \in Bridge /\ c.closed /\ c.started = b.started
              /\ b.closed => c = b
              /\ ~b.closed => /\ c.sent.legal /\ c.sent.end = "error"
                              /\ c.sent.usage = c.running
<1>1. CASE b.closed
  BY <1>1 DEF Fail, Fit
<1>2. CASE ~b.closed
  <2> DEFINE d == EmitUsage(b)
             v == [d.sent EXCEPT !.end = "error"]
             e == [d EXCEPT !.sent = v]
  <2>1. /\ Fit(d) /\ ~d.closed /\ d.started /\ d.sent.usage = d.running
        /\ d.started = b.started
    BY <1>2, UsageEmits DEF Keeps
  <2> HIDE DEF d
  <2>2. d.sent \in View /\ Speaking(d.sent) /\ d.sent.begun /\ d \in Bridge
    BY <2>1 DEF Fit, Bridge, EmitterSound
  <2>3. \A o \in BOOLEAN : After(d.sent, Error, o) = v
    BY <2>2, AfterError
  <2>4. After(d.sent, Error, path = "openai") = v
    BY <2>3
  <2>5. v \in View /\ v.legal /\ v.end = "error" /\ v.usage = d.sent.usage
    BY <2>2 DEF View, Speaking
  <2> HIDE DEF v
  <2>6. Write(d, Error) = e
    BY <2>1, <2>2, <2>4, WriteOpen
  <2>7. e \in Bridge /\ e.sent = v /\ e.running = d.running /\ e.started = d.started
    BY <2>2, <2>5 DEF Bridge
  <2>8. Fail(b) = Cleanup(e)
    <3> HIDE DEF e
    <3> QED BY <1>2, <2>6 DEF Fail, d
  <2> HIDE DEF e
  <2> QED BY <1>2, <2>1, <2>5, <2>7, <2>8, CleansUp
<1> QED BY <1>1, <1>2

------------------------------------------------------------------------------
(* The Converse bridge.                                                      *)

\* A handler never reopens a stream, nor adds to a closed one.
Follows(b, c) ==
    c.closed = b.closed /\ (b.closed => c.sent = b.sent) /\ (b.started => c.started)

LEMMA ConverseOpens ==
    ASSUME NEW b, Fit(b), path = "converse", ~b.closed => b.started,
           NEW kind \in BlockKinds, NEW n \in 0..MaxFrames
    PROVE  LET c == [OpenBlock(b, kind) EXCEPT !.blockIndex[n] = b.nextIndex]
           IN /\ Fit(c) /\ Follows(b, c) /\ c.blockIndex[n] = b.nextIndex
              /\ ~b.closed => c.blockIndex[n] \in c.sent.open
              /\ \A src, dst :
                    ~b.closed /\ ConverseSound(b, src) /\ src.at # "block"
                      /\ dst.at = "block" /\ dst.block = n
                    => ConverseSound(c, dst)
<1> DEFINE d == OpenBlock(b, kind)
           v == [b.sent EXCEPT !.open = @ \cup {b.nextIndex}, !.next = @ + 1,
                               !.rank = KindRank(kind)]
           m == [b.blockIndex EXCEPT ![n] = b.nextIndex]
           c == [d EXCEPT !.blockIndex = m]
<1>1. b \in Bridge /\ b.nextIndex \in Nat /\ b.nextIndex # None
  BY DEF Fit, Bridge, None
<1>2. /\ Fit(d)
      /\ d = [b EXCEPT !.nextIndex = b.nextIndex + 1, !.openBlock = b.nextIndex,
                       !.sent = IF b.closed THEN b.sent ELSE v]
  BY OpensBlock
<1>3. v.open = b.sent.open \cup {b.nextIndex} /\ v.args = b.sent.args
  BY <1>1 DEF Bridge, View
<1> HIDE DEF d, v
<1>4. /\ d.closed = b.closed /\ d.started = b.started /\ d.openBlock = b.nextIndex
      /\ d.args = b.args /\ d.blockIndex = b.blockIndex
      /\ d.sent = IF b.closed THEN b.sent ELSE v
  BY <1>1, <1>2 DEF Bridge
<1>5. /\ m \in [0..MaxFrames -> Index] /\ m[n] = b.nextIndex
      /\ \A k \in 0..MaxFrames : k # n => m[k] = b.blockIndex[k]
  BY <1>1 DEF Bridge, Index
<1>6. [d EXCEPT !.blockIndex[n] = b.nextIndex] = c
  BY <1>4
<1> HIDE DEF m
<1>7. d \in Bridge
  BY <1>2 DEF Fit
<1>8. c \in Bridge
  BY <1>5, <1>7 DEF Bridge
<1>9. /\ c.closed = d.closed /\ c.started = d.started /\ c.openBlock = d.openBlock
      /\ c.args = d.args /\ c.blockIndex = m /\ c.sent = d.sent
      /\ c.nextIndex = d.nextIndex /\ c.pingTimer = d.pingTimer /\ c.emitted = d.emitted
      /\ c.reported = d.reported /\ c.running = d.running
  BY <1>7 DEF Bridge
<1> HIDE DEF c
<1>10. Fit(c)
  BY <1>2, <1>8, <1>9 DEF Fit, EmitterSound
<1>11. ASSUME NEW src, NEW dst, ~b.closed, ConverseSound(b, src), src.at # "block",
              dst.at = "block", dst.block = n
       PROVE  ConverseSound(c, dst)
  <2>1. b.openBlock = None /\ b.sent.open = {} /\ b.sent.args = b.args
    BY <1>11 DEF ConverseSound
  <2>2. \A k \in 0..MaxFrames : b.blockIndex[k] = None
    BY <1>11, <2>1 DEF ConverseSound
  <2>3. m = [k \in 0..MaxFrames |-> IF k = n THEN b.nextIndex ELSE None]
    BY <1>5, <2>2
  <2>4. c.sent.open = {b.nextIndex} /\ c.sent.args = c.args /\ c.openBlock = b.nextIndex
    BY <1>3, <1>4, <1>9, <1>11, <2>1
  <2> QED BY <1>1, <1>9, <1>11, <2>3, <2>4 DEF ConverseSound
<1>12. Follows(b, c) /\ c.blockIndex[n] = b.nextIndex
       /\ (~b.closed => c.blockIndex[n] \in c.sent.open)
  BY <1>3, <1>4, <1>5, <1>9 DEF Follows
<1> QED BY <1>6, <1>10, <1>11, <1>12 DEF d

LEMMA ConverseAppends ==
    ASSUME NEW b, Fit(b), NEW i, ~b.closed => i \in b.sent.open
    PROVE  LET c == AppendText(b, i)
           IN /\ Fit(c) /\ Keeps(b, c)
<1> DEFINE d == Write(b, Delta(i, 0))
           v == [b.sent EXCEPT !.args = b.sent.args + 0]
           n == b.chars + 1
           c == [d EXCEPT !.chars = n]
<1>1. b \in Bridge /\ b.chars \in Nat /\ b.sent \in View /\ n \in Nat
  BY DEF Fit, Bridge
<1>2. Fit(d) /\ d = [b EXCEPT !.sent = IF b.closed THEN b.sent ELSE v]
  BY WritesDelta
<1>3. v = b.sent
  BY <1>1 DEF View
<1>4. d = b
  <2> HIDE DEF d, v
  <2>1. d = [b EXCEPT !.sent = b.sent]
    BY <1>2, <1>3
  <2> QED BY <1>1, <2>1 DEF Bridge
<1>5. AppendText(b, i) = c
  <2>1. d.chars = b.chars
    BY <1>4
  <2> HIDE DEF d
  <2> QED BY <2>1 DEF AppendText, d
<1> HIDE DEF d, v, n
<1>6. c \in Bridge
  BY <1>1, <1>4 DEF Bridge
<1>7. /\ c.closed = b.closed /\ c.sent = b.sent /\ c.started = b.started
      /\ c.nextIndex = b.nextIndex /\ c.openBlock = b.openBlock /\ c.pingTimer = b.pingTimer
      /\ c.emitted = b.emitted /\ c.reported = b.reported /\ c.running = b.running
  BY <1>1, <1>4 DEF Bridge
<1>8. /\ c.args = b.args /\ c.blockIndex = b.blockIndex
      /\ c.thinking = b.thinking /\ c.text = b.text /\ c.tools = b.tools
  BY <1>1, <1>4 DEF Bridge
<1> HIDE DEF c
<1>9. Fit(c)
  BY <1>6, <1>7 DEF Fit, EmitterSound
<1> QED BY <1>5, <1>7, <1>8, <1>9 DEF Keeps

LEMMA ConverseArgsSound ==
    ASSUME NEW b, Fit(b), NEW src, NEW n \in 0..MaxFrames,
           ~b.closed => ConverseSound(b, src) /\ src.at = "block" /\ src.block = n
    PROVE  LET c == ConverseArgs(b, n)
           IN /\ Fit(c) /\ Follows(b, c)
              /\ ~b.closed => ConverseSound(c, src)
<1> DEFINE i == b.blockIndex[n]
           d == IF i = None THEN b ELSE AppendArgs(b, i, 1)
           v == [b.sent EXCEPT !.args = b.sent.args + 1]
           m == d.args + 1
           k == d.chars + 1
           c == [d EXCEPT !.args = m, !.chars = k]
<1>1. b \in Bridge /\ b.args \in Nat /\ b.chars \in Nat /\ b.sent \in View
  BY DEF Fit, Bridge
<1>2. ASSUME ~b.closed PROVE i # None /\ i \in b.sent.open
  BY <1>1, <1>2 DEF ConverseSound
<1>3. v.args = b.sent.args + 1 /\ v.open = b.sent.open
  BY <1>1 DEF View
<1>4. /\ Fit(d) /\ d.closed = b.closed /\ d.started = b.started
      /\ d.args = b.args /\ d.chars = b.chars
      /\ d.openBlock = b.openBlock /\ d.blockIndex = b.blockIndex
      /\ d.sent = IF b.closed THEN b.sent ELSE v
  <2>1. CASE i = None
    BY <1>1, <1>2, <2>1 DEF Fit
  <2>2. CASE i # None
    <3> DEFINE e == Write(b, Delta(i, 1))
    <3>1. ~b.closed => i \in b.sent.open
      BY <1>2
    <3> HIDE DEF i
    <3>2. Fit(e) /\ e = [b EXCEPT !.sent = IF b.closed THEN b.sent ELSE v]
      BY <3>1, WritesDelta
    <3>3. d = e
      BY <2>2 DEF AppendArgs
    <3> HIDE DEF d, e, v
    <3> QED BY <1>1, <3>2, <3>3 DEF Bridge
  <2> QED BY <2>1, <2>2
<1>5. ConverseArgs(b, n) = c
  BY DEF ConverseArgs
<1> HIDE DEF d, v, i
<1>6. m \in Nat /\ k \in Nat /\ m = b.args + 1
  BY <1>1, <1>4
<1>7. d \in Bridge
  BY <1>4 DEF Fit
<1> HIDE DEF m, k
<1>8. c \in Bridge
  BY <1>6, <1>7 DEF Bridge
<1>9. /\ c.closed = d.closed /\ c.sent = d.sent /\ c.started = d.started
      /\ c.nextIndex = d.nextIndex /\ c.openBlock = d.openBlock /\ c.pingTimer = d.pingTimer
      /\ c.emitted = d.emitted /\ c.reported = d.reported /\ c.running = d.running
      /\ c.args = m /\ c.blockIndex = d.blockIndex
  BY <1>7 DEF Bridge
<1> HIDE DEF c
<1>10. Fit(c)
  BY <1>4, <1>8, <1>9 DEF Fit, EmitterSound
<1>11. ~b.closed => ConverseSound(c, src)
  BY <1>3, <1>4, <1>6, <1>9 DEF ConverseSound
<1>12. Follows(b, c)
  BY <1>4, <1>9 DEF Follows
<1> QED BY <1>5, <1>10, <1>11, <1>12

LEMMA ConverseStopsSound ==
    ASSUME NEW b, Fit(b), NEW src, NEW dst, NEW n \in 0..MaxFrames,
           ~b.closed => ConverseSound(b, src) /\ src.at = "block" /\ src.block = n,
           dst.at # "block"
    PROVE  LET c == ConverseStops(b, n)
           IN /\ Fit(c) /\ Follows(b, c)
              /\ ~b.closed => ConverseSound(c, dst)
<1> DEFINE i == b.blockIndex[n]
           d == StopBlock(b, i)
           v == [b.sent EXCEPT !.open = @ \ {i}]
           k == IF b.openBlock = i THEN None ELSE b.openBlock
           m == [b.blockIndex EXCEPT ![n] = None]
           c == [d EXCEPT !.blockIndex = m]
<1>1. b \in Bridge /\ b.sent \in View /\ None \in Index
  BY DEF Fit, Bridge, Index
<1>2. ASSUME ~b.closed PROVE i # None /\ i \in b.sent.open /\ i = b.openBlock
  BY <1>1, <1>2 DEF ConverseSound
<1>3. v.args = b.sent.args /\ v.open = b.sent.open \ {i}
  BY <1>1 DEF View
<1>4. CASE i = None
  <2>1. b.closed /\ ConverseStops(b, n) = b
    BY <1>2, <1>4 DEF ConverseStops
  <2> QED BY <2>1 DEF Follows
<1>5. CASE i # None
  <2>1. Fit(d) /\ d = [b EXCEPT !.openBlock = k, !.sent = IF b.closed THEN b.sent ELSE v]
    <3>1. ~b.closed => i \in b.sent.open
      BY <1>2
    <3> HIDE DEF i
    <3> QED BY <3>1, StopsBlock
  <2>2. ConverseStops(b, n) = [d EXCEPT !.blockIndex[n] = None]
    BY <1>5 DEF ConverseStops
  <2>3. m \in [0..MaxFrames -> Index] /\ \A j \in 0..MaxFrames :
           m[j] = IF j = n THEN None ELSE b.blockIndex[j]
    BY <1>1 DEF Bridge
  <2> HIDE DEF d, v
  <2>4. /\ d.closed = b.closed /\ d.started = b.started /\ d.args = b.args
        /\ d.openBlock = k /\ d.blockIndex = b.blockIndex
        /\ d.sent = IF b.closed THEN b.sent ELSE v
    <3> HIDE DEF k
    <3> QED BY <1>1, <2>1 DEF Bridge
  <2>5. [d EXCEPT !.blockIndex[n] = None] = c
    BY <2>4
  <2>6. d \in Bridge
    BY <2>1 DEF Fit
  <2> HIDE DEF m
  <2>7. c \in Bridge
    BY <2>3, <2>6 DEF Bridge
  <2>8. /\ c.closed = d.closed /\ c.sent = d.sent /\ c.started = d.started
        /\ c.nextIndex = d.nextIndex /\ c.openBlock = d.openBlock /\ c.pingTimer = d.pingTimer
        /\ c.emitted = d.emitted /\ c.reported = d.reported /\ c.running = d.running
        /\ c.args = d.args /\ c.blockIndex = m
    BY <2>6 DEF Bridge
  <2> HIDE DEF c
  <2>9. Fit(c)
    BY <2>1, <2>7, <2>8 DEF Fit, EmitterSound
  <2>10. ASSUME ~b.closed PROVE ConverseSound(c, dst)
    <3>1. /\ b.sent.open = {b.openBlock} \ {None} /\ b.sent.args = b.args
          /\ \A j \in 0..MaxFrames : b.blockIndex[j] = IF j = n THEN b.openBlock ELSE None
      BY <2>10 DEF ConverseSound
    <3>2. c.openBlock = None /\ c.sent.open = {} /\ c.sent.args = c.args
      BY <1>2, <1>3, <2>4, <2>8, <2>10, <3>1
    <3>3. m = [j \in 0..MaxFrames |-> None]
      BY <2>3, <3>1
    <3> QED BY <2>8, <3>2, <3>3 DEF ConverseSound
  <2>11. Follows(b, c)
    BY <2>4, <2>8 DEF Follows
  <2> QED BY <2>2, <2>5, <2>9, <2>10, <2>11
<1> QED BY <1>4, <1>5

\* handleFrame()
LEMMA ConverseHandles ==
    ASSUME StreamTypes, SourceBounded, read = "value", path = "converse",
           Fit(s), ~s.closed => ConverseSound(s, source), NEW frame \in ConverseFrames
    PROVE  LET c == HandleFrame(s, frame)
           IN /\ Fit(c) /\ Follows(s, c)
              /\ ~s.closed => ConverseSound(c, SourceAfter(frame))
<1> DEFINE n == source.block
           b == Start(s)
           dst == SourceAfter(frame)
<1>1. /\ n \in 0..MaxFrames /\ source.kind \in BlockKinds
      /\ source = [at |-> source.at, block |-> n, kind |-> source.kind]
  BY StreamAssumption DEF StreamTypes, SourceBounded
<1>2. /\ Fit(b) /\ b.started /\ b.closed = s.closed /\ (s.closed => b.sent = s.sent)
      /\ ~b.closed => ConverseSound(b, source)
  BY Starts, KeepsSound DEF Keeps
<1>3. \A c : Follows(b, c) => Follows(s, c)
  BY <1>2 DEF Follows
<1> HIDE DEF b
<1>4. CASE source.at = "start" /\ frame = [type |-> "messageStart"]
  <2>1. HandleFrame(s, frame) = b /\ dst = [source EXCEPT !.at = "between"]
    BY <1>4 DEF HandleFrame, SourceAfter, b
  <2>2. dst.at = "between" /\ dst.block = n
    BY <1>1, <2>1
  <2> HIDE DEF dst
  <2>3. ~b.closed => ConverseSound(b, dst)
    BY <1>2, <1>4, <2>2 DEF ConverseSound
  <2>4. Follows(b, b)
    BY DEF Follows
  <2> QED BY <1>2, <1>3, <2>1, <2>3, <2>4 DEF dst
<1>5. CASE source.at = "between" /\ frame = [type |-> "contentBlockStart", block |-> n]
  <2> DEFINE c == [OpenBlock(b, "tool_use") EXCEPT !.blockIndex[n] = b.nextIndex]
  <2>1. HandleFrame(s, frame) = c /\ dst = [source EXCEPT !.at = "block", !.kind = "tool_use"]
    BY <1>5 DEF HandleFrame, SourceAfter, b
  <2>2. dst.at = "block" /\ dst.block = n
    BY <1>1, <2>1
  <2> HIDE DEF dst
  <2>3. "tool_use" \in BlockKinds
    BY DEF BlockKinds
  <2>4. Fit(c) /\ Follows(b, c)
    BY <1>1, <1>2, <2>3, ConverseOpens
  <2>5. \A src, to : ~b.closed /\ ConverseSound(b, src) /\ src.at # "block"
                       /\ to.at = "block" /\ to.block = n => ConverseSound(c, to)
    BY <1>1, <1>2, <2>3, ConverseOpens
  <2> HIDE DEF c, n
  <2> QED BY <1>2, <1>3, <1>5, <2>1, <2>2, <2>4, <2>5 DEF dst
<1>6. CASE /\ source.at = "between"
           /\ \E kind \in {"thinking", "text"} :
                 frame = [type |-> "contentBlockDelta", block |-> n, kind |-> kind]
  <2>0. PICK kind \in {"thinking", "text"} :
                 frame = [type |-> "contentBlockDelta", block |-> n, kind |-> kind]
    BY <1>6
  <2>1. /\ HandleFrame(s, frame) = ConverseDelta(b, n, kind)
        /\ dst = [source EXCEPT !.at = "block", !.kind = kind]
    BY <2>0 DEF HandleFrame, SourceAfter, b
  <2>2. dst.at = "block" /\ dst.block = n
    BY <1>1, <2>1
  <2> HIDE DEF dst
  <2> DEFINE d == [OpenBlock(b, kind) EXCEPT !.blockIndex[n] = b.nextIndex]
             e == IF b.blockIndex[n] # None THEN b ELSE d
             c == AppendText(e, e.blockIndex[n])
  <2>3. ConverseDelta(b, n, kind) = c
    BY DEF ConverseDelta
  <2>4. kind \in BlockKinds
    BY DEF BlockKinds
  <2>5. /\ Fit(d) /\ Follows(b, d)
        /\ ~b.closed => d.blockIndex[n] \in d.sent.open
    BY <1>1, <1>2, <2>4, ConverseOpens
  <2>6. \A src, to : ~b.closed /\ ConverseSound(b, src) /\ src.at # "block"
                       /\ to.at = "block" /\ to.block = n => ConverseSound(d, to)
    BY <1>1, <1>2, <2>4, ConverseOpens
  <2>7. ~b.closed => b.blockIndex[n] = None
    BY <1>1, <1>2, <1>6 DEF ConverseSound
  <2> HIDE DEF d, n
  <2>8. Fit(e) /\ Follows(b, e) /\ (~b.closed => e = d)
    BY <1>2, <2>5, <2>7 DEF Follows
  <2> HIDE DEF e
  <2>9. Fit(c) /\ Keeps(e, c)
    <3>1. ~e.closed => e.blockIndex[n] \in e.sent.open
      BY <2>5, <2>8 DEF Follows
    <3> QED BY <2>8, <3>1, ConverseAppends
  <2>10. ~b.closed => ConverseSound(c, dst)
    BY <1>2, <1>6, <2>2, <2>6, <2>8, <2>9, KeepsSound
  <2>11. Follows(b, c)
    BY <2>8, <2>9 DEF Follows, Keeps
  <2> QED BY <1>2, <1>3, <2>1, <2>3, <2>9, <2>10, <2>11 DEF dst
<1>7. CASE /\ source.at = "block"
           /\ frame = [type |-> "contentBlockDelta", block |-> n, kind |-> source.kind]
  <2>1. dst = [source EXCEPT !.at = "block", !.kind = source.kind]
    BY <1>7 DEF SourceAfter
  <2>2. dst = source
    BY <1>1, <1>7, <2>1
  <2>3. CASE source.kind = "tool_use"
    <3>1. HandleFrame(s, frame) = ConverseArgs(b, n)
      BY <1>7, <2>3 DEF HandleFrame, b
    <3>2. /\ Fit(ConverseArgs(b, n)) /\ Follows(b, ConverseArgs(b, n))
          /\ ~b.closed => ConverseSound(ConverseArgs(b, n), source)
      BY <1>1, <1>2, <1>7, ConverseArgsSound
    <3> QED BY <1>2, <1>3, <2>2, <3>1, <3>2
  <2>4. CASE source.kind # "tool_use"
    <3> DEFINE kind == source.kind
               d == [OpenBlock(b, kind) EXCEPT !.blockIndex[n] = b.nextIndex]
               e == IF b.blockIndex[n] # None THEN b ELSE d
               c == AppendText(e, e.blockIndex[n])
    <3>1. HandleFrame(s, frame) = ConverseDelta(b, n, kind)
      BY <1>7, <2>4 DEF HandleFrame, b
    <3>2. ConverseDelta(b, n, kind) = c
      BY DEF ConverseDelta
    <3>3. Fit(d) /\ Follows(b, d)
      BY <1>1, <1>2, ConverseOpens
    <3>4. ~b.closed => b.blockIndex[n] # None /\ b.blockIndex[n] \in b.sent.open
      BY <1>1, <1>2, <1>7 DEF ConverseSound
    <3> HIDE DEF d, n
    <3>5. Fit(e) /\ Follows(b, e) /\ (~b.closed => e = b)
      BY <1>2, <3>3, <3>4 DEF Follows
    <3> HIDE DEF e
    <3>6. Fit(c) /\ Keeps(e, c)
      <4>1. ~e.closed => e.blockIndex[n] \in e.sent.open
        BY <3>4, <3>5 DEF Follows
      <4> QED BY <3>5, <4>1, ConverseAppends
    <3>7. ~b.closed => ConverseSound(c, source)
      BY <1>2, <3>5, <3>6, KeepsSound
    <3>8. Follows(b, c)
      BY <3>5, <3>6 DEF Follows, Keeps
    <3> QED BY <1>2, <1>3, <2>2, <3>1, <3>2, <3>6, <3>7, <3>8
  <2> QED BY <2>3, <2>4
<1>8. CASE source.at = "block" /\ frame = [type |-> "contentBlockStop", block |-> n]
  <2> DEFINE c == ConverseStops(s, n)
  <2>1. /\ HandleFrame(s, frame) = c
        /\ dst = [source EXCEPT !.at = "between", !.block = n + 1]
    BY <1>8 DEF HandleFrame, SourceAfter
  <2>2. dst.at # "block"
    BY <1>1, <2>1
  <2> HIDE DEF dst
  <2>3. Fit(c) /\ Follows(s, c) /\ (~s.closed => ConverseSound(c, dst))
    BY <1>1, <1>8, <2>2, ConverseStopsSound
  <2> QED BY <2>1, <2>3 DEF dst
<1>9. CASE \/ source.at = "between" /\ frame = [type |-> "messageStop"]
           \/ source.at = "stopped" /\ frame = [type |-> "metadata"]
  <2> DEFINE c == HandleFrame(s, frame)
  <2>1. c = s \/ c = [s EXCEPT !.tokens = 1]
    BY <1>9 DEF HandleFrame
  <2>2. dst.at # "block" /\ dst.block = n
    BY <1>1, <1>9 DEF SourceAfter
  <2>3. Fit(c) /\ Keeps(s, c)
    <3>1. s \in Bridge
      BY DEF Fit
    <3>2. c \in Bridge
      BY <2>1, <3>1 DEF Bridge
    <3>3. /\ c.closed = s.closed /\ c.sent = s.sent /\ c.started = s.started
          /\ c.nextIndex = s.nextIndex /\ c.openBlock = s.openBlock /\ c.pingTimer = s.pingTimer
          /\ c.emitted = s.emitted /\ c.reported = s.reported /\ c.running = s.running
          /\ c.args = s.args /\ c.blockIndex = s.blockIndex
          /\ c.thinking = s.thinking /\ c.text = s.text /\ c.tools = s.tools
      BY <2>1, <3>1 DEF Bridge
    <3> HIDE DEF c
    <3> QED BY <3>2, <3>3 DEF Fit, EmitterSound, Keeps
  <2> HIDE DEF c, dst
  <2>4. ~s.closed => ConverseSound(c, source)
    BY <2>3, KeepsSound
  <2>5. ~s.closed => ConverseSound(c, dst)
    BY <1>9, <2>2, <2>4 DEF ConverseSound
  <2>6. Follows(s, c)
    BY <2>3 DEF Keeps, Follows
  <2> QED BY <2>3, <2>5, <2>6 DEF c, dst
<1>10. \/ source.at = "start" /\ frame = [type |-> "messageStart"]
       \/ source.at = "between" /\ frame = [type |-> "contentBlockStart", block |-> n]
       \/ /\ source.at = "between"
          /\ \E kind \in {"thinking", "text"} :
                 frame = [type |-> "contentBlockDelta", block |-> n, kind |-> kind]
       \/ /\ source.at = "block"
          /\ frame = [type |-> "contentBlockDelta", block |-> n, kind |-> source.kind]
       \/ source.at = "block" /\ frame = [type |-> "contentBlockStop", block |-> n]
       \/ source.at = "between" /\ frame = [type |-> "messageStop"]
       \/ source.at = "stopped" /\ frame = [type |-> "metadata"]
  <2>1. source.at = "start" \/ source.at = "between" \/ source.at = "block"
          \/ source.at = "stopped" \/ source.at = "done"
    BY DEF StreamTypes
  <2>2. CASE source.at = "start"
    BY <2>2 DEF ConverseFrames
  <2>3. CASE source.at = "between"
    <3>1. frame \in {[type |-> "contentBlockStart", block |-> n], [type |-> "messageStop"]}
             \cup [type : {"contentBlockDelta"}, block : {n}, kind : {"thinking", "text"}]
      BY <2>3 DEF ConverseFrames
    <3>2. ASSUME frame \in [type : {"contentBlockDelta"}, block : {n}, kind : {"thinking", "text"}]
          PROVE  \E kind \in {"thinking", "text"} :
                    frame = [type |-> "contentBlockDelta", block |-> n, kind |-> kind]
      <4>1. frame = [type |-> frame.type, block |-> frame.block, kind |-> frame.kind]
              /\ frame.type = "contentBlockDelta" /\ frame.block = n
              /\ frame.kind \in {"thinking", "text"}
        BY <3>2
      <4> QED BY <4>1
    <3> QED BY <2>3, <3>1, <3>2
  <2>4. CASE source.at = "block"
    BY <2>4 DEF ConverseFrames
  <2>5. CASE source.at = "stopped"
    BY <2>5 DEF ConverseFrames
  <2>6. CASE source.at = "done"
    BY <2>6 DEF ConverseFrames
  <2> QED BY <2>1, <2>2, <2>3, <2>4, <2>5, <2>6
<1> HIDE DEF dst, n
<1> QED BY <1>4, <1>5, <1>6, <1>7, <1>8, <1>9, <1>10 DEF dst

------------------------------------------------------------------------------
(* The OpenAI bridge.                                                        *)

\* Its own fields say nothing of the emitter.
LEMMA SetsThinking ==
    ASSUME NEW b, Fit(b), NEW i \in Index
    PROVE  LET c == [b EXCEPT !.thinking = i]
           IN /\ Fit(c) /\ Follows(b, c) /\ c.thinking = i
              /\ c.sent = b.sent /\ c.text = b.text /\ c.tools = b.tools /\ c.args = b.args
<1> DEFINE c == [b EXCEPT !.thinking = i]
<1>1. c \in Bridge
  BY DEF Fit, Bridge
<1>2. /\ c.closed = b.closed /\ c.sent = b.sent /\ c.started = b.started
      /\ c.nextIndex = b.nextIndex /\ c.openBlock = b.openBlock /\ c.pingTimer = b.pingTimer
      /\ c.emitted = b.emitted /\ c.reported = b.reported /\ c.running = b.running
      /\ c.thinking = i /\ c.text = b.text /\ c.tools = b.tools /\ c.args = b.args
  BY DEF Fit, Bridge
<1> HIDE DEF c
<1>3. Fit(c)
  BY <1>1, <1>2 DEF Fit, EmitterSound
<1> QED BY <1>2, <1>3 DEF Follows, c

LEMMA SetsText ==
    ASSUME NEW b, Fit(b), NEW i \in Index
    PROVE  LET c == [b EXCEPT !.text = i]
           IN /\ Fit(c) /\ Follows(b, c) /\ c.text = i
              /\ c.sent = b.sent /\ c.thinking = b.thinking /\ c.tools = b.tools
              /\ c.args = b.args
<1> DEFINE c == [b EXCEPT !.text = i]
<1>1. c \in Bridge
  BY DEF Fit, Bridge
<1>2. /\ c.closed = b.closed /\ c.sent = b.sent /\ c.started = b.started
      /\ c.nextIndex = b.nextIndex /\ c.openBlock = b.openBlock /\ c.pingTimer = b.pingTimer
      /\ c.emitted = b.emitted /\ c.reported = b.reported /\ c.running = b.running
      /\ c.thinking = b.thinking /\ c.text = i /\ c.tools = b.tools /\ c.args = b.args
  BY DEF Fit, Bridge
<1> HIDE DEF c
<1>3. Fit(c)
  BY <1>1, <1>2 DEF Fit, EmitterSound
<1> QED BY <1>2, <1>3 DEF Follows, c

LEMMA SetsTools ==
    ASSUME NEW b, Fit(b), NEW calls \in Seq(Call)
    PROVE  LET c == [b EXCEPT !.tools = calls]
           IN /\ Fit(c) /\ Follows(b, c) /\ c.tools = calls
              /\ c.sent = b.sent /\ c.thinking = b.thinking /\ c.text = b.text
              /\ c.args = b.args
<1> DEFINE c == [b EXCEPT !.tools = calls]
<1>1. c \in Bridge
  BY DEF Fit, Bridge
<1>2. /\ c.closed = b.closed /\ c.sent = b.sent /\ c.started = b.started
      /\ c.nextIndex = b.nextIndex /\ c.openBlock = b.openBlock /\ c.pingTimer = b.pingTimer
      /\ c.emitted = b.emitted /\ c.reported = b.reported /\ c.running = b.running
      /\ c.thinking = b.thinking /\ c.text = b.text /\ c.tools = calls /\ c.args = b.args
  BY DEF Fit, Bridge
<1> HIDE DEF c
<1>3. Fit(c)
  BY <1>1, <1>2 DEF Fit, EmitterSound
<1> QED BY <1>2, <1>3 DEF Follows, c

\* A block opens: only the emitter's own fields change.
LEMMA OpensForOpenAi ==
    ASSUME NEW b, Fit(b), path = "openai", ~b.closed => b.started,
           NEW kind \in BlockKinds, ~b.closed => b.sent.rank <= KindRank(kind)
    PROVE  LET c == OpenBlock(b, kind)
           IN /\ Fit(c) /\ Follows(b, c) /\ c.nextIndex = b.nextIndex + 1
              /\ b.nextIndex \in Index /\ b.nextIndex # None
              /\ b.closed \/ b.nextIndex \notin b.sent.open
              /\ ~b.closed => /\ c.sent.open = b.sent.open \cup {b.nextIndex}
                              /\ c.sent.rank = KindRank(kind)
              /\ c.sent.args = b.sent.args
              /\ c.thinking = b.thinking /\ c.text = b.text /\ c.tools = b.tools
              /\ c.args = b.args
<1> DEFINE c == OpenBlock(b, kind)
           v == [b.sent EXCEPT !.open = @ \cup {b.nextIndex}, !.next = @ + 1,
                               !.rank = KindRank(kind)]
<1>1. b \in Bridge /\ b.nextIndex \in Nat /\ b.nextIndex # None /\ b.sent \in View
  BY DEF Fit, Bridge, None
<1>2. /\ Fit(c)
      /\ c = [b EXCEPT !.nextIndex = b.nextIndex + 1, !.openBlock = b.nextIndex,
                       !.sent = IF b.closed THEN b.sent ELSE v]
  BY OpensBlock
<1>3. /\ v.open = b.sent.open \cup {b.nextIndex} /\ v.args = b.sent.args
      /\ v.rank = KindRank(kind)
  BY <1>1 DEF View
<1> HIDE DEF c, v
<1>4. /\ c.closed = b.closed /\ c.started = b.started
      /\ c.sent = (IF b.closed THEN b.sent ELSE v) /\ c.nextIndex = b.nextIndex + 1
      /\ c.thinking = b.thinking /\ c.text = b.text /\ c.tools = b.tools /\ c.args = b.args
  BY <1>1, <1>2 DEF Bridge
<1>5. b.closed \/ b.nextIndex \notin b.sent.open
  BY <1>1 DEF Fit, EmitterSound, View
<1> QED BY <1>1, <1>2, <1>3, <1>4, <1>5 DEF Follows, Index, c

LEMMA StopsForOpenAi ==
    ASSUME NEW b, Fit(b), NEW i, ~b.closed => i \in b.sent.open
    PROVE  LET c == StopBlock(b, i)
           IN /\ Fit(c) /\ Follows(b, c)
              /\ ~b.closed => c.sent.open = b.sent.open \ {i} /\ c.sent.rank = b.sent.rank
              /\ c.sent.args = b.sent.args
              /\ c.thinking = b.thinking /\ c.text = b.text /\ c.tools = b.tools
              /\ c.args = b.args
<1> DEFINE c == StopBlock(b, i)
           k == IF b.openBlock = i THEN None ELSE b.openBlock
           v == [b.sent EXCEPT !.open = @ \ {i}]
<1>1. b \in Bridge /\ b.sent \in View
  BY DEF Fit, Bridge
<1>2. Fit(c) /\ c = [b EXCEPT !.openBlock = k, !.sent = IF b.closed THEN b.sent ELSE v]
  BY StopsBlock
<1>3. v.open = b.sent.open \ {i} /\ v.args = b.sent.args /\ v.rank = b.sent.rank
  BY <1>1 DEF View
<1> HIDE DEF c, v, k
<1>4. /\ c.closed = b.closed /\ c.started = b.started
      /\ c.sent = (IF b.closed THEN b.sent ELSE v)
      /\ c.thinking = b.thinking /\ c.text = b.text /\ c.tools = b.tools /\ c.args = b.args
  BY <1>1, <1>2 DEF Bridge
<1> QED BY <1>2, <1>3, <1>4 DEF Follows, c

\* c is b after size fragments of arguments were written.
Wrote(b, size, c) ==
    /\ Fit(c) /\ Follows(b, c)
    /\ c.sent.open = b.sent.open
    /\ ~b.closed => c.sent.args = b.sent.args + size /\ c.sent.rank = b.sent.rank
    /\ c.thinking = b.thinking /\ c.text = b.text /\ c.tools = b.tools
    /\ c.args = b.args

LEMMA ArgsForOpenAi ==
    ASSUME NEW b, Fit(b), NEW i, ~b.closed => i \in b.sent.open, NEW size \in Nat
    PROVE  Wrote(b, size, AppendArgs(b, i, size))
<1> DEFINE c == AppendArgs(b, i, size)
           v == [b.sent EXCEPT !.args = b.sent.args + size]
<1>1. b \in Bridge /\ b.sent \in View
  BY DEF Fit, Bridge
<1>2. Fit(c) /\ c = [b EXCEPT !.sent = IF b.closed THEN b.sent ELSE v]
  <2>1. c = Write(b, Delta(i, size))
    BY DEF AppendArgs
  <2> HIDE DEF c
  <2> QED BY <2>1, WritesDelta
<1>3. v.open = b.sent.open /\ v.args = b.sent.args + size /\ v.rank = b.sent.rank
  BY <1>1 DEF View
<1> HIDE DEF c, v
<1>4. /\ c.closed = b.closed /\ c.started = b.started
      /\ c.sent = (IF b.closed THEN b.sent ELSE v)
      /\ c.thinking = b.thinking /\ c.text = b.text /\ c.tools = b.tools /\ c.args = b.args
  BY <1>1, <1>2 DEF Bridge
<1> QED BY <1>2, <1>3, <1>4 DEF Follows, Wrote, c

\* thinking and text are closed, the blocks of the calls after the first n are open.
CallsOpen(b, n, k) ==
    /\ b.thinking = None /\ b.text = None
    /\ b.sent.open = CallBlocks(b.tools, n) \ {None}
    /\ CallsSound(b, n, k)

LEMMA CallsSame ==
    ASSUME NEW b, NEW c, c.tools = b.tools, c.sent.args = b.sent.args, c.args = b.args,
           NEW n, NEW k
    PROVE  CallsSound(b, n, k) => CallsSound(c, n, k)
BY DEF CallsSound

LEMMA NoCalls ==
    ASSUME NEW calls \in Seq(Call), calls = <<>>
    PROVE  CallBlocks(calls, 0) = {}
<1>1. Len(calls) = 0
  OBVIOUS
<1> QED BY <1>1 DEF CallBlocks

LEMMA BridgeFields ==
    ASSUME NEW b, Fit(b)
    PROVE  /\ b \in Bridge /\ b.thinking \in Index /\ b.text \in Index /\ b.nextIndex \in Nat
           /\ b.tools \in Seq(Call) /\ b.sent.open \in SUBSET Nat /\ b.sent.rank \in 0..3
           /\ b.sent.args \in Nat /\ b.args \in Nat /\ b.chars \in Nat
           /\ b.sent.legal \in BOOLEAN /\ None \in Index /\ None \notin Nat
<1>1. b \in Bridge /\ b.sent \in View
  BY DEF Fit, Bridge
<1> QED BY <1>1 DEF Bridge, View, Index, None

LEMMA ClosesThinking ==
    ASSUME NEW b, Fit(b), path = "openai", ~b.closed => OpenAiSound(b)
    PROVE  LET c == CloseThinking(b)
           IN /\ Fit(c) /\ Follows(b, c) /\ c.tools = b.tools /\ c.text = b.text
              /\ ~b.closed => OpenAiSound(c) /\ c.thinking = None
<1>1. CASE b.thinking = None
  BY <1>1 DEF CloseThinking, Follows
<1>2. CASE b.thinking # None
  <2> DEFINE i == b.thinking
             d == StopBlock(b, i)
             c == [d EXCEPT !.thinking = None]
  <2>1. ~b.closed => /\ i \in b.sent.open /\ b.text = None /\ b.tools = <<>>
                     /\ b.sent.open = {i}
    <3>1. ~b.closed => b.text = None /\ b.tools = <<>>
      BY <1>2 DEF OpenAiSound
    <3>2. b.tools = <<>> => CallBlocks(b.tools, 0) = {}
      BY BridgeFields, NoCalls
    <3> QED BY <1>2, <3>1, <3>2 DEF OpenAiSound
  <2>2. /\ Fit(d) /\ Follows(b, d)
        /\ ~b.closed => d.sent.open = b.sent.open \ {i} /\ d.sent.rank = b.sent.rank
        /\ d.sent.args = b.sent.args
        /\ d.thinking = b.thinking /\ d.text = b.text /\ d.tools = b.tools
        /\ d.args = b.args
    <3> HIDE DEF i
    <3> QED BY <2>1, StopsForOpenAi
  <2> HIDE DEF d
  <2>3. /\ Fit(c) /\ Follows(d, c) /\ c.thinking = None
        /\ c.sent = d.sent /\ c.text = d.text /\ c.tools = d.tools /\ c.args = d.args
    BY <2>2, BridgeFields, SetsThinking
  <2>4. CloseThinking(b) = c
    BY <1>2 DEF CloseThinking, d
  <2> HIDE DEF c
  <2>5. ASSUME ~b.closed PROVE OpenAiSound(c)
    <3>1. CallsSound(c, 0, 0)
      BY <2>2, <2>3, <2>5, CallsSame DEF OpenAiSound
    <3>2. CallBlocks(c.tools, 0) = {}
      BY <2>1, <2>2, <2>3, <2>5, BridgeFields, NoCalls
    <3>3. c.sent.open = {} /\ c.thinking = None /\ c.text = None /\ c.tools = <<>>
            /\ c.sent.rank = b.sent.rank /\ b.sent.rank <= 1
      BY <2>1, <2>2, <2>3, <2>5 DEF OpenAiSound
    <3> QED BY <3>1, <3>2, <3>3 DEF OpenAiSound
  <2> QED BY <2>2, <2>3, <2>4, <2>5 DEF Follows
<1> QED BY <1>1, <1>2

LEMMA ClosesText ==
    ASSUME NEW b, Fit(b), path = "openai", ~b.closed => OpenAiSound(b)
    PROVE  LET c == CloseText(CloseThinking(b))
           IN /\ Fit(c) /\ Follows(b, c) /\ c.tools = b.tools
              /\ ~b.closed => CallsOpen(c, 0, 0)
<1> DEFINE a == CloseThinking(b)
<1>1. /\ Fit(a) /\ Follows(b, a) /\ a.tools = b.tools /\ a.text = b.text
      /\ ~b.closed => OpenAiSound(a) /\ a.thinking = None
  BY ClosesThinking
<1> HIDE DEF a
<1>2. CASE a.text = None
  <2>1. CloseText(a) = a
    BY <1>2 DEF CloseText
  <2>2. ~b.closed => CallsOpen(a, 0, 0)
    BY <1>1, <1>2 DEF OpenAiSound, CallsOpen
  <2> QED BY <1>1, <2>1, <2>2 DEF a
<1>3. CASE a.text # None
  <2> DEFINE i == a.text
             d == StopBlock(a, i)
             c == [d EXCEPT !.text = None]
  <2>0. a.closed = b.closed
    BY <1>1 DEF Follows
  <2>1. ~a.closed => /\ i \in a.sent.open /\ a.thinking = None /\ a.tools = <<>>
                     /\ a.sent.open = {i}
    <3>1. ~a.closed => a.tools = <<>> /\ a.thinking = None
      BY <1>1, <1>3, <2>0 DEF OpenAiSound
    <3>2. a.tools = <<>> => CallBlocks(a.tools, 0) = {}
      BY <1>1, BridgeFields, NoCalls
    <3> QED BY <1>1, <1>3, <2>0, <3>1, <3>2 DEF OpenAiSound
  <2>2. /\ Fit(d) /\ Follows(a, d)
        /\ ~a.closed => d.sent.open = a.sent.open \ {i} /\ d.sent.rank = a.sent.rank
        /\ d.sent.args = a.sent.args
        /\ d.thinking = a.thinking /\ d.text = a.text /\ d.tools = a.tools
        /\ d.args = a.args
    <3> HIDE DEF i
    <3> QED BY <1>1, <2>1, StopsForOpenAi
  <2> HIDE DEF d
  <2>3. /\ Fit(c) /\ Follows(d, c) /\ c.text = None
        /\ c.sent = d.sent /\ c.thinking = d.thinking /\ c.tools = d.tools /\ c.args = d.args
    BY <2>2, BridgeFields, SetsText
  <2>4. CloseText(a) = c
    BY <1>3 DEF CloseText, d
  <2> HIDE DEF c
  <2>5. ASSUME ~b.closed PROVE CallsOpen(c, 0, 0)
    <3>1. CallsSound(c, 0, 0)
      BY <1>1, <2>2, <2>3, <2>5, CallsSame DEF OpenAiSound
    <3>2. CallBlocks(c.tools, 0) = {}
      BY <2>0, <2>1, <2>2, <2>3, <2>5, BridgeFields, NoCalls
    <3>3. c.sent.open = {} /\ c.thinking = None /\ c.text = None
      BY <2>0, <2>1, <2>2, <2>3, <2>5
    <3> QED BY <3>1, <3>2, <3>3 DEF CallsOpen
  <2> QED BY <1>1, <2>2, <2>3, <2>4, <2>5 DEF Follows, a
<1> QED BY <1>2, <1>3

LEMMA ReasoningSound ==
    ASSUME NEW b, Fit(b), path = "openai", b.started, ~b.closed => OpenAiSound(b)
    PROVE  LET c == Reasoning(b)
           IN /\ Fit(c) /\ Follows(b, c)
              /\ ~b.closed => OpenAiSound(c)
<1>1. CASE b.text # None \/ b.tools # <<>>
  BY <1>1 DEF Reasoning, Follows
<1>2. CASE b.text = None /\ b.tools = <<>>
  <2> DEFINE e == OpenBlock(b, "thinking")
             d == [e EXCEPT !.thinking = b.nextIndex]
             a == IF b.thinking # None THEN b ELSE d
             c == AppendText(a, a.thinking)
  <2>1. Reasoning(b) = c
    BY <1>2 DEF Reasoning
  <2>2. CallBlocks(b.tools, 0) = {}
    BY <1>2, BridgeFields, NoCalls
  <2>3. CASE b.thinking # None
    <3>1. a = b /\ (~b.closed => b.thinking \in b.sent.open)
      BY <2>3 DEF OpenAiSound
    <3>2. Fit(c) /\ Keeps(b, c)
      BY <3>1, ConverseAppends
    <3> HIDE DEF c
    <3> QED BY <2>1, <3>2, KeepsSound DEF Keeps, Follows
  <2>4. CASE b.thinking = None
    <3>0. /\ "thinking" \in BlockKinds
          /\ ~b.closed => b.sent.rank <= KindRank("thinking")
      BY <1>2, KindRanks DEF BlockKinds, OpenAiSound
    <3>1. /\ Fit(e) /\ Follows(b, e)
          /\ b.nextIndex \in Index /\ b.nextIndex # None
          /\ b.closed \/ b.nextIndex \notin b.sent.open
          /\ ~b.closed => /\ e.sent.open = b.sent.open \cup {b.nextIndex}
                          /\ e.sent.rank = KindRank("thinking")
          /\ e.sent.args = b.sent.args
          /\ e.thinking = b.thinking /\ e.text = b.text /\ e.tools = b.tools
          /\ e.args = b.args
      BY <3>0, OpensForOpenAi
    <3> HIDE DEF e
    <3>2. /\ Fit(d) /\ Follows(e, d) /\ d.thinking = b.nextIndex
          /\ d.sent = e.sent /\ d.text = e.text /\ d.tools = e.tools /\ d.args = e.args
      BY <3>1, SetsThinking
    <3> HIDE DEF d
    <3>3. a = d
      BY <2>4
    <3>4. ASSUME ~b.closed PROVE OpenAiSound(d) /\ d.thinking \in d.sent.open
      <4>1. CallsSound(d, 0, 0)
        BY <3>1, <3>2, <3>4, CallsSame DEF OpenAiSound
      <4>2. b.sent.open = {} /\ d.sent.open = {b.nextIndex}
        BY <1>2, <2>2, <2>4, <3>1, <3>2, <3>4 DEF OpenAiSound
      <4>3. d.text = None /\ d.tools = <<>> /\ d.sent.rank = 1 /\ CallBlocks(d.tools, 0) = {}
        BY <1>2, <2>2, <3>1, <3>2, <3>4, KindRanks
      <4> QED BY <3>1, <3>2, <4>1, <4>2, <4>3 DEF OpenAiSound
    <3> HIDE DEF a
    <3>5. Fit(c) /\ Keeps(d, c)
      <4>1. ~d.closed => d.thinking \in d.sent.open
        BY <3>1, <3>2, <3>4 DEF Follows
      <4> QED BY <3>2, <3>3, <4>1, ConverseAppends
    <3> HIDE DEF c
    <3>6. ~b.closed => OpenAiSound(c)
      BY <3>4, <3>5, KeepsSound
    <3>7. Follows(b, c)
      BY <3>1, <3>2, <3>5 DEF Follows, Keeps
    <3> QED BY <2>1, <3>5, <3>6, <3>7
  <2> QED BY <2>3, <2>4
<1> QED BY <1>1, <1>2

LEMMA ContentSound ==
    ASSUME NEW b, Fit(b), path = "openai", b.started, ~b.closed => OpenAiSound(b)
    PROVE  LET c == Content(b)
           IN /\ Fit(c) /\ Follows(b, c)
              /\ ~b.closed => OpenAiSound(c)
<1>1. CASE b.text = None /\ b.tools # <<>>
  BY <1>1 DEF Content, Follows
<1>2. CASE b.text # None
  <2> DEFINE c == AppendText(b, b.text)
  <2>1. Content(b) = c
    BY <1>2 DEF Content, ContentWhenever
  <2>2. ~b.closed => b.text \in b.sent.open
    BY <1>2 DEF OpenAiSound
  <2>3. Fit(c) /\ Keeps(b, c)
    BY <2>2, ConverseAppends
  <2> HIDE DEF c
  <2> QED BY <2>1, <2>3, KeepsSound DEF Keeps, Follows
<1>3. CASE b.text = None /\ b.tools = <<>>
  <2> DEFINE a == CloseThinking(b)
             e == OpenBlock(a, "text")
             d == [e EXCEPT !.text = a.nextIndex]
             c == AppendText(d, d.text)
  <2>1. Content(b) = c
    BY <1>3 DEF Content, ContentWhenever
  <2>2. /\ Fit(a) /\ Follows(b, a) /\ a.tools = <<>> /\ a.text = None /\ a.started
        /\ ~a.closed => OpenAiSound(a) /\ a.thinking = None
    BY <1>3, ClosesThinking DEF Follows
  <2> HIDE DEF a
  <2>3. CallBlocks(a.tools, 0) = {}
    BY <2>2, BridgeFields, NoCalls
  <2>4. /\ "text" \in BlockKinds
        /\ ~a.closed => a.sent.rank <= KindRank("text")
    BY <2>2, BridgeFields, KindRanks DEF BlockKinds, OpenAiSound
  <2>5. /\ Fit(e) /\ Follows(a, e)
        /\ a.nextIndex \in Index /\ a.nextIndex # None
        /\ a.closed \/ a.nextIndex \notin a.sent.open
        /\ ~a.closed => /\ e.sent.open = a.sent.open \cup {a.nextIndex}
                        /\ e.sent.rank = KindRank("text")
        /\ e.sent.args = a.sent.args
        /\ e.thinking = a.thinking /\ e.text = a.text /\ e.tools = a.tools
        /\ e.args = a.args
    BY <2>2, <2>4, OpensForOpenAi
  <2> HIDE DEF e
  <2>6. /\ Fit(d) /\ Follows(e, d) /\ d.text = a.nextIndex
        /\ d.sent = e.sent /\ d.thinking = e.thinking /\ d.tools = e.tools /\ d.args = e.args
    BY <2>5, SetsText
  <2> HIDE DEF d
  <2>7. ASSUME ~b.closed PROVE OpenAiSound(d) /\ d.text \in d.sent.open
    <3>0. ~a.closed
      BY <2>2, <2>7 DEF Follows
    <3>1. CallsSound(d, 0, 0)
      BY <2>2, <2>5, <2>6, <3>0, CallsSame DEF OpenAiSound
    <3>2. a.sent.open = {} /\ d.sent.open = {a.nextIndex}
      BY <2>2, <2>3, <2>5, <2>6, <3>0 DEF OpenAiSound
    <3>3. d.thinking = None /\ d.tools = <<>> /\ d.sent.rank = 2 /\ CallBlocks(d.tools, 0) = {}
      BY <2>2, <2>3, <2>5, <2>6, <3>0, KindRanks
    <3> QED BY <2>5, <2>6, <3>1, <3>2, <3>3 DEF OpenAiSound
  <2>8. Fit(c) /\ Keeps(d, c)
    <3>1. ~d.closed => d.text \in d.sent.open
      BY <2>2, <2>5, <2>6, <2>7 DEF Follows
    <3> QED BY <2>6, <3>1, ConverseAppends
  <2> HIDE DEF c
  <2>9. ~b.closed => OpenAiSound(c)
    BY <2>7, <2>8, KeepsSound
  <2>10. Follows(b, c)
    BY <2>2, <2>5, <2>6, <2>8 DEF Follows, Keeps
  <2> QED BY <2>1, <2>8, <2>9, <2>10
<1> QED BY <1>1, <1>2, <1>3

\* One call is renewed: what is held back changes by its own part.
LEMMA RenewsCall ==
    ASSUME NEW calls \in Seq(Call), NEW n \in 1..Len(calls), NEW x \in Call
    PROVE  LET d == [calls EXCEPT ![n] = x]
           IN /\ d \in Seq(Call) /\ Len(d) = Len(calls) /\ d[n] = x
              /\ \A i \in 1..Len(calls) : i # n => d[i] = calls[i]
<1>1. calls \in [1..Len(calls) -> Call]
  OBVIOUS
<1>2. [calls EXCEPT ![n] = x] \in [1..Len(calls) -> Call]
  BY <1>1
<1>3. Len([calls EXCEPT ![n] = x]) = Len(calls)
  OBVIOUS
<1> QED BY <1>1, <1>2, <1>3

LEMMA RenewsHeld ==
    ASSUME NEW calls \in Seq(Call), NEW n \in 1..Len(calls), NEW m \in 0..(n - 1),
           NEW d \in Seq(Call), Len(d) = Len(calls),
           \A i \in 1..Len(calls) : i # n => d[i] = calls[i],
           NEW p \in [0..Len(calls) -> Int], HeldBack(calls, p)
    PROVE  \E q \in [0..Len(d) -> Int] :
              /\ HeldBack(d, q)
              /\ q[Len(d)] - q[m]
                    = (p[Len(calls)] - p[m]) + (d[n].pending - calls[n].pending)
<1> DEFINE N == Len(calls)
           z == d[n].pending - calls[n].pending
           q == [i \in 0..N |-> IF i >= n THEN p[i] + z ELSE p[i]]
<1>1. N \in Nat /\ n \in 1..N /\ m \in 0..N /\ n \in Nat /\ m \in Nat /\ m < n /\ Len(d) = N
  OBVIOUS
<1>2. \A i \in 1..N : d[i].pending \in Nat /\ calls[i].pending \in Nat
  <2>1. \A i \in 1..N : d[i] \in Call /\ calls[i] \in Call
    BY <1>1
  <2> QED BY <2>1 DEF Call
<1>3. z \in Int /\ d[n].pending = calls[n].pending + z
  BY <1>1, <1>2
<1> HIDE DEF z
<1>4. \A i \in 0..N : p[i] \in Int
  OBVIOUS
<1>5. q \in [0..N -> Int]
  BY <1>3, <1>4
<1>6. q[0] = 0
  BY <1>1 DEF HeldBack
<1>7. ASSUME NEW i \in 1..N PROVE q[i] = q[i - 1] + d[i].pending
  <2>1. p[i] = p[i - 1] + calls[i].pending /\ i \in 0..N /\ i - 1 \in 0..N
          /\ i \in Int /\ p[i] \in Int /\ p[i - 1] \in Int /\ calls[i].pending \in Nat
    BY <1>2, <1>4 DEF HeldBack
  <2>2. CASE i < n
    BY <1>1, <2>1, <2>2
  <2>3. CASE i = n
    <3>1. q[i] = p[i] + z /\ q[i - 1] = p[i - 1]
      BY <1>1, <2>1, <2>3
    <3>2. d[i].pending = calls[i].pending + z
      BY <1>3, <2>3
    <3> QED BY <1>3, <2>1, <3>1, <3>2
  <2>4. CASE i > n
    <3>1. q[i] = p[i] + z /\ q[i - 1] = p[i - 1] + z
      BY <1>1, <2>1, <2>4
    <3>2. d[i].pending = calls[i].pending
      BY <1>1, <2>4
    <3> QED BY <1>3, <2>1, <3>1, <3>2
  <2> QED BY <1>1, <2>2, <2>3, <2>4
<1>8. q[N] = p[N] + z /\ q[m] = p[m] /\ p[N] \in Int /\ p[m] \in Int
  BY <1>1, <1>4
<1> HIDE DEF q
<1>9. HeldBack(d, q)
  BY <1>1, <1>6, <1>7 DEF HeldBack
<1>10. q[N] - q[m] = (p[N] - p[m]) + z
  BY <1>3, <1>8
<1> QED BY <1>1, <1>5, <1>9, <1>10 DEF z

LEMMA AppendsHeld ==
    ASSUME NEW calls \in Seq(Call), NEW x \in Call, x.pending = 0,
           NEW p \in [0..Len(calls) -> Int], HeldBack(calls, p)
    PROVE  \E q \in [0..Len(Append(calls, x)) -> Int] :
              HeldBack(Append(calls, x), q) /\ q[Len(Append(calls, x))] = p[Len(calls)]
                 /\ q[0] = p[0]
<1> DEFINE N == Len(calls)
           d == Append(calls, x)
           q == [i \in 0..(N + 1) |-> IF i = N + 1 THEN p[N] ELSE p[i]]
<1>1. N \in Nat /\ Len(d) = N + 1 /\ d[N + 1] = x /\ \A i \in 1..N : d[i] = calls[i]
  OBVIOUS
<1> HIDE DEF d
<1>2. \A i \in 0..N : p[i] \in Int
  OBVIOUS
<1>3. q \in [0..(N + 1) -> Int] /\ q[N + 1] = p[N] /\ q[0] = p[0] /\ \A i \in 0..N : q[i] = p[i]
  BY <1>1, <1>2
<1> HIDE DEF q
<1>4. ASSUME NEW i \in 1..(N + 1) PROVE q[i] = q[i - 1] + d[i].pending
  <2>1. CASE i = N + 1
    <3>1. q[i] = p[N] /\ q[i - 1] = p[N] /\ d[i].pending = 0 /\ p[N] \in Int
      BY <1>1, <1>2, <1>3, <2>1
    <3> QED BY <3>1
  <2>2. CASE i # N + 1
    <3>1. i \in 1..N /\ i \in 0..N /\ i - 1 \in 0..N
      BY <1>1, <2>2
    <3> QED BY <1>1, <1>3, <3>1 DEF HeldBack
  <2> QED BY <2>1, <2>2
<1>5. HeldBack(d, q)
  BY <1>1, <1>3, <1>4 DEF HeldBack
<1> QED BY <1>1, <1>3, <1>5 DEF d

\* One call in its place: k fragments go from the hand to what it holds back, or
\* what it held back is sent when its block is opened.
LEMMA RenewsSound ==
    ASSUME NEW b, NEW c, b.tools \in Seq(Call), c.tools \in Seq(Call),
           Len(c.tools) = Len(b.tools),
           NEW n \in 1..Len(b.tools), NEW m \in 0..(n - 1),
           NEW k, k \in Nat, NEW l, l \in Nat,
           \A i \in 1..Len(b.tools) : i # n => c.tools[i] = b.tools[i],
           CallsSound(b, m, k),
           b.sent.args \in Nat, c.sent.args \in Nat, b.args \in Nat, c.args = b.args,
           c.sent.args + c.tools[n].pending + l = b.sent.args + b.tools[n].pending + k,
           c.tools[n].block # None => c.tools[n].pending = 0,
           \A i \in (m + 1)..Len(b.tools) :
              i # n /\ c.tools[n].block # None => b.tools[i].block # c.tools[n].block
    PROVE  CallsSound(c, m, l)
<1> DEFINE N == Len(b.tools)
<1>1. N \in Nat /\ n \in 1..N /\ n \in Nat /\ m \in Nat /\ m < n
  OBVIOUS
<1>2. b.tools[n].pending \in Nat /\ c.tools[n].pending \in Nat
  <2>1. b.tools[n] \in Call /\ c.tools[n] \in Call
    OBVIOUS
  <2> QED BY <2>1 DEF Call
<1>3. PICK p \in [0..N -> Int] : HeldBack(b.tools, p) /\ b.sent.args + (p[N] - p[m]) + k = b.args
  BY DEF CallsSound
<1>4. PICK q \in [0..Len(c.tools) -> Int] :
         /\ HeldBack(c.tools, q)
         /\ q[Len(c.tools)] - q[m]
               = (p[Len(b.tools)] - p[m]) + (c.tools[n].pending - b.tools[n].pending)
  <2>1. /\ b.tools \in Seq(Call) /\ c.tools \in Seq(Call) /\ n \in 1..Len(b.tools)
        /\ m \in 0..(n - 1) /\ Len(c.tools) = Len(b.tools)
        /\ \A i \in 1..Len(b.tools) : i # n => c.tools[i] = b.tools[i]
    OBVIOUS
  <2> QED BY <1>3, <2>1, RenewsHeld
<1>9. q \in [0..N -> Int] /\ N \in 0..N /\ m \in 0..N /\ Len(c.tools) = N
  BY <1>1, <1>4
<1>5. p[N] \in Int /\ p[m] \in Int /\ q[N] \in Int /\ q[m] \in Int
  BY <1>3, <1>9
<1>6. c.sent.args + (q[N] - q[m]) + l = c.args
  <2>1. /\ b.sent.args + (p[N] - p[m]) + k = b.args
        /\ q[N] - q[m] = (p[N] - p[m]) + (c.tools[n].pending - b.tools[n].pending)
    BY <1>3, <1>4, <1>9
  <2>2. k \in Nat /\ l \in Nat /\ b.sent.args \in Nat /\ c.sent.args \in Nat /\ b.args \in Nat
        /\ c.args = b.args
        /\ c.sent.args + c.tools[n].pending + l = b.sent.args + b.tools[n].pending + k
    OBVIOUS
  <2>3. p[N] - p[m] \in Int /\ q[N] - q[m] \in Int
    BY <1>5
  <2> DEFINE a == b.sent.args
             e == c.sent.args
             t == b.args
             x == p[N] - p[m]
             y == q[N] - q[m]
             z == b.tools[n].pending
             w == c.tools[n].pending
  <2>4. /\ a \in Nat /\ e \in Nat /\ t \in Nat /\ x \in Int /\ y \in Int /\ z \in Nat /\ w \in Nat
        /\ a + x + k = t /\ y = x + (w - z) /\ e + w + l = a + z + k
    BY <1>2, <2>1, <2>2, <2>3
  <2> HIDE DEF a, e, t, x, y, z, w
  <2>5. e + y + l = t
    BY <2>4
  <2> QED BY <2>2, <2>5 DEF e, y, t
<1>7. \A i, j \in (m + 1)..N :
         i # j /\ c.tools[j].block # None => c.tools[i].block # c.tools[j].block
  <2> SUFFICES ASSUME NEW i \in (m + 1)..N, NEW j \in (m + 1)..N,
                      i # j, c.tools[j].block # None
               PROVE  c.tools[i].block # c.tools[j].block
    OBVIOUS
  <2>1. i \in 1..N /\ j \in 1..N
    BY <1>1
  <2>2. CASE i # n /\ j # n
    BY <2>1, <2>2 DEF CallsSound
  <2>3. CASE j = n
    BY <2>1, <2>3
  <2>4. CASE i = n
    <3>1. c.tools[j] = b.tools[j]
      BY <2>1, <2>4
    <3> QED BY <2>1, <2>4, <3>1
  <2> QED BY <2>2, <2>3, <2>4
<1>8. \A i \in 1..N : c.tools[i].block # None => c.tools[i].pending = 0
  BY DEF CallsSound
<1> QED BY <1>4, <1>6, <1>7, <1>8, <1>9 DEF CallsSound

\* The block of a call opens and what it held back is sent.
LEMMA OpensTool ==
    ASSUME NEW b, Fit(b), path = "openai", ~b.closed => b.started,
           NEW n \in 1..Len(b.tools), NEW m \in 0..(n - 1),
           b.tools[n].block = None,
           ~b.closed => CallsOpen(b, m, 0)
    PROVE  LET c == OpenToolBlock(b, n)
           IN /\ Fit(c) /\ Follows(b, c) /\ c.args = b.args
              /\ Len(c.tools) = Len(b.tools)
              /\ c.tools[n].block # None /\ c.tools[n].pending = 0
              /\ c.tools[n].tool = b.tools[n].tool
              /\ \A i \in 1..Len(b.tools) : i # n => c.tools[i] = b.tools[i]
              /\ ~b.closed => CallsOpen(c, m, 0)
<1> DEFINE i == b.nextIndex
           pending == b.tools[n].pending
           e == OpenBlock(b, "tool_use")
           x == [b.tools[n] EXCEPT !.block = i]
           f == [b.tools EXCEPT ![n] = x]
           d == [e EXCEPT !.tools = f]
           y == [x EXCEPT !.pending = 0]
           g == [f EXCEPT ![n] = y]
           a == AppendArgs(d, i, pending)
           h == [a EXCEPT !.tools = g]
           c == IF pending = 0 THEN d ELSE h
<1>1. /\ b.tools \in Seq(Call) /\ b.tools[n] \in Call /\ pending \in Nat
      /\ i \in Index /\ i # None /\ "tool_use" \in BlockKinds
      /\ n \in Nat /\ m \in Nat /\ m < n /\ Len(b.tools) \in Nat
      /\ i \in Nat
  <2>1. b.tools \in Seq(Call) /\ i \in Nat /\ None \notin Nat
    BY BridgeFields
  <2>2. b.tools[n] \in Call
    BY <2>1
  <2> QED BY <2>1, <2>2 DEF Call, Index, BlockKinds
<1>2. /\ Fit(e) /\ Follows(b, e)
      /\ b.closed \/ i \notin b.sent.open
      /\ ~b.closed => e.sent.open = b.sent.open \cup {i}
      /\ e.sent.args = b.sent.args
      /\ e.thinking = b.thinking /\ e.text = b.text /\ e.tools = b.tools
      /\ e.args = b.args
  <2>1. ~b.closed => b.sent.rank <= KindRank("tool_use")
    BY BridgeFields, KindRanks
  <2> QED BY <1>1, <2>1, OpensForOpenAi
<1> HIDE DEF e
<1>3. x \in Call /\ x.block = i /\ x.pending = pending /\ x.tool = b.tools[n].tool
  BY <1>1 DEF Call
<1>4. y \in Call /\ y.block = i /\ y.pending = 0 /\ y.tool = b.tools[n].tool
        /\ (pending = 0 => y = x)
  <2> HIDE DEF x
  <2> QED BY <1>3 DEF Call
<1> HIDE DEF x, y
<1>5. /\ f \in Seq(Call) /\ Len(f) = Len(b.tools) /\ f[n] = x
      /\ \A j \in 1..Len(b.tools) : j # n => f[j] = b.tools[j]
  BY <1>1, <1>3, RenewsCall
<1> HIDE DEF f
<1>6. /\ g \in Seq(Call) /\ Len(g) = Len(b.tools) /\ g[n] = y
      /\ \A j \in 1..Len(b.tools) : j # n => g[j] = b.tools[j]
  BY <1>4, <1>5, RenewsCall
<1> HIDE DEF g
<1>7. /\ Fit(d) /\ Follows(e, d) /\ d.tools = f
      /\ d.sent = e.sent /\ d.thinking = e.thinking /\ d.text = e.text /\ d.args = e.args
  BY <1>2, <1>5, SetsTools
<1>8. OpenToolBlock(b, n) = c
  <2>1. [e EXCEPT !.tools[n].block = b.nextIndex] = d
    BY <1>2 DEF f, x
  <2>2. [a EXCEPT !.tools[n].pending = 0]
          = [a EXCEPT !.tools = [a.tools EXCEPT ![n] = [a.tools[n] EXCEPT !.pending = 0]]]
    OBVIOUS
  <2>3. a.tools = f
    <3>1. ~d.closed => i \in d.sent.open
      BY <1>2, <1>7 DEF Follows
    <3> HIDE DEF d, i, pending
    <3>2. Wrote(d, pending, a)
      BY <1>1, <1>7, <3>1, ArgsForOpenAi
    <3> HIDE DEF a
    <3> QED BY <1>7, <3>2 DEF Wrote
  <2> HIDE DEF d, a
  <2>4. [a EXCEPT !.tools[n].pending = 0] = h
    BY <1>5, <2>2, <2>3 DEF g, y
  <2> QED BY <2>1, <2>4 DEF OpenToolBlock, e, a
<1>9. ~d.closed => i \in d.sent.open
  BY <1>2, <1>7 DEF Follows
<1>10. /\ Fit(a) /\ Follows(d, a) /\ a.sent.open = d.sent.open
       /\ ~d.closed => a.sent.args = d.sent.args + pending
       /\ a.thinking = d.thinking /\ a.text = d.text /\ a.tools = d.tools
       /\ a.args = d.args
  <2> HIDE DEF d, i, pending
  <2>1. Wrote(d, pending, a)
    BY <1>1, <1>7, <1>9, ArgsForOpenAi
  <2> HIDE DEF a
  <2> QED BY <2>1 DEF Wrote
<1> HIDE DEF a, d
<1>11. /\ Fit(h) /\ Follows(a, h) /\ h.tools = g
       /\ h.sent = a.sent /\ h.thinking = a.thinking /\ h.text = a.text /\ h.args = a.args
  BY <1>6, <1>10, SetsTools
<1> HIDE DEF h, i
<1>12. /\ Fit(c) /\ Follows(b, c) /\ c.args = b.args /\ c.tools \in Seq(Call)
       /\ Len(c.tools) = Len(b.tools) /\ c.tools[n] = y
       /\ \A j \in 1..Len(b.tools) : j # n => c.tools[j] = b.tools[j]
       /\ c.thinking = b.thinking /\ c.text = b.text
       /\ ~b.closed => c.sent.open = b.sent.open \cup {i} /\ c.sent.args = b.sent.args + pending
  <2>1. CASE pending = 0
    <3>1. c = d /\ y = x
      BY <1>4, <2>1
    <3>2. ~b.closed => c.sent.args = b.sent.args + pending
      BY <1>2, <1>7, <2>1, <3>1, BridgeFields
    <3> HIDE DEF c
    <3> QED BY <1>2, <1>5, <1>7, <3>1, <3>2 DEF Follows
  <2>2. CASE pending # 0
    <3>1. c = h
      BY <2>2
    <3> HIDE DEF c
    <3> QED BY <1>2, <1>6, <1>7, <1>10, <1>11, <3>1 DEF Follows
  <2> QED BY <2>1, <2>2
<1> HIDE DEF c
<1>13. ASSUME ~b.closed PROVE CallsOpen(c, m, 0)
  <2>1. /\ CallsSound(b, m, 0) /\ b.thinking = None /\ b.text = None
        /\ b.sent.open = CallBlocks(b.tools, m) \ {None}
    BY <1>13 DEF CallsOpen
  <2>2. \A j \in (m + 1)..Len(b.tools) : b.tools[j].block # i
    BY <1>1, <1>2, <1>13, <2>1 DEF CallBlocks
  <2>3. CallBlocks(c.tools, m) \ {None} = (CallBlocks(b.tools, m) \ {None}) \cup {i}
    <3>1. n \in (m + 1)..Len(b.tools)
      BY <1>1
    <3>2. \A j \in (m + 1)..Len(b.tools) : c.tools[j].block = IF j = n THEN i ELSE b.tools[j].block
      BY <1>1, <1>4, <1>12
    <3>3. CallBlocks(c.tools, m) \subseteq CallBlocks(b.tools, m) \cup {i}
      BY <1>12, <3>2 DEF CallBlocks
    <3>4. i \in CallBlocks(c.tools, m)
      BY <1>12, <3>1, <3>2 DEF CallBlocks
    <3>5. CallBlocks(b.tools, m) \ {None} \subseteq CallBlocks(c.tools, m)
      BY <1>12, <3>1, <3>2 DEF CallBlocks
    <3> QED BY <1>1, <3>3, <3>4, <3>5
  <2>4. CallsSound(c, m, 0)
    <3>1. /\ b.sent.args \in Nat /\ c.sent.args \in Nat /\ b.args \in Nat
      BY <1>12, BridgeFields
    <3>2. c.sent.args + c.tools[n].pending + 0 = b.sent.args + b.tools[n].pending + 0
      BY <1>1, <1>4, <1>12, <1>13, <3>1
    <3>3. c.tools[n].block # None => c.tools[n].pending = 0
      BY <1>4, <1>12
    <3>4. \A j \in (m + 1)..Len(b.tools) :
              j # n /\ c.tools[n].block # None => b.tools[j].block # c.tools[n].block
      BY <1>4, <1>12, <2>2
    <3>5. m \in 0..(n - 1) /\ 0 \in Nat /\ n \in 1..Len(b.tools)
      BY <1>1
    <3>6. /\ b.tools \in Seq(Call) /\ c.tools \in Seq(Call) /\ Len(c.tools) = Len(b.tools)
          /\ \A j \in 1..Len(b.tools) : j # n => c.tools[j] = b.tools[j]
          /\ c.args = b.args /\ CallsSound(b, m, 0)
      BY <1>1, <1>12, <2>1
    <3> QED BY <3>1, <3>2, <3>3, <3>4, <3>5, <3>6, RenewsSound
  <2> QED BY <1>12, <1>13, <2>1, <2>3, <2>4 DEF CallsOpen
<1> QED BY <1>1, <1>4, <1>8, <1>12, <1>13

LEMMA Counts ==
    ASSUME NEW b, Fit(b), NEW k \in Nat
    PROVE  LET c == [b EXCEPT !.chars = @ + k, !.args = @ + k]
           IN /\ Fit(c) /\ Follows(b, c) /\ c.args = b.args + k
              /\ c.sent = b.sent /\ c.thinking = b.thinking /\ c.text = b.text
              /\ c.tools = b.tools
<1> DEFINE x == b.chars + k
           y == b.args + k
           c == [b EXCEPT !.chars = x, !.args = y]
<1>1. x \in Nat /\ y \in Nat
  BY BridgeFields
<1> HIDE DEF x, y
<1>2. c \in Bridge
  BY <1>1 DEF Fit, Bridge
<1>3. /\ c.closed = b.closed /\ c.sent = b.sent /\ c.started = b.started
      /\ c.nextIndex = b.nextIndex /\ c.openBlock = b.openBlock /\ c.pingTimer = b.pingTimer
      /\ c.emitted = b.emitted /\ c.reported = b.reported /\ c.running = b.running
      /\ c.thinking = b.thinking /\ c.text = b.text /\ c.tools = b.tools /\ c.args = y
  BY DEF Fit, Bridge
<1> HIDE DEF c
<1>4. Fit(c)
  BY <1>2, <1>3 DEF Fit, EmitterSound
<1>5. c = [b EXCEPT !.chars = @ + k, !.args = @ + k]
  BY DEF c, x, y
<1> QED BY <1>3, <1>4, <1>5 DEF Follows, y

\* Fragments received and not yet sent or held back are in hand.
LEMMA TakesInHand ==
    ASSUME NEW b, NEW c, c.tools = b.tools, c.sent = b.sent, NEW k \in Nat,
           b.args \in Nat, b.sent.args \in Nat, b.tools \in Seq(Call),
           c.args = b.args + k, CallsSound(b, 0, 0)
    PROVE  CallsSound(c, 0, k)
<1>1. PICK p \in [0..Len(b.tools) -> Int] :
         HeldBack(b.tools, p) /\ b.sent.args + (p[Len(b.tools)] - p[0]) + 0 = b.args
  BY DEF CallsSound
<1>2. p[Len(b.tools)] \in Int /\ p[0] \in Int
  OBVIOUS
<1>3. b.sent.args + (p[Len(b.tools)] - p[0]) + k = c.args
  BY <1>1, <1>2
<1> QED BY <1>1, <1>3 DEF CallsSound

LEMMA ToolCallSound ==
    ASSUME NEW b, Fit(b), path = "openai", b.started, ~b.closed => OpenAiSound(b),
           NEW call, call.tool \in Tool, call.id \in BOOLEAN, call.args \in Nat
    PROVE  LET c == ToolCall(b, call)
           IN /\ Fit(c) /\ Follows(b, c)
              /\ ~b.closed => OpenAiSound(c)
<1> DEFINE a == CloseText(CloseThinking(b))
           known == \E n \in DOMAIN a.tools : a.tools[n].tool = call.tool
           x == [tool |-> call.tool, block |-> None, pending |-> 0]
           w == IF known THEN a ELSE [a EXCEPT !.tools = Append(@, x)]
           n == CHOOSE k \in DOMAIN w.tools : w.tools[k].tool = call.tool
           v == IF w.tools[n].block = None /\ call.id THEN OpenToolBlock(w, n) ELSE w
           u == [v EXCEPT !.chars = @ + call.args, !.args = @ + call.args]
           held == [u EXCEPT !.tools[n].pending = @ + call.args]
           sent == AppendArgs(u, u.tools[n].block, call.args)
<1>1. /\ Fit(a) /\ Follows(b, a)
      /\ ~b.closed => CallsOpen(a, 0, 0)
  BY ClosesText
<1>2. ToolCall(b, call) = IF call.args = 0 THEN u
                          ELSE IF u.tools[n].block = None THEN held ELSE sent
  BY DEF ToolCall
<1> HIDE DEF a
<1>3. a.tools \in Seq(Call) /\ a.tools \in [1..Len(a.tools) -> Call] /\ Len(a.tools) \in Nat
  <2>1. a.tools \in Seq(Call)
    BY <1>1, BridgeFields
  <2> QED BY <2>1
<1>4. /\ Fit(w) /\ Follows(a, w)
      /\ ~a.closed => CallsOpen(w, 0, 0)
      /\ \E k \in DOMAIN w.tools : w.tools[k].tool = call.tool
  <2>1. CASE known
    BY <1>1, <2>1 DEF Follows
  <2>2. CASE ~known
    <3> DEFINE t == Append(a.tools, x)
               z == [a EXCEPT !.tools = t]
    <3>1. x \in Call /\ x.pending = 0 /\ x.block = None /\ x.tool = call.tool
      BY DEF Call, Index
    <3> HIDE DEF x
    <3>2. /\ t \in Seq(Call) /\ Len(t) = Len(a.tools) + 1 /\ t[Len(a.tools) + 1] = x
          /\ \A k \in 1..Len(a.tools) : t[k] = a.tools[k]
          /\ DOMAIN t = 1..(Len(a.tools) + 1)
      BY <1>3, <3>1
    <3>3. w = z
      BY <2>2 DEF x
    <3> HIDE DEF w
    <3>4. /\ Fit(z) /\ Follows(a, z) /\ z.tools = t
          /\ z.sent = a.sent /\ z.thinking = a.thinking /\ z.text = a.text /\ z.args = a.args
      <4> HIDE DEF t
      <4> QED BY <1>1, <3>2, SetsTools
    <3> HIDE DEF z
    <3>5. ASSUME ~a.closed PROVE CallsOpen(z, 0, 0)
      <4>1. /\ CallsSound(a, 0, 0) /\ a.thinking = None /\ a.text = None
            /\ a.sent.open = CallBlocks(a.tools, 0) \ {None}
        BY <1>1, <3>5 DEF CallsOpen, Follows
      <4>2. CallBlocks(t, 0) \ {None} = CallBlocks(a.tools, 0) \ {None}
        <5>1. \A k \in 1..Len(a.tools) : t[k].block = a.tools[k].block
          BY <3>2
        <5>2. t[Len(a.tools) + 1].block = None
          BY <3>1, <3>2
        <5>3. Len(t) = Len(a.tools) + 1
          BY <3>2
        <5> HIDE DEF t
        <5>4. \A k \in 1..Len(t) : k \in 1..Len(a.tools) \/ k = Len(a.tools) + 1
          BY <1>3, <5>3
        <5>5. \A k \in 1..Len(a.tools) : k \in 1..Len(t)
          BY <1>3, <5>3
        <5>6. CallBlocks(t, 0) \ {None} \subseteq CallBlocks(a.tools, 0)
          <6> SUFFICES ASSUME NEW k \in (0 + 1)..Len(t), t[k].block # None
                       PROVE  t[k].block \in CallBlocks(a.tools, 0)
            BY DEF CallBlocks
          <6>1. k \in 1..Len(t)
            OBVIOUS
          <6>2. k \in 1..Len(a.tools) /\ k \in (0 + 1)..Len(a.tools)
            BY <5>2, <5>4, <6>1
          <6> QED BY <5>1, <6>2 DEF CallBlocks
        <5>7. CallBlocks(a.tools, 0) \subseteq CallBlocks(t, 0)
          BY <5>1, <5>5 DEF CallBlocks
        <5> QED BY <5>6, <5>7
      <4>3. PICK p \in [0..Len(a.tools) -> Int] :
               /\ HeldBack(a.tools, p)
               /\ a.sent.args + (p[Len(a.tools)] - p[0]) + 0 = a.args
        BY <4>1 DEF CallsSound
      <4>4. PICK q \in [0..Len(t) -> Int] :
               HeldBack(t, q) /\ q[Len(t)] = p[Len(a.tools)] /\ q[0] = p[0]
        BY <1>3, <3>1, <4>3, AppendsHeld
      <4> HIDE DEF t
      <4>5. z.sent.args + (q[Len(z.tools)] - q[0]) + 0 = z.args /\ HeldBack(z.tools, q)
        BY <3>4, <4>3, <4>4
      <4>6. \A i, j \in (0 + 1)..Len(t) :
               i # j /\ t[j].block # None => t[i].block # t[j].block
        <5> SUFFICES ASSUME NEW i \in (0 + 1)..Len(t), NEW j \in (0 + 1)..Len(t),
                            i # j, t[j].block # None
                     PROVE  t[i].block # t[j].block
          OBVIOUS
        <5>1. j \in 1..Len(a.tools)
          BY <1>3, <3>1, <3>2
        <5>2. CASE i \in 1..Len(a.tools)
          <6>1. a.tools[i].block # a.tools[j].block \/ t[j].block = None
            BY <3>2, <4>1, <5>1, <5>2 DEF CallsSound
          <6>2. t[i] = a.tools[i] /\ t[j] = a.tools[j]
            BY <3>2, <5>1, <5>2
          <6> QED BY <6>1, <6>2
        <5>3. CASE i \notin 1..Len(a.tools)
          BY <1>3, <3>1, <3>2, <5>3
        <5> QED BY <5>2, <5>3
      <4>7. \A i \in 1..Len(t) : t[i].block # None => t[i].pending = 0
        <5> SUFFICES ASSUME NEW i \in 1..Len(t), t[i].block # None
                     PROVE  t[i].pending = 0
          OBVIOUS
        <5>1. i \in 1..Len(a.tools)
          BY <1>3, <3>1, <3>2
        <5> QED BY <3>2, <4>1, <5>1 DEF CallsSound
      <4>8. CallsSound(z, 0, 0)
        BY <3>4, <4>4, <4>5, <4>6, <4>7 DEF CallsSound
      <4> QED BY <3>4, <4>1, <4>2, <4>8 DEF CallsOpen
    <3>6. \E k \in DOMAIN z.tools : z.tools[k].tool = call.tool
      <4> HIDE DEF t
      <4>1. Len(a.tools) + 1 \in DOMAIN t
        BY <1>3, <3>2
      <4> QED BY <3>1, <3>2, <3>4, <4>1
    <3> QED BY <3>3, <3>4, <3>5, <3>6
  <2> QED BY <2>1, <2>2
<1> HIDE DEF w, known, x
<1>5. w.tools \in Seq(Call) /\ w.tools \in [1..Len(w.tools) -> Call] /\ Len(w.tools) \in Nat
  <2>1. w.tools \in Seq(Call)
    BY <1>4, BridgeFields
  <2> QED BY <2>1
<1>6. n \in 1..Len(w.tools)
  <2>1. n \in DOMAIN w.tools
    BY <1>4
  <2> QED BY <1>5, <2>1
<1> HIDE DEF n
<1>7. /\ Fit(v) /\ Follows(w, v)
      /\ ~w.closed => CallsOpen(v, 0, 0)
      /\ Len(v.tools) = Len(w.tools)
  <2>1. CASE w.tools[n].block = None /\ call.id
    <3> DEFINE z == OpenToolBlock(w, n)
    <3>1. v = z
      BY <2>1
    <3>2. ~w.closed => w.started
      BY <1>1, <1>4 DEF Follows
    <3>3. 0 \in 0..(n - 1)
      BY <1>5, <1>6
    <3>4. ~w.closed => CallsOpen(w, 0, 0)
      BY <1>4 DEF Follows
    <3>5. /\ Fit(z) /\ Follows(w, z) /\ Len(z.tools) = Len(w.tools)
          /\ ~w.closed => CallsOpen(z, 0, 0)
      BY <1>4, <1>6, <2>1, <3>2, <3>3, <3>4, OpensTool
    <3> HIDE DEF v, z
    <3> QED BY <3>1, <3>5
  <2>2. CASE ~(w.tools[n].block = None /\ call.id)
    <3>1. v = w
      BY <2>2
    <3> HIDE DEF v
    <3> QED BY <1>4, <3>1 DEF Follows
  <2> QED BY <2>1, <2>2
<1> HIDE DEF v
<1>8. /\ Fit(u) /\ Follows(v, u) /\ u.args = v.args + call.args
      /\ u.sent = v.sent /\ u.thinking = v.thinking /\ u.text = v.text /\ u.tools = v.tools
  BY <1>7, Counts
<1> HIDE DEF u
<1>9. /\ u.tools \in Seq(Call) /\ Len(u.tools) = Len(w.tools) /\ u.tools[n] \in Call
      /\ n \in 1..Len(u.tools)
  <2>1. u.tools \in Seq(Call)
    BY <1>8, BridgeFields
  <2> QED BY <1>5, <1>6, <1>7, <1>8, <2>1
<1>10. Follows(b, u) /\ u.closed = b.closed
  BY <1>1, <1>4, <1>7, <1>8 DEF Follows
<1>11. ASSUME ~b.closed
       PROVE  /\ u.thinking = None /\ u.text = None
              /\ u.sent.open = CallBlocks(u.tools, 0) \ {None}
              /\ CallsSound(u, 0, call.args)
  <2>1. CallsOpen(v, 0, 0)
    BY <1>1, <1>4, <1>7, <1>11 DEF Follows
  <2>2. CallsSound(u, 0, call.args)
    <3>1. v.args \in Nat /\ v.sent.args \in Nat /\ v.tools \in Seq(Call)
      BY <1>7, BridgeFields
    <3> QED BY <1>8, <2>1, <3>1, TakesInHand DEF CallsOpen
  <2> QED BY <1>8, <2>1, <2>2 DEF CallsOpen
<1>12. \A c : /\ ~b.closed => CallsOpen(c, 0, 0)
              /\ c.tools \in Seq(Call) /\ Len(c.tools) = Len(u.tools)
              => (~b.closed => OpenAiSound(c))
  <2> SUFFICES ASSUME NEW c, CallsOpen(c, 0, 0), c.tools \in Seq(Call),
                      Len(c.tools) = Len(u.tools)
               PROVE  OpenAiSound(c)
    OBVIOUS
  <2>1. c.tools # <<>>
    BY <1>9
  <2> QED BY <2>1 DEF CallsOpen, OpenAiSound
<1>13. CASE call.args = 0
  <2>1. ~b.closed => CallsOpen(u, 0, 0)
    BY <1>11, <1>13 DEF CallsOpen
  <2> QED BY <1>2, <1>8, <1>9, <1>10, <1>12, <1>13, <2>1
<1>14. CASE call.args # 0 /\ u.tools[n].block = None
  <2> DEFINE k == u.tools[n].pending + call.args
             y == [u.tools[n] EXCEPT !.pending = k]
             t == [u.tools EXCEPT ![n] = y]
             c == [u EXCEPT !.tools = t]
  <2>1. held = c
    OBVIOUS
  <2>2. k \in Nat /\ u.tools[n].pending \in Nat
    BY <1>9 DEF Call
  <2> HIDE DEF k
  <2>3. y \in Call /\ y.pending = k /\ y.block = None
    BY <1>9, <1>14, <2>2 DEF Call
  <2> HIDE DEF y
  <2>4. /\ t \in Seq(Call) /\ Len(t) = Len(u.tools) /\ t[n] = y
        /\ \A i \in 1..Len(u.tools) : i # n => t[i] = u.tools[i]
    BY <1>9, <2>3, RenewsCall
  <2> HIDE DEF t
  <2>5. /\ Fit(c) /\ Follows(u, c) /\ c.tools = t
        /\ c.sent = u.sent /\ c.thinking = u.thinking /\ c.text = u.text /\ c.args = u.args
    BY <1>8, <2>4, SetsTools
  <2> HIDE DEF c
  <2>6. ASSUME ~b.closed PROVE CallsOpen(c, 0, 0)
    <3>1. CallBlocks(c.tools, 0) = CallBlocks(u.tools, 0)
      <4>1. \A i \in 1..Len(u.tools) : t[i].block = u.tools[i].block
        BY <1>14, <2>3, <2>4
      <4> QED BY <2>4, <2>5, <4>1 DEF CallBlocks
    <3>2. CallsSound(c, 0, 0)
      <4>1. /\ u.sent.args \in Nat /\ u.args \in Nat /\ c.sent.args = u.sent.args
        BY <1>8, <2>5, BridgeFields
      <4>2. c.sent.args + c.tools[n].pending + 0 = u.sent.args + u.tools[n].pending + call.args
        BY <2>2, <2>3, <2>4, <2>5, <4>1 DEF k
      <4>3. c.tools[n].block = None
        BY <2>3, <2>4, <2>5
      <4>4. 0 \in 0..(n - 1) /\ 0 \in Nat
        BY <1>5, <1>6
      <4>5. /\ c.tools \in Seq(Call) /\ Len(c.tools) = Len(u.tools) /\ c.args = u.args
            /\ \A i \in 1..Len(u.tools) : i # n => c.tools[i] = u.tools[i]
            /\ u.tools \in Seq(Call) /\ n \in 1..Len(u.tools)
        BY <1>9, <2>4, <2>5
      <4>6. CallsSound(u, 0, call.args)
        BY <1>11, <2>6
      <4> QED BY <4>1, <4>2, <4>3, <4>4, <4>5, <4>6, RenewsSound
    <3> QED BY <1>11, <2>5, <2>6, <3>1, <3>2 DEF CallsOpen
  <2>7. ToolCall(b, call) = c
    BY <1>2, <1>14, <2>1
  <2>8. Follows(b, c) /\ c.tools \in Seq(Call) /\ Len(c.tools) = Len(u.tools)
    BY <1>10, <2>4, <2>5 DEF Follows
  <2> QED BY <1>12, <2>5, <2>6, <2>7, <2>8
<1>15. CASE call.args # 0 /\ u.tools[n].block # None
  <2> DEFINE i == u.tools[n].block
             c == AppendArgs(u, i, call.args)
  <2>1. ~u.closed => i \in u.sent.open
    BY <1>9, <1>10, <1>11, <1>15 DEF CallBlocks
  <2> HIDE DEF i
  <2>2. Wrote(u, call.args, c)
    BY <1>8, <2>1, ArgsForOpenAi
  <2>3. ToolCall(b, call) = c
    BY <1>2, <1>15 DEF i
  <2> HIDE DEF c
  <2>4. /\ Fit(c) /\ Follows(u, c) /\ c.sent.open = u.sent.open
        /\ ~u.closed => c.sent.args = u.sent.args + call.args
        /\ c.thinking = u.thinking /\ c.text = u.text /\ c.tools = u.tools /\ c.args = u.args
    BY <2>2 DEF Wrote
  <2>5. ASSUME ~b.closed PROVE CallsOpen(c, 0, 0)
    <3>1. CallsSound(c, 0, 0)
      <4>1. /\ u.sent.args \in Nat /\ u.args \in Nat /\ c.sent.args \in Nat
        BY <1>8, <2>4, BridgeFields
      <4>2. CallsSound(u, 0, call.args)
        BY <1>11, <2>5
      <4>3. c.tools[n].pending = u.tools[n].pending /\ u.tools[n].pending = 0
        BY <1>9, <1>15, <2>4, <4>2 DEF CallsSound
      <4>4. c.sent.args = u.sent.args + call.args
        BY <1>10, <2>4, <2>5
      <4>5. c.sent.args + c.tools[n].pending + 0 = u.sent.args + u.tools[n].pending + call.args
        BY <4>1, <4>3, <4>4
      <4>6. 0 \in 0..(n - 1) /\ 0 \in Nat
        BY <1>5, <1>6
      <4>7. /\ c.tools \in Seq(Call) /\ Len(c.tools) = Len(u.tools) /\ c.args = u.args
            /\ \A j \in 1..Len(u.tools) : j # n => c.tools[j] = u.tools[j]
            /\ u.tools \in Seq(Call) /\ n \in 1..Len(u.tools)
        BY <1>9, <2>4
      <4>8. \A j \in (0 + 1)..Len(u.tools) :
               j # n /\ c.tools[n].block # None => u.tools[j].block # c.tools[n].block
        BY <1>9, <2>4, <4>2 DEF CallsSound
      <4>9. c.tools[n].block # None => c.tools[n].pending = 0
        BY <4>3
      <4> QED BY <4>1, <4>2, <4>5, <4>6, <4>7, <4>8, <4>9, RenewsSound, SMTT(60)
    <3> QED BY <1>11, <2>4, <2>5, <3>1 DEF CallsOpen
  <2>6. Follows(b, c) /\ c.tools \in Seq(Call) /\ Len(c.tools) = Len(u.tools)
    BY <1>9, <1>10, <2>4 DEF Follows
  <2> QED BY <1>12, <2>3, <2>4, <2>5, <2>6
<1> QED BY <1>13, <1>14, <1>15

LEMMA ClosesTool ==
    ASSUME NEW b, Fit(b), path = "openai", ~b.closed => b.started,
           NEW n \in 1..Len(b.tools), ~b.closed => CallsOpen(b, n - 1, 0)
    PROVE  LET c == CloseTool(b, n)
           IN /\ Fit(c) /\ Follows(b, c) /\ c.args = b.args /\ Len(c.tools) = Len(b.tools)
              /\ ~b.closed => CallsOpen(c, n, 0)
<1> DEFINE a == IF b.tools[n].block = None THEN OpenToolBlock(b, n) ELSE b
           i == a.tools[n].block
           c == StopBlock(a, i)
<1>1. b.tools \in Seq(Call) /\ Len(b.tools) \in Nat /\ n \in Nat /\ n - 1 \in 0..(n - 1)
  <2>1. b.tools \in Seq(Call)
    BY BridgeFields
  <2> QED BY <2>1
<1>2. /\ Fit(a) /\ Follows(b, a) /\ a.args = b.args /\ Len(a.tools) = Len(b.tools)
      /\ ~b.closed => CallsOpen(a, n - 1, 0) /\ i # None
  <2>1. CASE b.tools[n].block = None
    <3> DEFINE z == OpenToolBlock(b, n)
    <3>1. a = z
      BY <2>1
    <3>2. /\ Fit(z) /\ Follows(b, z) /\ z.args = b.args /\ Len(z.tools) = Len(b.tools)
          /\ z.tools[n].block # None
          /\ ~b.closed => CallsOpen(z, n - 1, 0)
      BY <1>1, <2>1, OpensTool
    <3> HIDE DEF a, z
    <3> QED BY <3>1, <3>2
  <2>2. CASE b.tools[n].block # None
    BY <2>2 DEF Follows
  <2> QED BY <2>1, <2>2
<1>3. CloseTool(b, n) = c
  BY DEF CloseTool
<1> HIDE DEF a
<1>4. a.tools \in Seq(Call) /\ n \in 1..Len(a.tools) /\ Len(a.tools) = Len(b.tools)
  BY <1>1, <1>2, BridgeFields
<1>5. ~b.closed => i \in a.sent.open
  <2>1. n \in ((n - 1) + 1)..Len(a.tools)
    BY <1>1, <1>4
  <2> QED BY <1>2, <2>1 DEF CallsOpen, CallBlocks
<1> HIDE DEF i
<1>6. /\ Fit(c) /\ Follows(a, c)
      /\ ~a.closed => c.sent.open = a.sent.open \ {i} /\ c.sent.rank = a.sent.rank
      /\ c.sent.args = a.sent.args
      /\ c.thinking = a.thinking /\ c.text = a.text /\ c.tools = a.tools
      /\ c.args = a.args
  <2>1. ~a.closed => i \in a.sent.open
    BY <1>2, <1>5 DEF Follows
  <2> QED BY <1>2, <2>1, StopsForOpenAi
<1> HIDE DEF c
<1>7. ASSUME ~b.closed PROVE CallsOpen(c, n, 0)
  <2>1. /\ CallsSound(a, n - 1, 0) /\ a.thinking = None /\ a.text = None
        /\ a.sent.open = CallBlocks(a.tools, n - 1) \ {None} /\ i # None /\ ~a.closed
    BY <1>2, <1>7 DEF CallsOpen, Follows
  <2>2. /\ \A j, k \in n..Len(a.tools) :
              j # k /\ a.tools[k].block # None => a.tools[j].block # a.tools[k].block
        /\ (n - 1) + 1 = n
    <3>1. (n - 1) + 1 = n
      BY <1>1
    <3> QED BY <2>1, <3>1 DEF CallsSound
  <2>3. a.tools[n].pending = 0
    BY <1>4, <2>1 DEF CallsSound, i
  <2>4. CallBlocks(c.tools, n) \ {None} = (CallBlocks(a.tools, n - 1) \ {None}) \ {i}
    <3>1. \A j \in n..Len(a.tools) : j = n \/ j \in (n + 1)..Len(a.tools)
      BY <1>1, <1>4
    <3>2. \A j \in (n + 1)..Len(a.tools) : j \in n..Len(a.tools) /\ j # n
      BY <1>1, <1>4
    <3>3. n \in n..Len(a.tools)
      BY <1>1, <1>4
    <3>4. CallBlocks(c.tools, n) = {a.tools[j].block : j \in (n + 1)..Len(a.tools)}
      BY <1>6 DEF CallBlocks
    <3>5. CallBlocks(a.tools, n - 1) = {a.tools[j].block : j \in n..Len(a.tools)}
      BY <2>2 DEF CallBlocks
    <3>6. \A j \in (n + 1)..Len(a.tools) : a.tools[j].block # i
      BY <2>1, <2>2, <3>2, <3>3 DEF i
    <3>7. CallBlocks(c.tools, n) \subseteq CallBlocks(a.tools, n - 1) /\ i \notin CallBlocks(c.tools, n)
      BY <3>2, <3>4, <3>5, <3>6
    <3>8. CallBlocks(a.tools, n - 1) \subseteq CallBlocks(c.tools, n) \cup {i}
      BY <3>1, <3>4, <3>5 DEF i
    <3> QED BY <3>7, <3>8
  <2>5. CallsSound(c, n, 0)
    <3>1. PICK p \in [0..Len(a.tools) -> Int] :
             /\ HeldBack(a.tools, p)
             /\ a.sent.args + (p[Len(a.tools)] - p[n - 1]) + 0 = a.args
      BY <2>1 DEF CallsSound
    <3>2. p[n] = p[n - 1] + 0
      BY <1>4, <2>3, <3>1 DEF HeldBack
    <3>3. p[n - 1] \in Int /\ p[n] = p[n - 1]
      <4>1. n - 1 \in 0..Len(a.tools)
        BY <1>1, <1>4
      <4>2. p[n - 1] \in Int
        BY <3>1, <4>1
      <4> QED BY <3>2, <4>2
    <3>4. c.sent.args + (p[Len(c.tools)] - p[n]) + 0 = c.args
      BY <1>6, <3>1, <3>3
    <3>5. \A j, k \in (n + 1)..Len(a.tools) :
             j # k /\ a.tools[k].block # None => a.tools[j].block # a.tools[k].block
      <4>1. \A j \in (n + 1)..Len(a.tools) : j \in n..Len(a.tools)
        BY <1>1, <1>4
      <4> QED BY <2>2, <4>1
    <3> QED BY <1>6, <2>1, <3>1, <3>4, <3>5 DEF CallsSound
  <2> QED BY <1>6, <2>1, <2>4, <2>5 DEF CallsOpen
<1>8. Follows(b, c) /\ c.args = b.args /\ Len(c.tools) = Len(b.tools)
  BY <1>2, <1>6 DEF Follows
<1> QED BY <1>3, <1>6, <1>7, <1>8

\* closeAllBlocks() goes through the calls one by one.
Closing(x, N, g) == g = [n \in 0..N |-> IF n = 0 THEN x ELSE CloseTool(g[n - 1], n)]
ClosesUpTo(x, N, g) == g[0] = x /\ \A n \in 1..N : g[n] = CloseTool(g[n - 1], n)

LEMMA LeastMember ==
    ASSUME NEW S \in SUBSET Nat, S # {}
    PROVE  \E n \in S : \A m \in S : n <= m
<1>1. PICK n \in S : \A m \in S : ~(<<m, n>> \in OpToRel(<, Nat))
  BY WFMin, NatLessThanWellFounded
<1>2. \A m \in S : ~(m < n)
  BY <1>1 DEF OpToRel
<1> QED BY <1>2

LEMMA ClosingExists ==
    ASSUME NEW N \in Nat, NEW x
    PROVE  \E g : Closing(x, N, g)
<1> DEFINE Bad == {k \in Nat : ~\E g : ClosesUpTo(x, k, g)}
<1>1. Bad = {}
  <2> SUFFICES ASSUME Bad # {} PROVE FALSE
    OBVIOUS
  <2>1. PICK k \in Bad : \A j \in Bad : k <= j
    <3>1. Bad \in SUBSET Nat
      OBVIOUS
    <3> HIDE DEF Bad
    <3> QED BY <3>1, LeastMember
  <2>2. k \in Nat /\ ~\E g : ClosesUpTo(x, k, g)
    OBVIOUS
  <2>3. k # 0
    <3>1. ClosesUpTo(x, 0, [n \in {0} |-> x])
      BY DEF ClosesUpTo
    <3> QED BY <2>2, <3>1
  <2>4. k - 1 \in Nat /\ k - 1 \notin Bad
    <3>1. k - 1 \in Nat /\ k - 1 < k
      BY <2>2, <2>3
    <3> HIDE DEF Bad
    <3> QED BY <2>1, <2>2, <3>1
  <2>5. PICK g : ClosesUpTo(x, k - 1, g)
    BY <2>4
  <2> DEFINE h == [n \in 0..k |-> IF n = k THEN CloseTool(g[k - 1], k) ELSE g[n]]
  <2>6. h[0] = x
    BY <2>2, <2>3, <2>5 DEF ClosesUpTo
  <2>7. ASSUME NEW n \in 1..k PROVE h[n] = CloseTool(h[n - 1], n)
    <3>1. n \in 0..k /\ n - 1 \in 0..k /\ n - 1 # k
      BY <2>2
    <3>2. h[n - 1] = g[n - 1]
      BY <3>1
    <3>3. CASE n = k
      BY <3>1, <3>2, <3>3
    <3>4. CASE n # k
      <4>1. n \in 1..(k - 1)
        BY <2>2, <3>4
      <4>2. g[n] = CloseTool(g[n - 1], n)
        BY <2>5, <4>1 DEF ClosesUpTo
      <4> QED BY <3>1, <3>2, <3>4, <4>2
    <3> QED BY <3>3, <3>4
  <2>8. ClosesUpTo(x, k, h)
    BY <2>6, <2>7 DEF ClosesUpTo
  <2> QED BY <2>2, <2>8
<1>2. PICK g : ClosesUpTo(x, N, g)
  BY <1>1
<1> DEFINE h == [n \in 0..N |-> g[n]]
<1>3. ASSUME NEW n \in 0..N
      PROVE  h[n] = IF n = 0 THEN x ELSE CloseTool(h[n - 1], n)
  <2>1. CASE n = 0
    BY <1>2, <2>1 DEF ClosesUpTo
  <2>2. CASE n # 0
    <3>1. n \in 1..N /\ n - 1 \in 0..N
      BY <2>2
    <3>2. g[n] = CloseTool(g[n - 1], n)
      BY <1>2, <3>1 DEF ClosesUpTo
    <3> QED BY <2>2, <3>1, <3>2
  <2> QED BY <2>1, <2>2
<1>4. h = [n \in 0..N |-> h[n]]
  OBVIOUS
<1> HIDE DEF h
<1>5. h = [n \in 0..N |-> IF n = 0 THEN x ELSE CloseTool(h[n - 1], n)]
  BY <1>3, <1>4
<1> QED BY <1>5 DEF Closing

LEMMA ClosesAllBlocks ==
    ASSUME NEW b, Fit(b), path = "openai", ~b.closed => b.started,
           ~b.closed => OpenAiSound(b)
    PROVE  LET c == CloseAllBlocks(b)
           IN /\ Fit(c) /\ Follows(b, c)
              /\ ~b.closed => c.sent.open = {} /\ c.sent.args = c.args
<1> DEFINE x == CloseText(CloseThinking(b))
           N == Len(b.tools)
           g == CHOOSE g : Closing(x, N, g)
           c == [g[N] EXCEPT !.tools = <<>>]
<1>1. CloseAllBlocks(b) = c
  BY DEF CloseAllBlocks, Closing
<1>2. /\ Fit(x) /\ Follows(b, x) /\ x.tools = b.tools
      /\ ~b.closed => CallsOpen(x, 0, 0)
  BY ClosesText
<1>3. N \in Nat
  <2>1. b.tools \in Seq(Call)
    BY BridgeFields
  <2> QED BY <2>1
<1> HIDE DEF x, N
<1>4. Closing(x, N, g)
  BY <1>3, ClosingExists
<1> HIDE DEF g
<1>5. g[0] = x /\ \A n \in 1..N : g[n] = CloseTool(g[n - 1], n)
  <2>1. \A n \in 0..N : g[n] = IF n = 0 THEN x ELSE CloseTool(g[n - 1], n)
    BY <1>4 DEF Closing
  <2>2. 0 \in 0..N /\ \A n \in 1..N : n \in 0..N /\ n # 0
    BY <1>3
  <2> QED BY <2>1, <2>2
<1> DEFINE Good(n) == /\ Fit(g[n]) /\ Follows(b, g[n]) /\ Len(g[n].tools) = N
                      /\ ~b.closed => CallsOpen(g[n], n, 0)
           Bad == {n \in Nat : n <= N /\ ~Good(n)}
<1>6. Bad = {}
  <2> SUFFICES ASSUME Bad # {} PROVE FALSE
    OBVIOUS
  <2>1. PICK n \in Bad : \A j \in Bad : n <= j
    <3>1. Bad \in SUBSET Nat
      OBVIOUS
    <3> HIDE DEF Bad
    <3> QED BY <3>1, LeastMember
  <2>2. n \in Nat /\ n <= N /\ ~Good(n)
    OBVIOUS
  <2>3. n # 0
    <3>1. Good(0)
      BY <1>2, <1>5 DEF N
    <3> HIDE DEF Good
    <3> QED BY <2>2, <3>1
  <2>4. n \in 1..N /\ n - 1 \in Nat /\ n - 1 <= N /\ n - 1 < n
    <3> HIDE DEF Good
    <3> QED BY <1>3, <2>2, <2>3
  <2>5. Good(n - 1)
    <3> HIDE DEF Good
    <3>1. n - 1 \notin Bad
      <4> HIDE DEF Bad
      <4> QED BY <2>1, <2>2, <2>4
    <3> QED BY <2>4, <3>1
  <2> DEFINE d == g[n - 1]
             e == CloseTool(d, n)
  <2>6. g[n] = e
    BY <1>5, <2>4
  <2>7. /\ Fit(d) /\ Follows(b, d) /\ Len(d.tools) = N
        /\ ~b.closed => CallsOpen(d, n - 1, 0)
    BY <2>5
  <2> HIDE DEF Good, Bad, d
  <2>8. /\ Fit(e) /\ Follows(d, e) /\ Len(e.tools) = N
        /\ ~d.closed => CallsOpen(e, n, 0)
    <3>1. n \in 1..Len(d.tools)
      BY <2>4, <2>7
    <3>2. ~d.closed => d.started /\ CallsOpen(d, n - 1, 0)
      BY <2>7 DEF Follows
    <3> QED BY <2>7, <3>1, <3>2, ClosesTool
  <2> HIDE DEF e
  <2>9. Good(n)
    BY <2>6, <2>7, <2>8 DEF Good, Follows
  <2> QED BY <2>2, <2>9
<1> DEFINE a == g[N]
<1>7. /\ Fit(a) /\ Follows(b, a) /\ Len(a.tools) = N
      /\ ~b.closed => CallsOpen(a, N, 0)
  <2>1. N \notin Bad
    <3> HIDE DEF Bad
    <3> QED BY <1>6
  <2>2. Good(N)
    <3> HIDE DEF Good
    <3> QED BY <1>3, <2>1
  <2> QED BY <2>2
<1> HIDE DEF a, Good, Bad
<1> DEFINE d == [a EXCEPT !.tools = <<>>]
<1>8. /\ Fit(d) /\ Follows(a, d) /\ d.sent = a.sent /\ d.args = a.args
  <2>1. <<>> \in Seq(Call)
    OBVIOUS
  <2> QED BY <1>7, <2>1, SetsTools
<1> HIDE DEF d
<1>9. ASSUME ~b.closed PROVE a.sent.open = {} /\ a.sent.args = a.args
  <2>1. /\ CallsSound(a, N, 0) /\ a.sent.open = CallBlocks(a.tools, N) \ {None}
    BY <1>7, <1>9 DEF CallsOpen
  <2>2. CallBlocks(a.tools, N) = {}
    BY <1>3, <1>7 DEF CallBlocks
  <2>3. PICK p \in [0..N -> Int] : a.sent.args + (p[N] - p[N]) + 0 = a.args
    BY <1>7, <2>1 DEF CallsSound
  <2>4. p[N] \in Int /\ a.sent.args \in Nat
    <3>1. N \in 0..N
      BY <1>3
    <3> QED BY <1>7, <2>3, <3>1, BridgeFields
  <2>5. a.sent.args = a.args
    BY <2>3, <2>4
  <2> QED BY <2>1, <2>2, <2>5
<1>10. Follows(b, d) /\ (~b.closed => d.sent.open = {} /\ d.sent.args = d.args)
  BY <1>7, <1>8, <1>9 DEF Follows
<1> QED BY <1>1, <1>8, <1>10 DEF d, a

\* A handler may end with updateUsage().
LEMMA HandlesThenUpdates ==
    ASSUME NEW b, NEW d, Fit(d), Follows(b, d), ~b.closed => OpenAiSound(d)
    PROVE  LET c == UpdateUsage(d)
           IN Fit(c) /\ Follows(b, c) /\ (~b.closed => OpenAiSound(c))
<1> DEFINE c == UpdateUsage(d)
<1>1. Fit(c) /\ Keeps(d, c)
  BY UsageUpdates
<1> HIDE DEF c
<1>2. OpenAiSound(d) => OpenAiSound(c)
  BY <1>1, KeepsSound
<1>3. Follows(b, c)
  BY <1>1 DEF Follows, Keeps
<1> QED BY <1>1, <1>2, <1>3 DEF c

LEMMA ChunkCases ==
    ASSUME NEW chunk \in OpenAiChunks
    PROVE  \/ chunk.type \in {"usage", "reasoning", "content", "finish", "zai_error"}
           \/ chunk.type = "call" /\ chunk.tool \in Tool /\ chunk.id \in BOOLEAN
                /\ chunk.args \in Nat
<1>1. CASE chunk \in [type : {"usage", "reasoning", "content", "finish", "zai_error"}]
  BY <1>1
<1>2. CASE chunk \in [type : {"call"}, tool : Tool, id : BOOLEAN, args : 0..1]
  BY <1>2
<1> QED BY <1>1, <1>2 DEF OpenAiChunks

\* Every chunk but an error of z.ai leaves the stream under way.
LEMMA OpenAiHandles ==
    ASSUME path = "openai", NEW b, Fit(b), ~b.closed => OpenAiSound(b),
           NEW chunk \in OpenAiChunks, chunk.type = "zai_error" => b.finished
    PROVE  LET c == HandleChunk(b, chunk)
           IN /\ Fit(c) /\ Follows(b, c)
              /\ ~b.closed => OpenAiSound(c)
<1> DEFINE a == Start(b)
           counted == [a EXCEPT !.tokens = 1]
           over == [a EXCEPT !.finished = TRUE]
<1>1. Fit(a) /\ Keeps(b, a) /\ a.started
  BY Starts
<1>2. /\ Follows(b, a) /\ a.closed = b.closed
      /\ ~b.closed => OpenAiSound(a)
  <2> HIDE DEF a
  <2> QED BY <1>1, KeepsSound DEF Keeps, Follows
<1> HIDE DEF a
<1>3. ASSUME NEW c \in {counted, over}
      PROVE  /\ Fit(c) /\ Follows(b, c)
             /\ ~b.closed => OpenAiSound(c)
  <2>1. /\ c \in Bridge /\ c.closed = a.closed /\ c.sent = a.sent /\ c.started = a.started
        /\ c.nextIndex = a.nextIndex /\ c.openBlock = a.openBlock /\ c.pingTimer = a.pingTimer
        /\ c.emitted = a.emitted /\ c.reported = a.reported /\ c.running = a.running
        /\ c.args = a.args /\ c.thinking = a.thinking /\ c.text = a.text /\ c.tools = a.tools
    <3>1. a \in Bridge
      BY <1>1 DEF Fit
    <3>2. CASE c = counted
      BY <3>1, <3>2 DEF Bridge
    <3>3. CASE c = over
      BY <3>1, <3>3 DEF Bridge
    <3> QED BY <1>3, <3>2, <3>3
  <2>2. Fit(c)
    BY <1>1, <2>1 DEF Fit, EmitterSound
  <2>3. OpenAiSound(a) => OpenAiSound(c)
    BY <2>1 DEF OpenAiSound, CallsSound
  <2>4. Follows(b, c)
    BY <1>2, <2>1 DEF Follows
  <2> QED BY <1>2, <2>2, <2>3, <2>4
<1> HIDE DEF counted, over
<1>4. CASE chunk.type = "usage"
  <2>1. HandleChunk(b, chunk) = counted
    BY <1>4 DEF HandleChunk, counted, a
  <2> QED BY <1>3, <2>1
<1>5. CASE chunk.type # "usage" /\ b.finished
  <2>1. HandleChunk(b, chunk) = a
    BY <1>5 DEF HandleChunk, a
  <2> QED BY <1>1, <1>2, <2>1
<1>6. CASE chunk.type = "reasoning" /\ ~b.finished
  <2> DEFINE d == Reasoning(a)
  <2>1. HandleChunk(b, chunk) = UpdateUsage(d)
    BY <1>6 DEF HandleChunk, a
  <2>2. Fit(d) /\ Follows(a, d) /\ (~a.closed => OpenAiSound(d))
    BY <1>1, <1>2, ReasoningSound
  <2> HIDE DEF d
  <2>3. Follows(b, d)
    BY <1>2, <2>2 DEF Follows
  <2> QED BY <1>2, <2>1, <2>2, <2>3, HandlesThenUpdates
<1>7. CASE chunk.type = "content" /\ ~b.finished
  <2> DEFINE d == Content(a)
  <2>1. HandleChunk(b, chunk) = UpdateUsage(d)
    BY <1>7 DEF HandleChunk, a
  <2>2. Fit(d) /\ Follows(a, d) /\ (~a.closed => OpenAiSound(d))
    BY <1>1, <1>2, ContentSound
  <2> HIDE DEF d
  <2>3. Follows(b, d)
    BY <1>2, <2>2 DEF Follows
  <2> QED BY <1>2, <2>1, <2>2, <2>3, HandlesThenUpdates
<1>8. CASE chunk.type = "call" /\ ~b.finished
  <2> DEFINE d == ToolCall(a, chunk)
  <2>1. HandleChunk(b, chunk) = UpdateUsage(d)
    BY <1>8 DEF HandleChunk, a
  <2>2. Fit(d) /\ Follows(a, d) /\ (~a.closed => OpenAiSound(d))
    BY <1>1, <1>2, <1>8, ChunkCases, ToolCallSound
  <2> HIDE DEF d
  <2>3. Follows(b, d)
    BY <1>2, <2>2 DEF Follows
  <2> QED BY <1>2, <2>1, <2>2, <2>3, HandlesThenUpdates
<1>9. CASE chunk.type = "finish" /\ ~b.finished
  <2>1. HandleChunk(b, chunk) = UpdateUsage(over)
    BY <1>9 DEF HandleChunk, a, over
  <2> QED BY <1>3, <2>1, HandlesThenUpdates
<1>10. CASE chunk.type = "zai_error" /\ ~b.finished
  BY <1>10
<1>11. b.finished \in BOOLEAN
  BY DEF Fit, Bridge
<1> QED BY <1>4, <1>5, <1>6, <1>7, <1>8, <1>9, <1>10, <1>11, ChunkCases

------------------------------------------------------------------------------
(* Every step keeps the invariant.                                           *)

LEMMA BridgeFits ==
    ASSUME StreamInv, path # "native"
    PROVE  /\ Fit(s) /\ s \in Bridge
           /\ path = "converse" /\ ~s.closed => ConverseSound(s, source)
           /\ path = "openai" /\ ~s.closed => OpenAiSound(s)
BY DEF StreamInv, StreamTypes, BridgeSound, Fit

\* The state after a handler of a bridge that leaves the stream as open as it was.
LEMMA UnderWay ==
    ASSUME StreamInv, path # "native", path' = path, pc # "over", Fit(s'), Follows(s, s'),
           ~s.closed => /\ path = "converse" => ConverseSound(s', source')
                        /\ path = "openai" => OpenAiSound(s')
    PROVE  IF s'.closed THEN ClosedSound' ELSE BridgeSound(s, source)'
<1>1. CASE s.closed
  <2>1. s'.closed /\ s'.sent = s.sent
    BY <1>1 DEF Follows
  <2>2. s.sent.legal /\ s.sent.end # "stop"
    BY <1>1 DEF StreamInv, ClosedSound
  <2> QED BY <2>1, <2>2 DEF ClosedSound
<1>2. CASE ~s.closed
  <2>1. ~s'.closed /\ EmitterSound(s')
    BY <1>2 DEF Follows, Fit
  <2>2. path \in {"converse", "openai"}
    BY DEF StreamInv, StreamTypes
  <2> QED BY <1>2, <2>1, <2>2 DEF BridgeSound
<1> QED BY <1>1, <1>2

\* The state after a step that leaves the bridge alone.
LEMMA BridgeSame ==
    ASSUME StreamInv, UNCHANGED <<path, source, client, s>>, pc' = pc,
           s.closed => upstream' = upstream \/ pc # "over"
    PROVE  /\ IF s'.closed THEN ClosedSound' ELSE BridgeSound(s, source)'
           /\ s' \in Bridge
<1>1. CASE s.closed
  BY <1>1 DEF StreamInv, ClosedSound, StreamTypes
<1>2. CASE ~s.closed
  BY <1>2 DEF StreamInv, BridgeSound, StreamTypes
<1> QED BY <1>1, <1>2

LEMMA ArriveSound == ASSUME StreamInv, Arrive PROVE StreamInv'
<1>1. IF s'.closed THEN ClosedSound' ELSE BridgeSound(s, source)'
  BY BridgeSame DEF Arrive
<1>2. StreamTypes'
  BY StreamAssumption DEF Arrive, StreamInv, StreamTypes
<1>3. SourceBounded'
  BY DEF Arrive, StreamInv, StreamTypes, SourceBounded
<1>4. PumpSound'
  BY DEF Arrive, StreamInv, PumpSound
<1> QED BY <1>1, <1>2, <1>3, <1>4 DEF StreamInv

LEMMA IdleFiresSound == ASSUME StreamInv, IdleFires PROVE StreamInv'
<1>1. IF s'.closed THEN ClosedSound' ELSE BridgeSound(s, source)'
  BY BridgeSame DEF IdleFires
<1>2. StreamTypes'
  BY DEF IdleFires, RejectFirst, RejectIdle, CancelReader, Settle, StreamInv, StreamTypes
<1>3. SourceBounded'
  BY DEF IdleFires, RejectFirst, RejectIdle, CancelReader, Settle, StreamInv, SourceBounded
<1>4. PumpSound'
  BY DEF IdleFires, RejectFirst, RejectIdle, CancelReader, Settle, StreamInv, PumpSound
<1> QED BY <1>1, <1>2, <1>3, <1>4 DEF StreamInv

\* A ping leaves a stream that has begun as it was, and there is none before.
LEMMA PingTickIdle == ASSUME StreamInv, PingTick PROVE s' = s
<1>1. CASE path = "native"
  BY <1>1 DEF PingTick
<1>2. CASE path # "native"
  <2>1. Fit(s)
    BY <1>2, BridgeFits
  <2>2. s.started
    BY <2>1 DEF PingTick, Fit, EmitterSound
  <2> QED BY <1>2, <2>1, <2>2, PingKeeps DEF PingTick
<1> QED BY <1>1, <1>2

LEMMA PingTickSound == ASSUME StreamInv, PingTick PROVE StreamInv'
<1>1. s' = s
  BY PingTickIdle
<1>2. IF s'.closed THEN ClosedSound' ELSE BridgeSound(s, source)'
  BY <1>1, BridgeSame DEF PingTick
<1>3. StreamTypes' /\ SourceBounded' /\ PumpSound'
  BY <1>1 DEF PingTick, StreamInv, StreamTypes, SourceBounded, PumpSound
<1> QED BY <1>2, <1>3 DEF StreamInv

LEMMA UsageTickSound == ASSUME StreamInv, UsageTick PROVE StreamInv'
<1>1. ~s.closed /\ s.started
  BY DEF UsageTick, EmitUsage
<1>2. path # "native" /\ pc # "over"
  BY <1>1 DEF StreamInv, BridgeSound, NativeSound, PumpSound
<1>3. Fit(s') /\ Keeps(s, s') /\ s'.started = s.started
  BY <1>2, BridgeFits, UsageEmits DEF UsageTick
<1>4. /\ path = "converse" => ConverseSound(s', source')
      /\ path = "openai" => OpenAiSound(s')
  <2>1. UNCHANGED source
    BY DEF UsageTick
  <2>2. /\ path = "converse" => ConverseSound(s, source)
        /\ path = "openai" => OpenAiSound(s)
    BY <1>1, <1>2, BridgeFits
  <2> QED BY <1>3, <2>1, <2>2, KeepsSound
<1>5. Follows(s, s')
  BY <1>3 DEF Keeps, Follows
<1>6. IF s'.closed THEN ClosedSound' ELSE BridgeSound(s, source)'
  BY <1>2, <1>3, <1>4, <1>5, UnderWay DEF UsageTick
<1>7. StreamTypes' /\ SourceBounded'
  BY <1>3 DEF UsageTick, StreamInv, StreamTypes, SourceBounded, Fit
<1>8. PumpSound'
  BY <1>3, <1>5 DEF UsageTick, StreamInv, PumpSound, Follows
<1> QED BY <1>6, <1>7, <1>8 DEF StreamInv

LEMMA ClientCancelsSound == ASSUME StreamInv, ClientCancels PROVE StreamInv'
<1>1. /\ s' \in Bridge /\ s'.closed /\ s'.sent = s.sent /\ s'.started = s.started
      /\ s'.args = s.args
  BY CleansUp DEF ClientCancels, StreamInv, StreamTypes
<1>2. s.sent.legal /\ s.sent.end = "none" /\ (path = "native" => ~s.started)
  BY DEF ClientCancels, StreamInv, StreamTypes, BridgeSound, EmitterSound, Speaking, NativeSound
<1>3. ClosedSound'
  BY <1>1, <1>2 DEF ClosedSound, ClientCancels
<1>4. StreamTypes'
  BY <1>1 DEF ClientCancels, ReaderCancelled, StreamInv, StreamTypes
<1>5. SourceBounded'
  BY DEF ClientCancels, ReaderCancelled, StreamInv, SourceBounded
<1>6. PumpSound'
  BY <1>1 DEF ClientCancels, StreamInv, PumpSound
<1> QED BY <1>1, <1>3, <1>4, <1>5, <1>6 DEF StreamInv

\* A frame of a ConverseStream moves the source on, and to its next block at a stop.
LEMMA SourceMoves ==
    ASSUME StreamTypes, SourceBounded, read = "value", NEW frame \in ConverseFrames
    PROVE  /\ SourceAfter(frame) \in [at : {"start", "between", "block", "stopped", "done"},
                                      block : Nat, kind : BlockKinds]
           /\ SourceAfter(frame).block <= frames
<1> DEFINE dst == SourceAfter(frame)
           Ats == {"start", "between", "block", "stopped", "done"}
<1>1. source \in [at : Ats, block : Nat, kind : BlockKinds] /\ source.block < frames
        /\ frames \in Nat
        /\ source = [at |-> source.at, block |-> source.block, kind |-> source.kind]
  BY StreamAssumption DEF StreamTypes, SourceBounded
<1>2. CASE frame.type = "messageStart"
  BY <1>1, <1>2 DEF SourceAfter
<1>3. CASE frame.type = "contentBlockStart"
  <2>1. dst = [source EXCEPT !.at = "block", !.kind = "tool_use"]
    BY <1>3 DEF SourceAfter
  <2>2. dst = [at |-> "block", block |-> source.block, kind |-> "tool_use"]
    BY <1>1, <2>1
  <2> QED BY <1>1, <2>2 DEF BlockKinds
<1>4. CASE frame.type = "contentBlockDelta"
  <2>1. source.at \in Ats
    BY <1>1
  <2>2. frame.kind \in BlockKinds
    <3>1. CASE source.at = "between"
      <4>1. frame \in [type : {"contentBlockDelta"}, block : {source.block},
                       kind : {"thinking", "text"}]
        BY <1>4, <3>1 DEF ConverseFrames
      <4> QED BY <4>1 DEF BlockKinds
    <3>2. CASE source.at = "block"
      BY <1>1, <1>4, <3>2 DEF ConverseFrames
    <3>3. CASE source.at \in {"start", "stopped", "done"}
      BY <1>4, <3>3 DEF ConverseFrames
    <3> QED BY <2>1, <3>1, <3>2, <3>3
  <2>3. dst = [source EXCEPT !.at = "block", !.kind = frame.kind]
    BY <1>4 DEF SourceAfter
  <2>4. dst = [at |-> "block", block |-> source.block, kind |-> frame.kind]
    BY <1>1, <2>3
  <2> QED BY <1>1, <2>2, <2>4
<1>5. CASE frame.type = "contentBlockStop"
  <2>1. dst = [source EXCEPT !.at = "between", !.block = source.block + 1]
    BY <1>5 DEF SourceAfter
  <2>2. dst = [at |-> "between", block |-> source.block + 1, kind |-> source.kind]
    BY <1>1, <2>1
  <2> QED BY <1>1, <2>2
<1>6. CASE frame.type \notin {"messageStart", "contentBlockStart", "contentBlockDelta",
                              "contentBlockStop"}
  BY <1>1, <1>6 DEF SourceAfter
<1> QED BY <1>2, <1>3, <1>4, <1>5, <1>6

LEMMA OnValueSound == ASSUME StreamInv, OnValue PROVE StreamInv'
<1>1. pc = "reading" /\ read = "value" /\ read' = "pending" /\ UNCHANGED <<path, pc, client>>
        /\ UNCHANGED <<upstream, frames>> /\ StreamTypes /\ SourceBounded /\ PumpSound
        /\ frames \in Nat /\ source.block \in Nat
  BY StreamAssumption DEF OnValue, StreamInv, StreamTypes
<1>2. CASE path = "converse"
  <2>1. PICK frame \in ConverseFrames :
            s' = UpdateUsage(HandleFrame(s, frame)) /\ source' = SourceAfter(frame)
    BY <1>2 DEF OnValue
  <2> DEFINE d == HandleFrame(s, frame)
  <2>2. /\ Fit(d) /\ Follows(s, d)
        /\ ~s.closed => ConverseSound(d, source')
    BY <1>1, <1>2, <2>1, BridgeFits, ConverseHandles
  <2> HIDE DEF d
  <2>3. s' = UpdateUsage(d)
    BY <2>1 DEF d
  <2>4. Fit(s') /\ Keeps(d, s')
    BY <2>2, <2>3, UsageUpdates
  <2>5. ~s.closed => ConverseSound(s', source')
    BY <2>2, <2>4, KeepsSound
  <2>6. Follows(s, s')
    BY <2>2, <2>4 DEF Follows, Keeps
  <2>7. IF s'.closed THEN ClosedSound' ELSE BridgeSound(s, source)'
    BY <1>1, <1>2, <2>4, <2>5, <2>6, UnderWay
  <2>8. source' \in [at : {"start", "between", "block", "stopped", "done"},
                     block : Nat, kind : BlockKinds] /\ source'.block <= frames
    BY <1>1, <2>1, SourceMoves
  <2>9. StreamTypes'
    BY <1>1, <2>4, <2>8 DEF StreamTypes, Fit
  <2>10. SourceBounded' /\ PumpSound'
    BY <1>1, <2>6, <2>8 DEF SourceBounded, PumpSound, Follows
  <2> QED BY <2>7, <2>9, <2>10 DEF StreamInv
<1>3. CASE path = "openai"
  <2>1. UNCHANGED source
    BY <1>3 DEF OnValue
  <2>2. PICK chunk \in OpenAiChunks : s' = HandleChunk(s, chunk)
    BY <1>3 DEF OnValue
  <2>3. SourceBounded'
    BY <1>1, <2>1 DEF SourceBounded
  <2>4. Fit(s) /\ (~s.closed => OpenAiSound(s))
    BY <1>3, BridgeFits
  <2>5. CASE chunk.type = "zai_error" => s.finished
    <3>1. Fit(s') /\ Follows(s, s') /\ (~s.closed => OpenAiSound(s'))
      BY <1>3, <2>2, <2>4, <2>5, OpenAiHandles
    <3>2. IF s'.closed THEN ClosedSound' ELSE BridgeSound(s, source)'
      BY <1>1, <1>3, <3>1, UnderWay
    <3>3. StreamTypes' /\ PumpSound'
      BY <1>1, <2>1, <3>1 DEF StreamTypes, PumpSound, Fit, Follows
    <3> QED BY <2>3, <3>2, <3>3 DEF StreamInv
  <2>6. CASE chunk.type = "zai_error" /\ ~s.finished
    <3> DEFINE d == Start(s)
    <3>1. s' = Fail(d)
      BY <2>2, <2>6 DEF HandleChunk
    <3>2. Fit(d) /\ Keeps(s, d) /\ d.started
      BY <2>4, Starts
    <3> HIDE DEF d
    <3>3. /\ s' \in Bridge /\ s'.closed /\ s'.started
          /\ d.closed => s' = d
          /\ ~d.closed => s'.sent.legal /\ s'.sent.end = "error"
      BY <3>1, <3>2, Fails
    <3>4. s'.sent.legal /\ s'.sent.end # "stop"
      <4>1. CASE s.closed
        <5>1. s'.sent = s.sent
          BY <3>2, <3>3, <4>1 DEF Keeps
        <5> QED BY <1>1, <4>1, <5>1 DEF StreamInv, ClosedSound
      <4>2. CASE ~s.closed
        BY <3>2, <3>3, <4>2 DEF Keeps
      <4> QED BY <4>1, <4>2
    <3>5. ClosedSound'
      BY <1>1, <1>3, <3>4 DEF ClosedSound
    <3>6. StreamTypes' /\ PumpSound'
      BY <1>1, <2>1, <3>3 DEF StreamTypes, PumpSound
    <3> QED BY <2>3, <3>3, <3>5, <3>6 DEF StreamInv
  <2> QED BY <2>5, <2>6
<1>4. CASE path = "native"
  <2>1. UNCHANGED <<s, source>>
    BY <1>4 DEF OnValue
  <2>2. IF s'.closed THEN ClosedSound' ELSE BridgeSound(s, source)'
    BY <1>1, <2>1, BridgeSame
  <2>3. StreamTypes' /\ SourceBounded' /\ PumpSound'
    BY <1>1, <2>1 DEF StreamTypes, SourceBounded, PumpSound
  <2> QED BY <2>2, <2>3 DEF StreamInv
<1> QED BY <1>1, <1>2, <1>3, <1>4 DEF StreamTypes

LEMMA OnOverflowSound == ASSUME StreamInv, OnOverflow PROVE StreamInv'
<1>1. path = "openai" /\ pc = "reading" /\ s' = Start(s) /\ pc' = "cancelling"
        /\ read' = "error" /\ UNCHANGED <<path, source, client>>
  BY DEF OnOverflow
<1>2. Fit(s) /\ (~s.closed => OpenAiSound(s))
  BY <1>1, BridgeFits
<1>3. Fit(s') /\ Keeps(s, s') /\ s'.started
  BY <1>1, <1>2, Starts
<1>4. Follows(s, s') /\ (~s.closed => OpenAiSound(s'))
  BY <1>2, <1>3, KeepsSound DEF Keeps, Follows
<1>5. IF s'.closed THEN ClosedSound' ELSE BridgeSound(s, source)'
  BY <1>1, <1>3, <1>4, UnderWay
<1>6. StreamTypes'
  BY <1>3 DEF OnOverflow, StreamInv, StreamTypes, Fit
<1>7. SourceBounded' /\ PumpSound'
  BY <1>1, <1>3, <1>4 DEF OnOverflow, StreamInv, SourceBounded, PumpSound, Follows
<1> QED BY <1>5, <1>6, <1>7 DEF StreamInv

LEMMA OnErrorSound == ASSUME StreamInv, OnError PROVE StreamInv'
<1>1. pc = "reading" /\ read = "error" /\ UNCHANGED <<path, read, source, client, upstream, frames>>
  BY DEF OnError
<1>2. CASE path = "native"
  <2> DEFINE d == [s EXCEPT !.sent.end = "error"]
  <2>1. s' = Cleanup(d) /\ pc' = "over"
    BY <1>2 DEF OnError
  <2>2. d \in Bridge /\ d.sent.end = "error" /\ d.sent.legal = s.sent.legal
          /\ d.started = s.started
    <3>1. s \in Bridge /\ s.sent \in View
      BY DEF StreamInv, StreamTypes, Bridge
    <3>2. [s.sent EXCEPT !.end = "error"] \in View
      BY <3>1 DEF View
    <3> QED BY <3>1, <3>2 DEF Bridge, View
  <2> HIDE DEF d
  <2>3. s' \in Bridge /\ s'.closed /\ s'.sent = d.sent /\ s'.started = s.started
    BY <2>1, <2>2, CleansUp
  <2>4. s.sent.legal /\ ~s.started
    BY <1>2 DEF StreamInv, ClosedSound, BridgeSound, NativeSound
  <2>5. ClosedSound'
    BY <2>2, <2>3, <2>4 DEF ClosedSound
  <2>6. StreamTypes' /\ SourceBounded' /\ PumpSound'
    BY <1>1, <2>1, <2>3 DEF StreamInv, StreamTypes, SourceBounded, PumpSound
  <2> QED BY <2>3, <2>5, <2>6 DEF StreamInv
<1>3. CASE path # "native"
  <2>1. s' = Start(s) /\ pc' = "cancelling"
    BY <1>3 DEF OnError
  <2>2. Fit(s') /\ Keeps(s, s') /\ s'.started
    BY <1>3, <2>1, BridgeFits, Starts
  <2>3. Follows(s, s')
    BY <2>2 DEF Keeps, Follows
  <2>4. ~s.closed => /\ path = "converse" => ConverseSound(s', source')
                     /\ path = "openai" => OpenAiSound(s')
    BY <1>1, <1>3, <2>2, BridgeFits, KeepsSound
  <2>5. IF s'.closed THEN ClosedSound' ELSE BridgeSound(s, source)'
    BY <1>1, <1>3, <2>2, <2>3, <2>4, UnderWay
  <2>6. StreamTypes' /\ SourceBounded' /\ PumpSound'
    BY <1>1, <1>3, <2>1, <2>2, <2>3
    DEF StreamInv, StreamTypes, SourceBounded, PumpSound, Fit, Follows
  <2> QED BY <2>5, <2>6 DEF StreamInv
<1> QED BY <1>2, <1>3

LEMMA FailStreamSound == ASSUME StreamInv, FailStream PROVE StreamInv'
<1>1. pc = "cancelling" /\ s' = Fail(s) /\ pc' = "over" /\ path # "native" /\ s.started
        /\ UNCHANGED <<path, read, source, client, upstream, frames>>
  BY DEF FailStream, StreamInv, PumpSound
<1>2. Fit(s)
  BY <1>1, BridgeFits
<1>3. /\ s' \in Bridge /\ s'.closed
      /\ s.closed => s' = s
      /\ ~s.closed => s'.sent.legal /\ s'.sent.end = "error"
  BY <1>1, <1>2, Fails
<1>4. s'.sent.legal /\ s'.sent.end # "stop"
  BY <1>1, <1>3 DEF StreamInv, ClosedSound
<1>5. ClosedSound'
  BY <1>1, <1>4 DEF ClosedSound
<1>6. StreamTypes' /\ SourceBounded' /\ PumpSound'
  BY <1>1, <1>3 DEF StreamInv, StreamTypes, SourceBounded, PumpSound
<1> QED BY <1>3, <1>5, <1>6 DEF StreamInv

\* A bridge that has closed its blocks finishes with nothing held back.
LEMMA DoneSound ==
    ASSUME StreamInv, OnDone, path # "native", NEW b, Fit(b), s' = Finish(b),
           b.closed = s.closed, s.closed => b.sent = s.sent,
           ~s.closed => /\ b.started /\ b.sent.open \subseteq {b.openBlock}
                        /\ b.sent.args = b.args
    PROVE  s' \in Bridge /\ s'.closed /\ ClosedSound'
<1>1. /\ s' \in Bridge /\ s'.closed
      /\ s.closed => s' = b
      /\ ~s.closed => s'.sent.legal /\ s'.sent.args = s'.args
  BY Finishes
<1>2. pc = "reading" /\ pc' = "over" /\ UNCHANGED <<path, client, upstream>>
        /\ (client = "here" => upstream = "ended")
  BY DEF OnDone, StreamInv, PumpSound
<1>3. CASE s.closed
  <2>1. s'.sent = s.sent
    BY <1>1, <1>3
  <2>2. s.sent.legal /\ s.sent.end # "stop"
    BY <1>2, <1>3 DEF StreamInv, ClosedSound
  <2> QED BY <1>1, <1>2, <2>1, <2>2 DEF ClosedSound
<1>4. CASE ~s.closed
  BY <1>1, <1>2, <1>4 DEF ClosedSound
<1> QED BY <1>1, <1>3, <1>4

LEMMA OnDoneSound == ASSUME StreamInv, OnDone PROVE StreamInv'
<1>1. pc = "reading" /\ read = "done" /\ pc' = "over"
        /\ UNCHANGED <<path, read, source, client, upstream, frames>>
  BY DEF OnDone
<1>2. s' \in Bridge /\ s'.closed /\ ClosedSound'
  <2>1. CASE path = "converse"
    <3> DEFINE b == Start(s)
    <3>1. s' = Finish(b)
      BY <2>1 DEF OnDone
    <3>2. Fit(b) /\ Keeps(s, b) /\ b.started
      BY <2>1, BridgeFits, Starts
    <3> HIDE DEF b
    <3>3. ~s.closed => ConverseSound(b, source)
      BY <2>1, <3>2, BridgeFits, KeepsSound
    <3>4. ~s.closed => b.sent.open \subseteq {b.openBlock} /\ b.sent.args = b.args
      BY <3>3 DEF ConverseSound
    <3> QED BY <2>1, <3>1, <3>2, <3>4, DoneSound DEF Keeps
  <2>2. CASE path = "openai"
    <3> DEFINE a == Start(s)
               b == CloseAllBlocks(a)
    <3>1. s' = Finish(b)
      BY <2>2 DEF OnDone
    <3>2. Fit(a) /\ Keeps(s, a) /\ a.started
      BY <2>2, BridgeFits, Starts
    <3> HIDE DEF a
    <3>3. a.closed = s.closed /\ (~a.closed => OpenAiSound(a))
      BY <2>2, <3>2, BridgeFits, KeepsSound DEF Keeps
    <3>4. /\ Fit(b) /\ Follows(a, b)
          /\ ~a.closed => b.sent.open = {} /\ b.sent.args = b.args
      BY <2>2, <3>2, <3>3, ClosesAllBlocks
    <3> HIDE DEF b
    <3>5. /\ b.closed = s.closed /\ b.started
          /\ s.closed => b.sent = s.sent
      BY <3>2, <3>3, <3>4 DEF Keeps, Follows
    <3> QED BY <2>2, <3>1, <3>3, <3>4, <3>5, DoneSound
  <2>3. CASE path = "native"
    <3> DEFINE d == [s EXCEPT !.sent.end = "stop"]
    <3>1. s' = Cleanup(d)
      BY <2>3 DEF OnDone
    <3>2. d \in Bridge /\ d.sent.legal = s.sent.legal /\ d.started = s.started
      <4>1. s \in Bridge /\ s.sent \in View
        BY DEF StreamInv, StreamTypes, Bridge
      <4>2. [s.sent EXCEPT !.end = "stop"] \in View
        BY <4>1 DEF View
      <4> QED BY <4>1, <4>2 DEF Bridge, View
    <3> HIDE DEF d
    <3>3. s' \in Bridge /\ s'.closed /\ s'.sent = d.sent /\ s'.started = s.started
      BY <3>1, <3>2, CleansUp
    <3>4. s.sent.legal /\ ~s.started
      BY <2>3 DEF StreamInv, ClosedSound, BridgeSound, NativeSound
    <3>5. client = "here" => upstream = "ended"
      BY <1>1 DEF StreamInv, PumpSound
    <3> QED BY <1>1, <2>3, <3>2, <3>3, <3>4, <3>5 DEF ClosedSound
  <2> QED BY <2>1, <2>2, <2>3 DEF StreamInv, StreamTypes
<1>3. StreamTypes' /\ SourceBounded' /\ PumpSound'
  BY <1>1, <1>2 DEF StreamInv, StreamTypes, SourceBounded, PumpSound
<1> QED BY <1>2, <1>3 DEF StreamInv

LEMMA FreshSound ==
    ASSUME StreamInit
    PROVE  s \in Bridge /\ ~s.closed /\ BridgeSound(s, source)
<1>1. /\ s = [Fresh EXCEPT !.pingTimer = path = "native"]
      /\ path \in {"converse", "openai", "native"} /\ (path = "native") \in BOOLEAN
      /\ source = [at |-> "start", block |-> 0, kind |-> "text"]
  BY StreamAssumption DEF StreamInit
<1>2. /\ s.sent = Silent /\ ~s.started /\ ~s.closed /\ s.nextIndex = 0 /\ s.openBlock = None
      /\ s.pingTimer = (path = "native") /\ s.running = 0 /\ ~s.reported /\ s.emitted = None
      /\ s.args = 0 /\ s.blockIndex = [n \in 0..MaxFrames |-> None]
      /\ s.thinking = None /\ s.text = None /\ s.tools = <<>>
  BY <1>1 DEF Fresh
<1>3. s \in Bridge
  <2>1. Silent \in View /\ [n \in 0..MaxFrames |-> None] \in [0..MaxFrames -> Index]
    BY DEF View, Index, Silent
  <2>2. <<>> \in Seq(Call) /\ None \in Index
    BY DEF Index
  <2>3. Fresh \in Bridge
    BY <2>1, <2>2 DEF Fresh, Bridge
  <2> QED BY <1>1, <2>3 DEF Bridge
<1>4. path # "native" => EmitterSound(s)
  <2>1. path # "native" => ~s.pingTimer
    BY <1>2
  <2>2. s.sent.begun = FALSE /\ s.sent.open = {} /\ s.sent.next = 0 /\ s.sent.usage = 0
          /\ Speaking(s.sent)
    BY <1>2 DEF Speaking, Silent
  <2>3. s.started = FALSE
    BY <1>3, <1>2 DEF Bridge
  <2> QED BY <1>2, <2>1, <2>2, <2>3 DEF EmitterSound
<1>5. ConverseSound(s, source)
  <2>1. s.blockIndex = [n \in 0..MaxFrames |-> IF n = source.block THEN s.openBlock ELSE None]
    BY <1>2
  <2>2. source.at = "start" /\ s.sent.open = {} /\ s.sent.args = 0
    BY <1>1, <1>2 DEF Silent
  <2> QED BY <1>2, <2>1, <2>2 DEF ConverseSound
<1>6. OpenAiSound(s)
  <2>1. s.tools = <<>> /\ s.tools \in Seq(Call) /\ Len(s.tools) = 0
    BY <1>2
  <2>2. CallBlocks(s.tools, 0) = {}
    BY <2>1, NoCalls
  <2>3. CallsSound(s, 0, 0)
    <3> DEFINE p == [n \in 0..0 |-> 0]
    <3>1. p \in [0..0 -> Int] /\ p[0] = 0
      OBVIOUS
    <3> HIDE DEF p
    <3>2. HeldBack(s.tools, p)
      BY <2>1, <3>1 DEF HeldBack
    <3>3. s.sent.args + (p[0] - p[0]) + 0 = s.args
      BY <1>2, <3>1 DEF Silent
    <3> QED BY <2>1, <3>1, <3>2, <3>3 DEF CallsSound
  <2> QED BY <1>2, <2>1, <2>2, <2>3 DEF OpenAiSound, Silent
<1>7. NativeSound(s)
  BY <1>2 DEF NativeSound, Silent
<1> QED BY <1>1, <1>2, <1>3, <1>4, <1>5, <1>6, <1>7 DEF BridgeSound

LEMMA StreamInitSound == StreamInit => StreamInv
<1> SUFFICES ASSUME StreamInit PROVE StreamInv
  OBVIOUS
<1>1. s \in Bridge /\ ~s.closed /\ BridgeSound(s, source)
  BY FreshSound
<1>2. StreamTypes
  BY <1>1, StreamAssumption DEF StreamInit, StreamTypes, BlockKinds
<1>3. SourceBounded /\ PumpSound
  BY DEF StreamInit, SourceBounded, PumpSound
<1> QED BY <1>1, <1>2, <1>3 DEF StreamInv

LEMMA StreamStepSound == StreamInv /\ [StreamNext]_streamVars => StreamInv'
<1> SUFFICES ASSUME StreamInv, [StreamNext]_streamVars PROVE StreamInv'
  OBVIOUS
<1>1. CASE UNCHANGED streamVars
  <2>1. IF s'.closed THEN ClosedSound' ELSE BridgeSound(s, source)'
    BY <1>1, BridgeSame DEF streamVars
  <2>2. StreamTypes' /\ SourceBounded' /\ PumpSound'
    BY <1>1 DEF streamVars, StreamInv, StreamTypes, SourceBounded, PumpSound
  <2> QED BY <2>1, <2>2 DEF StreamInv
<1>2. CASE StreamNext
  BY <1>2, ArriveSound, IdleFiresSound, OnValueSound, OnOverflowSound, OnDoneSound,
     OnErrorSound, FailStreamSound, PingTickSound, UsageTickSound, ClientCancelsSound
  DEF StreamNext, PumpStep
<1> QED BY <1>1, <1>2

------------------------------------------------------------------------------
(* The theorems.                                                             *)

\* As long as a stream is not closed, the emitter and its bridge know which blocks are
\* open, which index comes next and which arguments are held back, in every order of
\* the frames, the timers, the idle bound and the client's cancel().
THEOREM StreamInvariant == StreamSpec => []StreamInv
<1>1. StreamInit => StreamInv
  BY StreamInitSound
<1>2. StreamInv /\ [StreamNext]_streamVars => StreamInv'
  BY StreamStepSound
<1> QED BY <1>1, <1>2, PTL DEF StreamSpec

\* What the client is sent is a Messages stream from message_start to its one terminal
\* event: no delta or stop of a block that is not open, no index twice, no block after
\* one of a later kind, and nothing after the end.
THEOREM StreamWellFormed == StreamSpec => []WellFormed
<1>1. StreamInv => WellFormed
  BY DEF StreamInv, ClosedSound, BridgeSound, EmitterSound, Speaking, NativeSound, WellFormed,
         StreamTypes
<1> QED BY <1>1, StreamInvariant, PTL

\* A message told to be finished is the whole answer: its upstream came to its own end,
\* and every fragment of tool arguments was sent, those of a call named late included.
THEOREM StreamFinishedWhole == StreamSpec => []FinishedWhole
<1>1. StreamInv => FinishedWhole
  <2> SUFFICES ASSUME StreamInv, s.sent.end = "stop" PROVE s.closed
    BY DEF FinishedWhole, FinishedOnlyAtEnd, ArgumentsDelivered, StreamInv, ClosedSound
  <2> QED BY DEF StreamInv, BridgeSound, EmitterSound, Speaking, NativeSound, StreamTypes
<1> QED BY <1>1, StreamInvariant, PTL

LEMMA NoErrorOpen ==
    ASSUME StreamInv', ~s'.closed
    PROVE  s'.sent.end = "none"
BY DEF StreamInv, BridgeSound, EmitterSound, Speaking, NativeSound, StreamTypes

LEMMA StepTellsUsage ==
    ASSUME StreamInv, [StreamNext]_streamVars, s'.sent.end # s.sent.end,
           s'.sent.end = "error", path # "native"
    PROVE  s'.sent.usage = s'.running
<1>1. StreamInv'
  BY StreamStepSound
<1>2. s'.closed
  BY <1>1, NoErrorOpen
<1>3. Fit(s)
  BY BridgeFits
<1>4. ASSUME Follows(s, s') PROVE FALSE
  BY <1>2, <1>4 DEF Follows
<1>5. CASE UNCHANGED s
  BY <1>5
<1>6. CASE PingTick
  BY <1>6, PingTickIdle
<1>7. CASE UsageTick
  BY <1>3, <1>4, <1>7, UsageEmits DEF UsageTick, Keeps, Follows
<1>8. CASE ClientCancels
  BY <1>8, CleansUp DEF ClientCancels, StreamInv, StreamTypes
<1>9. CASE s' = Start(s)
  BY <1>3, <1>4, <1>9, Starts DEF Keeps, Follows
<1>10. ASSUME NEW d, Fit(d), d.started, d.closed => d.sent = s.sent, s' = Fail(d)
       PROVE  s'.sent.usage = s'.running
  BY <1>10, Fails
<1>11. CASE OnValue
  <2>1. CASE path = "converse"
    <3>1. PICK frame \in ConverseFrames : s' = UpdateUsage(HandleFrame(s, frame))
      BY <1>11, <2>1 DEF OnValue
    <3> DEFINE d == HandleFrame(s, frame)
    <3>2. Fit(d) /\ Follows(s, d)
      BY <1>11, <2>1, BridgeFits, ConverseHandles DEF OnValue, StreamInv
    <3> HIDE DEF d
    <3>3. Keeps(d, s')
      BY <3>1, <3>2, UsageUpdates DEF d
    <3> QED BY <1>4, <3>2, <3>3 DEF Follows, Keeps
  <2>2. CASE path = "openai"
    <3>1. PICK chunk \in OpenAiChunks : s' = HandleChunk(s, chunk)
      BY <1>11, <2>2 DEF OnValue
    <3>2. CASE chunk.type = "zai_error" => s.finished
      BY <1>3, <1>4, <2>2, <3>1, <3>2, BridgeFits, OpenAiHandles
    <3>3. CASE chunk.type = "zai_error" /\ ~s.finished
      <4> DEFINE d == Start(s)
      <4>1. s' = Fail(d)
        BY <3>1, <3>3 DEF HandleChunk
      <4>2. Fit(d) /\ Keeps(s, d) /\ d.started
        BY <1>3, Starts
      <4> HIDE DEF d
      <4> QED BY <1>10, <4>1, <4>2 DEF Keeps
    <3> QED BY <3>2, <3>3
  <2> QED BY <2>1, <2>2 DEF StreamInv, StreamTypes
<1>12. CASE FailStream
  BY <1>3, <1>10, <1>12 DEF FailStream, StreamInv, PumpSound
<1>13. CASE OnDone
  <2>1. ASSUME NEW b, Fit(b), s' = Finish(b), b.closed => b.sent = s.sent,
               ~b.closed => b.started /\ b.sent.open \subseteq {b.openBlock}
        PROVE  FALSE
    BY <2>1, Finishes
  <2>2. CASE path = "converse"
    <3> DEFINE b == Start(s)
    <3>1. s' = Finish(b)
      BY <1>13, <2>2 DEF OnDone
    <3>2. Fit(b) /\ Keeps(s, b) /\ b.started
      BY <1>3, Starts
    <3> HIDE DEF b
    <3>3. ~b.closed => ConverseSound(b, source)
      BY <2>2, <3>2, BridgeFits, KeepsSound DEF Keeps
    <3> QED BY <2>1, <3>1, <3>2, <3>3 DEF Keeps, ConverseSound
  <2>3. CASE path = "openai"
    <3> DEFINE a == Start(s)
               b == CloseAllBlocks(a)
    <3>1. s' = Finish(b)
      BY <1>13, <2>3 DEF OnDone
    <3>2. Fit(a) /\ Keeps(s, a) /\ a.started
      BY <1>3, Starts
    <3> HIDE DEF a
    <3>3. ~a.closed => OpenAiSound(a)
      BY <2>3, <3>2, BridgeFits, KeepsSound DEF Keeps
    <3>4. Fit(b) /\ Follows(a, b) /\ (~a.closed => b.sent.open = {})
      BY <2>3, <3>2, <3>3, ClosesAllBlocks
    <3> HIDE DEF b
    <3> QED BY <2>1, <3>1, <3>2, <3>4 DEF Keeps, Follows
  <2> QED BY <2>2, <2>3 DEF StreamInv, StreamTypes
<1>14. Arrive \/ IdleFires => UNCHANGED s
  BY DEF Arrive, IdleFires
<1>15. OnOverflow \/ OnError => s' = Start(s)
  BY DEF OnOverflow, OnError
<1> QED BY <1>5, <1>6, <1>7, <1>8, <1>9, <1>11, <1>12, <1>13, <1>14, <1>15
        DEF StreamNext, PumpStep, streamVars

\* A stream that fails, of whatever cause and with whatever timer or chunk just before,
\* has told the client the output counted so far when it tells the error.
THEOREM StreamUsageTold == StreamSpec => UsageTold
<1>1. StreamInv /\ [StreamNext]_streamVars
        => (s'.sent.end # s.sent.end /\ s'.sent.end = "error" /\ path # "native"
              => s'.sent.usage = s'.running)
  BY StepTellsUsage
<1> QED BY <1>1, StreamInvariant, PTL DEF StreamSpec, UsageTold
==============================================================================
