-------------------------- MODULE TelemetryProofs ---------------------------
(***************************************************************************)
(* Theorems about the two stores of forge_tracera: the sink over its       *)
(* MemoryStore (Telemetry) and the journaled DiskStore, for every number   *)
(* of tasks, every capacity, batch size and number of events.              *)
(***************************************************************************)
EXTENDS Telemetry, DiskStore, FiniteSetTheorems, TLAPS

-----------------------------------------------------------------------------
(* Sequences of events: their elements, and order.                         *)

Ascending(s) == \A i, j \in DOMAIN s : i < j => s[i] < s[j]
Injective(s) == \A i, j \in DOMAIN s : s[i] = s[j] => i = j
Below(s, t)  == \A x \in Elements(s), y \in Elements(t) : x < y

LEMMA ElementsEmpty == Elements(<<>>) = {} /\ Ascending(<<>>) /\ Injective(<<>>)
BY DEF Elements, Ascending, Injective

LEMMA ElementsNat ==
    ASSUME NEW s \in Seq(Nat)
    PROVE  Elements(s) \subseteq Nat /\ \A i \in 1 .. Len(s) : s[i] \in Elements(s)
BY DEF Elements

LEMMA AppendElements ==
    ASSUME NEW s \in Seq(Nat), NEW x \in Nat
    PROVE  /\ Append(s, x) \in Seq(Nat) /\ Len(Append(s, x)) = Len(s) + 1
           /\ Elements(Append(s, x)) = Elements(s) \cup {x}
           /\ Injective(s) /\ x \notin Elements(s) => Injective(Append(s, x))
           /\ Ascending(s) /\ (\A y \in Elements(s) : y < x) => Ascending(Append(s, x))
<1> DEFINE d == Append(s, x)
           l == Len(s)
<1>1. /\ d \in Seq(Nat) /\ Len(d) = l + 1 /\ l \in Nat /\ d[l + 1] = x
      /\ \A i \in 1 .. l : d[i] = s[i]
      /\ DOMAIN d = 1 .. l + 1 /\ DOMAIN s = 1 .. l
  OBVIOUS
<1> HIDE DEF d, l
<1>2. \A i \in 1 .. l : i \in 1 .. l + 1 /\ i # l + 1
  BY <1>1
<1>3. \A i \in 1 .. l + 1 : i = l + 1 \/ i \in 1 .. l
  BY <1>1
<1>4. l + 1 \in 1 .. l + 1
  BY <1>1
<1>5. Elements(d) = Elements(s) \cup {x}
  <2>1. ASSUME NEW y \in Elements(d) PROVE y \in Elements(s) \cup {x}
    BY <1>1, <1>3 DEF Elements
  <2>2. ASSUME NEW y \in Elements(s) PROVE y \in Elements(d)
    <3>1. PICK i \in 1 .. l : y = s[i]
      BY <1>1 DEF Elements
    <3> QED BY <1>1, <1>2, <3>1 DEF Elements
  <2>3. x \in Elements(d)
    BY <1>1, <1>4 DEF Elements
  <2> QED BY <2>1, <2>2, <2>3
<1>6. \A i \in 1 .. l : s[i] \in Elements(s)
  BY <1>1 DEF Elements
<1>7. Injective(s) /\ x \notin Elements(s) => Injective(d)
  BY <1>1, <1>2, <1>3, <1>6 DEF Injective
<1>8. Ascending(s) /\ (\A y \in Elements(s) : y < x) => Ascending(d)
  <2> SUFFICES ASSUME Ascending(s), \A y \in Elements(s) : y < x,
                      NEW i \in 1 .. l + 1, NEW j \in 1 .. l + 1, i < j
               PROVE  d[i] < d[j]
    BY <1>1 DEF Ascending
  <2>1. i \in 1 .. l
    BY <1>1
  <2>2. CASE j \in 1 .. l
    BY <1>1, <2>1, <2>2 DEF Ascending
  <2>3. CASE j = l + 1
    BY <1>1, <1>6, <2>1, <2>3
  <2> QED BY <1>3, <2>2, <2>3
<1> QED BY <1>1, <1>5, <1>7, <1>8 DEF d, l

LEMMA ConcatElements ==
    ASSUME NEW s \in Seq(Nat), NEW t \in Seq(Nat)
    PROVE  /\ s \o t \in Seq(Nat) /\ Len(s \o t) = Len(s) + Len(t)
           /\ Elements(s \o t) = Elements(s) \cup Elements(t)
           /\ Injective(s) /\ Injective(t) /\ Elements(s) \cap Elements(t) = {} =>
                Injective(s \o t)
           /\ Ascending(s) /\ Ascending(t) /\ Below(s, t) => Ascending(s \o t)
<1> DEFINE d == s \o t
           l == Len(s)
           m == Len(t)
<1>1. /\ d \in Seq(Nat) /\ Len(d) = l + m /\ l \in Nat /\ m \in Nat
      /\ \A i \in 1 .. l : d[i] = s[i]
      /\ \A i \in l + 1 .. l + m : d[i] = t[i - l]
      /\ DOMAIN d = 1 .. l + m /\ DOMAIN s = 1 .. l /\ DOMAIN t = 1 .. m
  OBVIOUS
<1> HIDE DEF d, l, m
<1>2. ASSUME NEW i \in 1 .. l + m
      PROVE  \/ i \in 1 .. l /\ d[i] = s[i]
             \/ i \in l + 1 .. l + m /\ i - l \in 1 .. m /\ d[i] = t[i - l]
  <2>1. i \in 1 .. l \/ (i \in l + 1 .. l + m /\ i - l \in 1 .. m)
    BY <1>1
  <2> QED BY <1>1, <2>1
<1>3. \A i \in 1 .. m : i + l \in 1 .. l + m /\ d[i + l] = t[i]
  <2> TAKE i \in 1 .. m
  <2>1. i + l \in l + 1 .. l + m /\ i + l \in 1 .. l + m /\ (i + l) - l = i
    BY <1>1
  <2> QED BY <1>1, <2>1
<1>4. \A i \in 1 .. l : i \in 1 .. l + m
  BY <1>1
<1>5. Elements(d) = Elements(s) \cup Elements(t)
  <2>1. ASSUME NEW y \in Elements(d) PROVE y \in Elements(s) \cup Elements(t)
    <3>1. PICK i \in 1 .. l + m : y = d[i]
      BY <1>1 DEF Elements
    <3> QED BY <1>1, <1>2, <3>1 DEF Elements
  <2>2. ASSUME NEW y \in Elements(s) PROVE y \in Elements(d)
    <3>1. PICK i \in 1 .. l : y = s[i]
      BY <1>1 DEF Elements
    <3> QED BY <1>1, <1>4, <3>1 DEF Elements
  <2>3. ASSUME NEW y \in Elements(t) PROVE y \in Elements(d)
    <3>1. PICK i \in 1 .. m : y = t[i]
      BY <1>1 DEF Elements
    <3>2. i + l \in DOMAIN d /\ d[i + l] = y
      BY <1>1, <1>3, <3>1
    <3> QED BY <3>2 DEF Elements
  <2> QED BY <2>1, <2>2, <2>3
<1>6. /\ \A i \in 1 .. l : s[i] \in Elements(s)
      /\ \A i \in 1 .. m : t[i] \in Elements(t)
  BY <1>1 DEF Elements
<1>7. ASSUME Injective(s), Injective(t), Elements(s) \cap Elements(t) = {}
      PROVE  Injective(d)
  <2> SUFFICES ASSUME NEW i \in 1 .. l + m, NEW j \in 1 .. l + m, d[i] = d[j]
               PROVE  i = j
    BY <1>1 DEF Injective
  <2>1. CASE i \in 1 .. l /\ j \in 1 .. l
    BY <1>1, <1>7, <2>1 DEF Injective
  <2>2. CASE i \notin 1 .. l /\ j \notin 1 .. l
    <3>1. i - l \in 1 .. m /\ j - l \in 1 .. m /\ t[i - l] = t[j - l]
      BY <1>2, <2>2
    <3>2. i - l = j - l
      BY <1>1, <1>7, <3>1 DEF Injective
    <3> QED BY <1>1, <3>2
  <2>3. CASE i \in 1 .. l /\ j \notin 1 .. l
    BY <1>1, <1>2, <1>6, <1>7, <2>3
  <2>4. CASE i \notin 1 .. l /\ j \in 1 .. l
    BY <1>1, <1>2, <1>6, <1>7, <2>4
  <2> QED BY <2>1, <2>2, <2>3, <2>4
<1>8. ASSUME Ascending(s), Ascending(t), Below(s, t)
      PROVE  Ascending(d)
  <2> SUFFICES ASSUME NEW i \in 1 .. l + m, NEW j \in 1 .. l + m, i < j
               PROVE  d[i] < d[j]
    BY <1>1 DEF Ascending
  <2>1. CASE j \in 1 .. l
    <3>1. i \in 1 .. l
      BY <1>1, <2>1
    <3> QED BY <1>1, <1>8, <2>1, <3>1 DEF Ascending
  <2>2. CASE i \notin 1 .. l
    <3>1. j \notin 1 .. l
      BY <1>1, <2>2
    <3>2. i - l \in 1 .. m /\ j - l \in 1 .. m /\ d[i] = t[i - l] /\ d[j] = t[j - l]
      BY <1>2, <2>2, <3>1
    <3>3. i - l < j - l
      BY <1>1
    <3> QED BY <1>1, <1>8, <3>2, <3>3 DEF Ascending
  <2>3. CASE i \in 1 .. l /\ j \notin 1 .. l
    <3>1. j - l \in 1 .. m /\ d[j] = t[j - l] /\ d[i] = s[i]
      BY <1>1, <1>2, <2>3
    <3>2. d[i] \in Elements(s) /\ d[j] \in Elements(t)
      BY <1>6, <2>3, <3>1
    <3> QED BY <1>8, <3>2 DEF Below
  <2> QED BY <2>1, <2>2, <2>3
<1> QED BY <1>1, <1>5, <1>7, <1>8 DEF d, l, m

\* A drain, or a requeue that has no room for all, cuts a sequence in two.
LEMMA CutElements ==
    ASSUME NEW s \in Seq(Nat), NEW n \in 0 .. Len(s)
    PROVE  LET p == SubSeq(s, 1, n)
               q == SubSeq(s, n + 1, Len(s))
           IN  /\ p \in Seq(Nat) /\ Len(p) = n /\ q \in Seq(Nat) /\ Len(q) = Len(s) - n
               /\ Elements(q) = {s[i] : i \in n + 1 .. Len(s)}
               /\ Elements(s) = Elements(p) \cup Elements(q)
               /\ Injective(s) => /\ Injective(p) /\ Injective(q)
                                  /\ Elements(p) \cap Elements(q) = {}
               /\ Ascending(s) => Ascending(p) /\ Ascending(q) /\ Below(p, q)
<1> DEFINE p == SubSeq(s, 1, n)
           q == SubSeq(s, n + 1, Len(s))
           l == Len(s)
<1>1. /\ p \in Seq(Nat) /\ Len(p) = n /\ \A i \in 1 .. n : p[i] = s[i]
      /\ l \in Nat /\ n \in Nat /\ n <= l /\ DOMAIN p = 1 .. n /\ DOMAIN s = 1 .. l
  OBVIOUS
<1>2. /\ q \in Seq(Nat) /\ Len(q) = l - n /\ \A i \in 1 .. l - n : q[i] = s[n + i]
      /\ DOMAIN q = 1 .. l - n
  OBVIOUS
<1> HIDE DEF p, q, l
<1>3. \A i \in 1 .. n : i \in 1 .. l
  BY <1>1
<1>4. \A i \in 1 .. l - n : n + i \in 1 .. l /\ n + i \in n + 1 .. l
  BY <1>1
<1>5. ASSUME NEW i \in n + 1 .. l PROVE i - n \in 1 .. l - n /\ q[i - n] = s[i] /\ i \in 1 .. l
  <2>1. i - n \in 1 .. l - n /\ n + (i - n) = i /\ i \in 1 .. l
    BY <1>1
  <2> QED BY <1>2, <2>1
<1>6. Elements(q) = {s[i] : i \in n + 1 .. l}
  <2>1. ASSUME NEW y \in Elements(q) PROVE y \in {s[i] : i \in n + 1 .. l}
    <3>1. PICK i \in 1 .. l - n : y = q[i]
      BY <1>2 DEF Elements
    <3> QED BY <1>2, <1>4, <3>1
  <2>2. ASSUME NEW i \in n + 1 .. l PROVE s[i] \in Elements(q)
    <3>1. i - n \in DOMAIN q /\ q[i - n] = s[i]
      BY <1>2, <1>5
    <3> QED BY <3>1 DEF Elements
  <2> QED BY <2>1, <2>2
<1>7. Elements(p) = {s[i] : i \in 1 .. n}
  BY <1>1 DEF Elements
<1>8. Elements(s) = Elements(p) \cup Elements(q)
  <2>1. \A i \in 1 .. l : i \in 1 .. n \/ i \in n + 1 .. l
    BY <1>1
  <2>2. Elements(s) = {s[i] : i \in 1 .. l}
    BY <1>1 DEF Elements
  <2> QED BY <1>3, <1>5, <1>6, <1>7, <2>1, <2>2
<1>9. ASSUME Injective(s)
      PROVE  Injective(p) /\ Injective(q) /\ Elements(p) \cap Elements(q) = {}
  <2>1. Injective(p)
    BY <1>1, <1>3, <1>9 DEF Injective
  <2>2. Injective(q)
    <3> SUFFICES ASSUME NEW i \in 1 .. l - n, NEW j \in 1 .. l - n, q[i] = q[j] PROVE i = j
      BY <1>2 DEF Injective
    <3>1. n + i = n + j
      BY <1>1, <1>2, <1>4, <1>9 DEF Injective
    <3> QED BY <1>1, <3>1
  <2>3. ASSUME NEW i \in 1 .. n, NEW j \in n + 1 .. l, s[i] = s[j] PROVE FALSE
    <3>1. i = j
      BY <1>1, <1>3, <1>5, <1>9, <2>3 DEF Injective
    <3> QED BY <1>1, <3>1
  <2> QED BY <1>6, <1>7, <2>1, <2>2, <2>3
<1>10. ASSUME Ascending(s)
       PROVE  Ascending(p) /\ Ascending(q) /\ Below(p, q)
  <2>1. Ascending(p)
    BY <1>1, <1>3, <1>10 DEF Ascending
  <2>2. Ascending(q)
    <3> SUFFICES ASSUME NEW i \in 1 .. l - n, NEW j \in 1 .. l - n, i < j PROVE q[i] < q[j]
      BY <1>2 DEF Ascending
    <3>1. n + i < n + j
      BY <1>1
    <3> QED BY <1>1, <1>2, <1>4, <1>10, <3>1 DEF Ascending
  <2>3. ASSUME NEW i \in 1 .. n, NEW j \in n + 1 .. l PROVE s[i] < s[j]
    <3>1. i < j
      BY <1>1
    <3> QED BY <1>1, <1>3, <1>5, <1>10, <3>1 DEF Ascending
  <2> QED BY <1>6, <1>7, <2>1, <2>2, <2>3 DEF Below
<1> QED BY <1>1, <1>2, <1>6, <1>8, <1>9, <1>10 DEF p, q, l

-----------------------------------------------------------------------------
(* Conservation in the sink.  EveryEventOnce alone is not inductive: that a  *)
(* batch comes back without repeating an event rests on the batch having no  *)
(* repetition, that a drain loses no batch on the flusher holding none, and  *)
(* the account of dropped events on lost being finite.                      *)

SinkTypes ==
    /\ queue \in Seq(Nat)
    /\ submitted \in Nat /\ dropped \in Nat /\ accepted \in Nat
    /\ flusher \in [Flushers -> [pc : {"idle", "loop", "retry", "sending"},
                                 batch : Seq(Nat), attempt : Nat, signed : SUBSET Creds]]
    /\ current \in Creds /\ previous \in Creds \cup {None}
    /\ IsFiniteSet(lost)

Placed ==
    /\ 1 .. accepted = Elements(queue) \cup Held \cup acked \cup lost
    /\ Elements(queue) \cap (Held \cup acked \cup lost) = {}
    /\ (acked \cup Held) \cap lost = {} /\ acked \cap Held = {}

Apart ==
    \A f, g \in Flushers :
        f # g => Elements(flusher[f].batch) \cap Elements(flusher[g].batch) = {}

Accounted ==
    /\ dropped = (submitted - accepted) + Cardinality(lost)
    /\ Len(queue) <= Capacity

Batched ==
    \A f \in Flushers :
        /\ Injective(flusher[f].batch)
        /\ flusher[f].pc \in {"idle", "loop"} => flusher[f].batch = <<>>

SinkInv == SinkTypes /\ Placed /\ Injective(queue) /\ Apart /\ Accounted /\ Batched

\* What the other flushers hold.
Others(f) == UNION {Elements(flusher[g].batch) : g \in Flushers \ {f}}

LEMMA HeldParts ==
    ASSUME SinkInv, NEW f \in Flushers
    PROVE  /\ Held = Others(f) \cup Elements(flusher[f].batch)
           /\ Others(f) \cap Elements(flusher[f].batch) = {}
BY DEF Held, Others, SinkInv, Apart

LEMMA HeldStep ==
    ASSUME SinkInv, NEW f \in Flushers,
           \A g \in Flushers \ {f} : flusher'[g].batch = flusher[g].batch,
           Others(f) \cap Elements(flusher'[f].batch) = {}
    PROVE  Held' = Others(f) \cup Elements(flusher'[f].batch) /\ Apart'
<1>1. Held' = Others(f) \cup Elements(flusher'[f].batch)
  BY DEF Held, Others
<1>2. Apart'
  <2> SUFFICES ASSUME NEW g \in Flushers, NEW h \in Flushers, g # h
               PROVE  Elements(flusher'[g].batch) \cap Elements(flusher'[h].batch) = {}
    BY DEF Apart
  <2>1. CASE g # f /\ h # f
    BY <2>1 DEF SinkInv, Apart
  <2>2. CASE g = f
    BY <2>2 DEF Others
  <2>3. CASE h = f
    BY <2>3 DEF Others
  <2> QED BY <2>1, <2>2, <2>3
<1> QED BY <1>1, <1>2

LEMMA SameBatches ==
    ASSUME SinkInv, \A f \in Flushers : flusher'[f].batch = flusher[f].batch
    PROVE  Held' = Held /\ Apart'
BY DEF Held, SinkInv, Apart

LEMMA SinkInit == Init => SinkInv
<1> SUFFICES ASSUME Init PROVE SinkInv
  OBVIOUS
<1>1. \A f \in Flushers : flusher[f] = Idle /\ flusher[f].batch = <<>>
  BY DEF Init, Idle
<1>2. SinkTypes
  BY FS_EmptySet DEF Init, SinkTypes, Idle
<1>3. Held = {}
  BY <1>1, ElementsEmpty DEF Held
<1>4. Placed /\ Injective(queue) /\ Apart
  BY <1>1, <1>3, ElementsEmpty DEF Init, Placed, Apart
<1>5. Accounted
  BY FS_EmptySet, ConfigAssumption DEF Init, Accounted
<1>6. Batched
  BY <1>1, ElementsEmpty DEF Batched
<1> QED BY <1>2, <1>4, <1>5, <1>6 DEF SinkInv

\* A new event enters the queue: Submit with room, or a spinning caller.
LEMMA PushKeeps ==
    ASSUME SinkInv, Push, ~Full, UNCHANGED <<flusher, current, previous, acked, lost>>
    PROVE  SinkInv'
<1>1. /\ queue \in Seq(Nat) /\ accepted \in Nat /\ submitted \in Nat /\ dropped \in Nat
      /\ queue' = Append(queue, accepted + 1) /\ accepted' = accepted + 1
      /\ submitted' = submitted + 1 /\ dropped' = dropped
  BY DEF SinkInv, SinkTypes, Push
<1>2. Held' = Held /\ Apart'
  BY SameBatches
<1>3. accepted + 1 \in Nat /\ 1 .. accepted + 1 = (1 .. accepted) \cup {accepted + 1}
      /\ accepted + 1 \notin 1 .. accepted
  BY <1>1
<1>4. /\ queue' \in Seq(Nat) /\ Len(queue') = Len(queue) + 1
      /\ Elements(queue') = Elements(queue) \cup {accepted + 1}
      /\ Injective(queue) /\ accepted + 1 \notin Elements(queue) => Injective(queue')
  BY <1>1, <1>3, AppendElements
<1>5. 1 .. accepted = Elements(queue) \cup Held \cup acked \cup lost
  BY DEF SinkInv, Placed
<1>6. accepted + 1 \notin Elements(queue) \cup Held \cup acked \cup lost
  BY <1>3, <1>5
<1>7. Placed'
  BY <1>1, <1>2, <1>3, <1>4, <1>6 DEF SinkInv, Placed
<1>8. Injective(queue')
  BY <1>4, <1>6 DEF SinkInv
<1>9. Accounted'
  <2>1. Len(queue') <= Capacity
    BY <1>1, <1>4, ConfigAssumption DEF Full
  <2>2. Cardinality(lost) \in Nat
    BY FS_CardinalityType DEF SinkInv, SinkTypes
  <2>3. dropped' = (submitted' - accepted') + Cardinality(lost')
    BY <1>1, <2>2 DEF SinkInv, Accounted
  <2> QED BY <2>1, <2>3 DEF Accounted
<1>10. SinkTypes' /\ Batched'
  BY <1>1, <1>3, <1>4 DEF SinkInv, SinkTypes, Batched
<1> QED BY <1>2, <1>7, <1>8, <1>9, <1>10 DEF SinkInv

LEMMA SubmitKeeps ==
    ASSUME SinkInv, NEW s, Submit(s) \/ SpinEnds(s)
    PROVE  SinkInv'
<1>1. UNCHANGED <<flusher, current, previous, acked, lost>>
  BY DEF Submit, SpinEnds, auth
<1>2. CASE ~Full /\ Push
  BY <1>1, <1>2, PushKeeps
<1>3. CASE submitted' = submitted + 1 /\ dropped' = dropped + 1 /\ UNCHANGED <<queue, accepted>>
  <2>1. Held' = Held /\ Apart'
    BY <1>1, SameBatches
  <2>2. Cardinality(lost) \in Nat
    BY FS_CardinalityType DEF SinkInv, SinkTypes
  <2>3. Accounted'
    BY <1>1, <1>3, <2>2 DEF SinkInv, SinkTypes, Accounted
  <2>4. SinkTypes'
    BY <1>1, <1>3 DEF SinkInv, SinkTypes
  <2>5. Placed' /\ Injective(queue)' /\ Batched'
    BY <1>1, <1>3, <2>1 DEF SinkInv, Placed, Batched
  <2> QED BY <2>1, <2>3, <2>4, <2>5 DEF SinkInv
<1>4. CASE UNCHANGED <<queue, submitted, dropped, accepted>>
  <2>1. Held' = Held /\ Apart'
    BY <1>1, SameBatches
  <2> QED BY <1>1, <1>4, <2>1 DEF SinkInv, SinkTypes, Placed, Accounted, Batched
<1> QED BY <1>2, <1>3, <1>4 DEF Submit, SpinEnds, store

\* A step of a flush that leaves every batch where it is, or of the credentials.
LEMMA StayKeeps ==
    ASSUME SinkInv, UNCHANGED <<queue, submitted, dropped, accepted, acked, lost>>,
           SinkTypes', \A f \in Flushers : flusher'[f].batch = flusher[f].batch,
           \A f \in Flushers : flusher'[f].pc \in {"idle", "loop"} =>
                flusher[f].pc \in {"idle", "loop"}
    PROVE  SinkInv'
<1>1. Held' = Held /\ Apart'
  BY SameBatches
<1>2. Placed' /\ Injective(queue)' /\ Accounted'
  BY <1>1 DEF SinkInv, Placed, Accounted
<1>3. Batched'
  BY DEF SinkInv, Batched
<1> QED BY <1>1, <1>2, <1>3 DEF SinkInv

Flushings == [pc : {"idle", "loop", "retry", "sending"}, batch : Seq(Nat), attempt : Nat,
              signed : SUBSET Creds]

LEMMA FlusherFacts ==
    ASSUME SinkInv, NEW f \in Flushers
    PROVE  /\ flusher \in [Flushers -> Flushings] /\ flusher[f] \in Flushings
           /\ flusher[f].batch \in Seq(Nat) /\ flusher[f].attempt \in Nat
           /\ flusher[f].pc \in {"idle", "loop"} => flusher[f].batch = <<>>
           /\ Injective(flusher[f].batch)
           /\ Idle \in Flushings /\ Idle.batch = <<>> /\ Idle.pc = "idle"
<1>1. flusher \in [Flushers -> Flushings]
  BY DEF SinkInv, SinkTypes, Flushings
<1>2. flusher[f] \in Flushings
  BY <1>1
<1>3. flusher[f].batch \in Seq(Nat) /\ flusher[f].attempt \in Nat
  BY <1>2 DEF Flushings
<1>4. Idle \in Flushings /\ Idle.batch = <<>> /\ Idle.pc = "idle"
  BY DEF Idle, Flushings
<1> QED BY <1>1, <1>2, <1>3, <1>4 DEF SinkInv, Batched

\* The head of the flush loop: drain_batch moves the oldest events to the
\* flusher, which held none.
LEMMA LoopKeeps ==
    ASSUME SinkInv, NEW f \in Flushers, Loop(f)
    PROVE  SinkInv'
<1>1. /\ flusher \in [Flushers -> Flushings] /\ flusher[f].pc = "loop"
      /\ flusher[f].batch = <<>>
      /\ Idle \in Flushings /\ Idle.batch = <<>> /\ Idle.pc = "idle"
  BY FlusherFacts DEF Loop
<1>2. UNCHANGED <<submitted, dropped, current, previous, accepted, acked, lost>>
  BY DEF Loop, auth
<1>3. CASE flusher' = [flusher EXCEPT ![f] = Idle] /\ UNCHANGED queue
  <2>1. /\ flusher' \in [Flushers -> Flushings]
        /\ \A g \in Flushers : flusher'[g].batch = flusher[g].batch
        /\ \A g \in Flushers : flusher'[g].pc \in {"idle", "loop"} =>
              flusher[g].pc \in {"idle", "loop"}
    BY <1>1, <1>3
  <2>2. SinkTypes'
    BY <1>2, <1>3, <2>1 DEF SinkInv, SinkTypes, Flushings
  <2> QED BY <1>2, <1>3, <2>1, <2>2, StayKeeps
<1>4. CASE queue # <<>> /\ ~down
  <2> DEFINE n == IF Len(queue) < BatchSize THEN Len(queue) ELSE BatchSize
             r == [Idle EXCEPT !.pc = "retry", !.batch = SubSeq(queue, 1, n)]
  <2>1. /\ flusher' = [flusher EXCEPT ![f] = r]
        /\ queue' = SubSeq(queue, n + 1, Len(queue))
    BY <1>4 DEF Loop
  <2>2. queue \in Seq(Nat) /\ Len(queue) \in Nat /\ n \in 0 .. Len(queue)
    BY ConfigAssumption DEF SinkInv, SinkTypes
  <2> HIDE DEF n
  <2> DEFINE b == SubSeq(queue, 1, n)
  <2>3. /\ b \in Seq(Nat) /\ queue' \in Seq(Nat) /\ Len(queue') = Len(queue) - n
        /\ Elements(queue) = Elements(b) \cup Elements(queue')
        /\ Injective(b) /\ Injective(queue') /\ Elements(b) \cap Elements(queue') = {}
    BY <2>1, <2>2, CutElements DEF SinkInv
  <2>4. r \in Flushings /\ r.batch = b /\ r.pc = "retry"
    BY <2>3 DEF Idle, Flushings
  <2> HIDE DEF r, b
  <2>5. /\ flusher' \in [Flushers -> Flushings] /\ flusher'[f] = r
        /\ \A g \in Flushers \ {f} : flusher'[g] = flusher[g]
    BY <1>1, <2>1, <2>4
  <2>6. Held = Others(f)
    BY <1>1, HeldParts, ElementsEmpty
  <2>7. /\ 1 .. accepted = Elements(queue) \cup Held \cup acked \cup lost
        /\ Elements(queue) \cap (Held \cup acked \cup lost) = {}
        /\ (acked \cup Held) \cap lost = {} /\ acked \cap Held = {}
    BY DEF SinkInv, Placed
  <2>8. Others(f) \cap Elements(b) = {}
    BY <2>3, <2>6, <2>7
  <2>9. Held' = Others(f) \cup Elements(b) /\ Apart'
    BY <2>4, <2>5, <2>8, HeldStep
  <2>10. Placed'
    BY <1>2, <2>3, <2>6, <2>7, <2>9 DEF Placed
  <2>11. Accounted'
    BY <1>2, <2>2, <2>3, ConfigAssumption DEF SinkInv, Accounted
  <2>12. Batched'
    BY <2>3, <2>4, <2>5 DEF SinkInv, Batched
  <2>13. SinkTypes'
    BY <1>2, <2>3, <2>5 DEF SinkInv, SinkTypes, Flushings
  <2> QED BY <2>3, <2>9, <2>10, <2>11, <2>12, <2>13 DEF SinkInv
<1> QED BY <1>3, <1>4 DEF Loop

LEMMA DeliveredKeeps ==
    ASSUME SinkInv, NEW f \in Flushers, Delivered(f)
    PROVE  SinkInv'
<1> DEFINE B == Elements(flusher[f].batch)
           r == [Idle EXCEPT !.pc = "loop"]
<1>1. /\ UNCHANGED <<queue, submitted, dropped, current, previous, accepted, lost>>
      /\ acked' = acked \cup B /\ flusher' = [flusher EXCEPT ![f] = r]
  BY DEF Delivered, store, auth, Elements
<1>2. r \in Flushings /\ r.batch = <<>> /\ r.pc = "loop"
  <2>1. Idle \in Flushings /\ Idle.batch = <<>>
    BY FlusherFacts
  <2> QED BY <2>1 DEF Flushings
<1> HIDE DEF r, B
<1>3. /\ flusher' \in [Flushers -> Flushings] /\ flusher'[f] = r
      /\ \A g \in Flushers \ {f} : flusher'[g] = flusher[g]
  BY <1>1, <1>2, FlusherFacts
<1>4. Held = Others(f) \cup B /\ Others(f) \cap B = {}
  BY HeldParts DEF B
<1>5. Held' = Others(f) /\ Apart'
  BY <1>2, <1>3, HeldStep, ElementsEmpty
<1>6. /\ 1 .. accepted = Elements(queue) \cup Held \cup acked \cup lost
      /\ Elements(queue) \cap (Held \cup acked \cup lost) = {}
      /\ (acked \cup Held) \cap lost = {} /\ acked \cap Held = {}
  BY DEF SinkInv, Placed
<1>7. Placed'
  BY <1>1, <1>4, <1>5, <1>6 DEF Placed
<1>8. Accounted' /\ Injective(queue)'
  BY <1>1 DEF SinkInv, Accounted
<1>9. Batched'
  BY <1>2, <1>3, ElementsEmpty DEF SinkInv, Batched
<1>10. SinkTypes'
  BY <1>1, <1>3 DEF SinkInv, SinkTypes, Flushings
<1> QED BY <1>5, <1>7, <1>8, <1>9, <1>10 DEF SinkInv

\* A piece of a sequence without repetition has as many elements as positions.
LEMMA PieceCardinality ==
    ASSUME NEW s \in Seq(Nat), Injective(s), NEW n \in 0 .. Len(s)
    PROVE  LET D == {s[i] : i \in n + 1 .. Len(s)}
           IN  IsFiniteSet(D) /\ Cardinality(D) = Len(s) - n
<1> DEFINE I == n + 1 .. Len(s)
           D == {s[i] : i \in I}
           g == [i \in I |-> s[i]]
<1>1. n \in Nat /\ Len(s) \in Nat /\ n <= Len(s) /\ DOMAIN s = 1 .. Len(s)
  OBVIOUS
<1>2. IsFiniteSet(I) /\ Cardinality(I) = Len(s) - n
  <2>1. n + 1 \in Int /\ Len(s) \in Int
    BY <1>1
  <2>2. IsFiniteSet(I) /\ Cardinality(I) = IF n + 1 > Len(s) THEN 0 ELSE Len(s) - (n + 1) + 1
    BY <2>1, FS_Interval
  <2>3. (IF n + 1 > Len(s) THEN 0 ELSE Len(s) - (n + 1) + 1) = Len(s) - n
    <3>1. \A l \in Nat : n <= l => (IF n + 1 > l THEN 0 ELSE l - (n + 1) + 1) = l - n
      BY <1>1
    <3> QED BY <1>1, <3>1
  <2> QED BY <2>2, <2>3
<1>3. \A i \in I : i \in DOMAIN s
  BY <1>1
<1>4. g \in Bijection(I, D)
  BY <1>3 DEF Bijection, Injection, Surjection, IsInjective, Injective
<1>5. ExistsBijection(I, D)
  BY <1>4 DEF ExistsBijection
<1> HIDE DEF I, D
<1>6. IsFiniteSet(D) /\ Cardinality(D) = Len(s) - n
  BY <1>2, <1>5, FS_Bijection
<1> QED BY <1>6 DEF D, I

\* requeue_front: what fits goes back to the queue, the rest is counted.
LEMMA GiveUpKeeps ==
    ASSUME SinkInv, NEW f \in Flushers, GiveUp(f)
    PROVE  SinkInv'
<1> DEFINE b == flusher[f].batch
           k == Keep(b)
           p == SubSeq(b, 1, k)
           q == SubSeq(b, k + 1, Len(b))
           D == {b[i] : i \in k + 1 .. Len(b)}
<1>1. /\ queue' = p \o queue /\ dropped' = dropped + Len(b) - k
      /\ lost' = lost \cup D /\ flusher' = [flusher EXCEPT ![f] = Idle]
      /\ UNCHANGED <<submitted, accepted, acked, current, previous>>
  BY DEF GiveUp, Requeue, Requeued, DropCount, auth
<1>2. /\ b \in Seq(Nat) /\ Injective(b) /\ flusher \in [Flushers -> Flushings]
      /\ Idle \in Flushings /\ Idle.batch = <<>> /\ Idle.pc = "idle"
  BY FlusherFacts
<1>3. /\ queue \in Seq(Nat) /\ Len(queue) \in Nat /\ Len(b) \in Nat
      /\ Capacity \in Nat /\ Len(queue) <= Capacity
  BY <1>2, ConfigAssumption DEF SinkInv, SinkTypes, Accounted
<1>4. k \in 0 .. Len(b) /\ k + Len(queue) <= Capacity
  BY <1>3 DEF Keep
<1> HIDE DEF b, k
<1>5. /\ p \in Seq(Nat) /\ Len(p) = k /\ Elements(q) = D
      /\ Elements(b) = Elements(p) \cup Elements(q)
      /\ Injective(p) /\ Elements(p) \cap Elements(q) = {}
  BY <1>2, <1>4, CutElements
<1>6. IsFiniteSet(D) /\ Cardinality(D) = Len(b) - k
  BY <1>2, <1>4, PieceCardinality
<1> HIDE DEF p, q, D
<1>7. /\ Held = Others(f) \cup Elements(b) /\ Others(f) \cap Elements(b) = {}
  BY HeldParts DEF b
<1>8. /\ flusher' \in [Flushers -> Flushings] /\ flusher'[f] = Idle
      /\ \A g \in Flushers \ {f} : flusher'[g] = flusher[g]
  BY <1>1, <1>2
<1>9. Held' = Others(f) /\ Apart'
  BY <1>2, <1>8, HeldStep, ElementsEmpty
<1>10. /\ 1 .. accepted = Elements(queue) \cup Held \cup acked \cup lost
       /\ Elements(queue) \cap (Held \cup acked \cup lost) = {}
       /\ (acked \cup Held) \cap lost = {} /\ acked \cap Held = {}
  BY DEF SinkInv, Placed
<1>11. Elements(p) \cap Elements(queue) = {} /\ D \cap lost = {}
  BY <1>5, <1>7, <1>10
<1>12. /\ queue' \in Seq(Nat) /\ Len(queue') = k + Len(queue)
       /\ Elements(queue') = Elements(p) \cup Elements(queue)
       /\ Injective(queue')
  BY <1>1, <1>3, <1>5, <1>11, ConcatElements DEF SinkInv
<1>13. Placed'
  BY <1>1, <1>5, <1>7, <1>9, <1>10, <1>12 DEF Placed
<1>14. /\ IsFiniteSet(lost') /\ Cardinality(lost') = Cardinality(lost) + (Len(b) - k)
       /\ Cardinality(lost) \in Nat
  <2>1. IsFiniteSet(lost) /\ Cardinality(lost) \in Nat
    BY FS_CardinalityType DEF SinkInv, SinkTypes
  <2>2. lost \cap D = {} /\ Cardinality(lost \cap D) = 0
    BY <1>11, FS_EmptySet
  <2>3. IsFiniteSet(lost \cup D)
        /\ Cardinality(lost \cup D) = Cardinality(lost) + Cardinality(D) - Cardinality(lost \cap D)
    BY <1>6, <2>1, FS_Union
  <2> QED BY <1>1, <1>3, <1>4, <1>6, <2>1, <2>2, <2>3
<1>15. dropped' \in Nat /\ Accounted'
  <2>1. /\ dropped \in Nat /\ submitted \in Nat /\ accepted \in Nat
        /\ dropped = (submitted - accepted) + Cardinality(lost)
    BY DEF SinkInv, SinkTypes, Accounted
  <2>2. dropped' = (submitted' - accepted') + Cardinality(lost')
    BY <1>1, <1>3, <1>4, <1>14, <2>1
  <2> QED BY <1>1, <1>3, <1>4, <1>12, <2>1, <2>2 DEF Accounted
<1>16. Batched'
  BY <1>2, <1>8, ElementsEmpty DEF SinkInv, Batched
<1>17. SinkTypes'
  BY <1>1, <1>8, <1>12, <1>14, <1>15 DEF SinkInv, SinkTypes, Flushings
<1> QED BY <1>9, <1>12, <1>13, <1>15, <1>16, <1>17 DEF SinkInv

LEMMA SinkNext == SinkInv /\ [Next]_vars => SinkInv'
<1> SUFFICES ASSUME SinkInv, [Next]_vars PROVE SinkInv'
  OBVIOUS
<1>1. ASSUME NEW s \in Submitters, Submit(s) \/ SpinEnds(s) PROVE SinkInv'
  BY <1>1, SubmitKeeps
<1>2. ASSUME NEW f \in Flushers, Loop(f) \/ Delivered(f) \/ GiveUp(f) PROVE SinkInv'
  BY <1>2, LoopKeeps, DeliveredKeeps, GiveUpKeeps
<1>3. ASSUME NEW f \in Flushers, Flush(f) \/ Shutdown(f) PROVE SinkInv'
  <2>1. /\ UNCHANGED <<queue, submitted, dropped, accepted, acked, lost, current, previous>>
        /\ flusher' = [flusher EXCEPT ![f].pc = "loop"] /\ flusher[f].pc = "idle"
    BY <1>3 DEF Flush, Shutdown, store, auth, history
  <2>2. flusher \in [Flushers -> Flushings]
    BY FlusherFacts
  <2>3. /\ flusher' \in [Flushers -> Flushings]
        /\ \A g \in Flushers : flusher'[g].batch = flusher[g].batch
        /\ \A g \in Flushers : flusher'[g].pc \in {"idle", "loop"} =>
              flusher[g].pc \in {"idle", "loop"}
    BY <2>1, <2>2 DEF Flushings
  <2>4. SinkTypes'
    BY <2>1, <2>3 DEF SinkInv, SinkTypes, Flushings
  <2> QED BY <2>1, <2>3, <2>4, StayKeeps
<1>4. ASSUME NEW f \in Flushers, StartAttempt(f) PROVE SinkInv'
  <2>1. /\ UNCHANGED <<queue, submitted, dropped, accepted, acked, lost, current, previous>>
        /\ flusher' = [flusher EXCEPT ![f].pc = "sending", ![f].signed = Signatures(f)]
    BY <1>4 DEF StartAttempt, store, auth, history
  <2>2. flusher \in [Flushers -> Flushings] /\ Signatures(f) \in SUBSET Creds
    BY FlusherFacts DEF SinkInv, SinkTypes, Signatures
  <2>3. /\ flusher' \in [Flushers -> Flushings]
        /\ \A g \in Flushers : flusher'[g].batch = flusher[g].batch
        /\ \A g \in Flushers : flusher'[g].pc \in {"idle", "loop"} =>
              flusher[g].pc \in {"idle", "loop"}
    BY <2>1, <2>2 DEF Flushings
  <2>4. SinkTypes'
    BY <2>1, <2>3 DEF SinkInv, SinkTypes, Flushings
  <2> QED BY <2>1, <2>3, <2>4, StayKeeps
<1>5. ASSUME NEW f \in Flushers, AttemptFails(f) PROVE SinkInv'
  <2>1. /\ UNCHANGED <<queue, submitted, dropped, accepted, acked, lost, current, previous>>
        /\ flusher' = [flusher EXCEPT ![f].pc = "retry", ![f].attempt = @ + 1]
    BY <1>5 DEF AttemptFails, store, auth, history
  <2>2. flusher \in [Flushers -> Flushings] /\ flusher[f].attempt + 1 \in Nat
    BY FlusherFacts
  <2>3. /\ flusher' \in [Flushers -> Flushings]
        /\ \A g \in Flushers : flusher'[g].batch = flusher[g].batch
        /\ \A g \in Flushers : flusher'[g].pc \in {"idle", "loop"} =>
              flusher[g].pc \in {"idle", "loop"}
    BY <2>1, <2>2 DEF Flushings
  <2>4. SinkTypes'
    BY <2>1, <2>3 DEF SinkInv, SinkTypes, Flushings
  <2> QED BY <2>1, <2>3, <2>4, StayKeeps
<1>6. ASSUME \/ \E c \in Creds : RotateAuth(c) \/ SetAuth(c)
             \/ WindowElapses \/ AuthSnapshot \/ UNCHANGED vars
      PROVE  SinkInv'
  <2>1. UNCHANGED <<queue, submitted, dropped, accepted, acked, lost, flusher>>
    BY <1>6 DEF RotateAuth, SetAuth, WindowElapses, AuthSnapshot, store, history, vars
  <2>2. current' \in Creds /\ previous' \in Creds \cup {None}
    BY <1>6 DEF RotateAuth, SetAuth, WindowElapses, AuthSnapshot, vars, auth, SinkInv, SinkTypes
  <2>3. SinkTypes'
    BY <2>1, <2>2 DEF SinkInv, SinkTypes
  <2> QED BY <2>1, <2>3, StayKeeps
<1> QED BY <1>1, <1>2, <1>3, <1>4, <1>5, <1>6 DEF Next, FlushStep

LEMMA SinkCorrect == Spec => []SinkInv
BY SinkInit, SinkNext, PTL DEF Spec

\* However submits, concurrent flushes with their retries and requeues,
\* shutdown and credential changes interleave, the sink neither loses an
\* accepted event uncounted nor duplicates one, total_dropped is exact, and
\* requeue_front never takes the store past its capacity.
THEOREM EventsCorrect == Spec => []EveryEventOnce
<1>1. SinkInv => EveryEventOnce
  BY DEF SinkInv, Placed, Apart, Accounted, Injective, EveryEventOnce
<1> QED BY SinkCorrect, <1>1, PTL

-----------------------------------------------------------------------------
(* Order.  While no two batches are out at once, at most one flusher holds   *)
(* events, and they are older than everything in the queue.                  *)

OrderInv ==
    ~overlapped =>
        /\ \A f, g \in Flushers : f # g => flusher[f].batch = <<>> \/ flusher[g].batch = <<>>
        /\ Ascending(queue)
        /\ \A f \in Flushers : Ascending(flusher[f].batch) /\ Below(flusher[f].batch, queue)

LEMMA OrderInit == Init => OrderInv
<1> SUFFICES ASSUME Init PROVE OrderInv
  OBVIOUS
<1>1. queue = <<>> /\ \A f \in Flushers : flusher[f].batch = <<>>
  BY DEF Init, Idle
<1> QED BY <1>1, ElementsEmpty DEF OrderInv, Below

\* The pushed event is newer than all those in the queue and in batches.
LEMMA PushOrder ==
    ASSUME SinkInv, OrderInv, Push, UNCHANGED <<flusher, overlapped>>
    PROVE  OrderInv'
<1> SUFFICES ASSUME ~overlapped PROVE OrderInv'
  BY DEF OrderInv
<1>1. /\ queue \in Seq(Nat) /\ accepted \in Nat /\ accepted + 1 \in Nat
      /\ queue' = Append(queue, accepted + 1)
  BY DEF SinkInv, SinkTypes, Push
<1>2. ASSUME NEW x \in Elements(queue) \cup Held PROVE x \in Nat /\ x < accepted + 1
  <2>1. x \in 1 .. accepted
    BY DEF SinkInv, Placed
  <2> QED BY <1>1, <2>1
<1>3. Ascending(queue') /\ Elements(queue') = Elements(queue) \cup {accepted + 1}
  BY <1>1, <1>2, AppendElements DEF OrderInv
<1>4. ASSUME NEW f \in Flushers PROVE Below(flusher[f].batch, queue')
  <2>1. Elements(flusher[f].batch) \subseteq Held
    BY DEF Held
  <2> QED BY <1>2, <1>3, <2>1 DEF OrderInv, Below
<1> QED BY <1>3, <1>4 DEF OrderInv

LEMMA SubmitOrder ==
    ASSUME SinkInv, OrderInv, NEW s, Submit(s) \/ SpinEnds(s)
    PROVE  OrderInv'
<1>1. UNCHANGED <<flusher, overlapped>>
  BY DEF Submit, SpinEnds
<1>2. CASE Push
  BY <1>1, <1>2, PushOrder
<1>3. CASE UNCHANGED queue
  BY <1>1, <1>3 DEF OrderInv
<1> QED BY <1>2, <1>3 DEF Submit, SpinEnds, store

\* A step that takes the batch of f away, or leaves it, and not the queue.
LEMMA StayOrder ==
    ASSUME SinkInv, OrderInv, UNCHANGED queue, overlapped' = overlapped,
           \A f \in Flushers : flusher'[f].batch \in {flusher[f].batch, <<>>}
    PROVE  OrderInv'
BY ElementsEmpty DEF OrderInv, Below

LEMMA LoopOrder ==
    ASSUME SinkInv, OrderInv, NEW f \in Flushers, Loop(f)
    PROVE  OrderInv'
<1>1. /\ flusher \in [Flushers -> Flushings] /\ Idle.batch = <<>>
  BY FlusherFacts
<1>2. CASE flusher' = [flusher EXCEPT ![f] = Idle] /\ UNCHANGED <<queue, overlapped>>
  <2>1. \A g \in Flushers : flusher'[g].batch \in {flusher[g].batch, <<>>}
    BY <1>1, <1>2
  <2> QED BY <1>2, <2>1, StayOrder
<1>3. CASE queue # <<>> /\ ~down
  <2> DEFINE n == IF Len(queue) < BatchSize THEN Len(queue) ELSE BatchSize
             r == [Idle EXCEPT !.pc = "retry", !.batch = SubSeq(queue, 1, n)]
             b == SubSeq(queue, 1, n)
  <2>1. /\ flusher' = [flusher EXCEPT ![f] = r]
        /\ queue' = SubSeq(queue, n + 1, Len(queue))
        /\ overlapped' = (overlapped \/ \E g \in Flushers : flusher[g].batch # <<>>)
    BY <1>3 DEF Loop
  <2>2. queue \in Seq(Nat) /\ Len(queue) \in Nat /\ n \in 0 .. Len(queue)
    BY ConfigAssumption DEF SinkInv, SinkTypes
  <2> SUFFICES ASSUME ~overlapped' PROVE OrderInv'
    BY DEF OrderInv
  <2>3. ~overlapped /\ \A g \in Flushers : flusher[g].batch = <<>>
    BY <2>1
  <2>4. r.batch = b
    BY DEF Idle
  <2> HIDE DEF n
  <2>5. Ascending(b) /\ Ascending(queue') /\ Below(b, queue')
    BY <2>1, <2>2, <2>3, CutElements DEF OrderInv
  <2> HIDE DEF r, b
  <2>6. flusher'[f].batch = b /\ \A g \in Flushers \ {f} : flusher'[g].batch = <<>>
    BY <1>1, <2>1, <2>3, <2>4
  <2>7. ASSUME NEW g \in Flushers
        PROVE  Ascending(flusher'[g].batch) /\ Below(flusher'[g].batch, queue')
    BY <2>5, <2>6, ElementsEmpty DEF Below
  <2> QED BY <2>5, <2>6, <2>7 DEF OrderInv
<1> QED BY <1>2, <1>3 DEF Loop

\* requeue_front puts the batch, older than the queue, back in front.
LEMMA GiveUpOrder ==
    ASSUME SinkInv, OrderInv, NEW f \in Flushers, GiveUp(f)
    PROVE  OrderInv'
<1> DEFINE b == flusher[f].batch
           k == Keep(b)
           p == SubSeq(b, 1, k)
           q == SubSeq(b, k + 1, Len(b))
<1>1. /\ queue' = p \o queue /\ flusher' = [flusher EXCEPT ![f] = Idle]
      /\ UNCHANGED overlapped
  BY DEF GiveUp, Requeue, Requeued
<1>2. b \in Seq(Nat) /\ flusher \in [Flushers -> Flushings] /\ Idle.batch = <<>>
  BY FlusherFacts
<1>3. /\ queue \in Seq(Nat) /\ Len(queue) \in Nat /\ Len(b) \in Nat
      /\ Capacity \in Nat /\ Len(queue) <= Capacity
  BY <1>2, ConfigAssumption DEF SinkInv, SinkTypes, Accounted
<1>4. k \in 0 .. Len(b)
  BY <1>3 DEF Keep
<1> SUFFICES ASSUME ~overlapped PROVE OrderInv'
  BY <1>1 DEF OrderInv
<1>5. Ascending(b) /\ Below(b, queue) /\ Ascending(queue)
      /\ \A g \in Flushers \ {f} : b = <<>> \/ flusher[g].batch = <<>>
  BY DEF OrderInv
<1> HIDE DEF b, k
<1>6. /\ p \in Seq(Nat) /\ Ascending(p) /\ Elements(b) = Elements(p) \cup Elements(q)
  BY <1>2, <1>4, <1>5, CutElements
<1> HIDE DEF p, q
<1>7. Below(p, queue)
  BY <1>5, <1>6 DEF Below
<1>8. Ascending(queue') /\ Elements(queue') = Elements(p) \cup Elements(queue)
  BY <1>1, <1>3, <1>5, <1>6, <1>7, ConcatElements
<1>9. flusher'[f].batch = <<>> /\ \A g \in Flushers \ {f} : flusher'[g] = flusher[g]
  BY <1>1, <1>2
<1>10. ASSUME NEW g \in Flushers
       PROVE  Ascending(flusher'[g].batch) /\ Below(flusher'[g].batch, queue')
  <2>1. CASE flusher'[g].batch = <<>>
    BY <2>1, ElementsEmpty DEF Below
  <2>2. CASE flusher'[g].batch # <<>>
    <3>1. g # f /\ flusher'[g] = flusher[g] /\ b = <<>>
      BY <1>5, <1>9, <2>2
    <3>2. Elements(queue') = Elements(queue)
      BY <1>6, <1>8, <3>1, ElementsEmpty
    <3> QED BY <3>1, <3>2 DEF OrderInv, Below
  <2> QED BY <2>1, <2>2
<1>11. \A g, h \in Flushers : g # h => flusher'[g].batch = <<>> \/ flusher'[h].batch = <<>>
  BY <1>9 DEF OrderInv
<1> QED BY <1>8, <1>10, <1>11 DEF OrderInv

LEMMA OrderNext == SinkInv /\ OrderInv /\ [Next]_vars => OrderInv'
<1> SUFFICES ASSUME SinkInv, OrderInv, [Next]_vars PROVE OrderInv'
  OBVIOUS
<1>1. ASSUME NEW s \in Submitters, Submit(s) \/ SpinEnds(s) PROVE OrderInv'
  BY <1>1, SubmitOrder
<1>2. ASSUME NEW f \in Flushers, Loop(f) \/ GiveUp(f) PROVE OrderInv'
  BY <1>2, LoopOrder, GiveUpOrder
<1>3. ASSUME NEW f \in Flushers, Flush(f) \/ Shutdown(f) \/ StartAttempt(f) \/ AttemptFails(f)
                                 \/ Delivered(f)
      PROVE  OrderInv'
  <2>1. UNCHANGED <<queue, overlapped>>
    BY <1>3 DEF Flush, Shutdown, StartAttempt, AttemptFails, Delivered, store, history
  <2>2. \/ flusher' = [flusher EXCEPT ![f].pc = "loop"]
        \/ flusher' = [flusher EXCEPT ![f].pc = "sending", ![f].signed = Signatures(f)]
        \/ flusher' = [flusher EXCEPT ![f].pc = "retry", ![f].attempt = @ + 1]
        \/ flusher' = [flusher EXCEPT ![f] = [Idle EXCEPT !.pc = "loop"]]
    BY <1>3 DEF Flush, Shutdown, StartAttempt, AttemptFails, Delivered
  <2>3. flusher \in [Flushers -> Flushings] /\ [Idle EXCEPT !.pc = "loop"].batch = <<>>
    BY FlusherFacts DEF Idle
  <2>4. \A g \in Flushers : flusher'[g].batch \in {flusher[g].batch, <<>>}
    <3>1. CASE flusher' = [flusher EXCEPT ![f] = [Idle EXCEPT !.pc = "loop"]]
      BY <2>3, <3>1
    <3>2. CASE flusher' = [flusher EXCEPT ![f].pc = "loop"]
      BY <2>3, <3>2 DEF Flushings
    <3>3. CASE flusher' = [flusher EXCEPT ![f].pc = "sending", ![f].signed = Signatures(f)]
      BY <2>3, <3>3 DEF Flushings
    <3>4. CASE flusher' = [flusher EXCEPT ![f].pc = "retry", ![f].attempt = @ + 1]
      BY <2>3, <3>4 DEF Flushings
    <3> QED BY <2>2, <3>1, <3>2, <3>3, <3>4
  <2> QED BY <2>1, <2>4, StayOrder
<1>4. ASSUME \/ \E c \in Creds : RotateAuth(c) \/ SetAuth(c)
             \/ WindowElapses \/ AuthSnapshot \/ UNCHANGED vars
      PROVE  OrderInv'
  <2>1. UNCHANGED <<queue, overlapped, flusher>>
    BY <1>4 DEF RotateAuth, SetAuth, WindowElapses, AuthSnapshot, store, history, vars
  <2> QED BY <2>1, StayOrder
<1> QED BY <1>1, <1>2, <1>3, <1>4 DEF Next, FlushStep

\* As long as no two flushes had batches out at once, a batch that comes back
\* and the queue behind it are in the order of acceptance.
THEOREM OrderCorrect == Spec => []OrderKept
<1>1. SinkInv /\ OrderInv => OrderKept
  <2> SUFFICES ASSUME SinkInv, OrderInv, ~overlapped, NEW f \in Flushers
               PROVE  Ascending(flusher[f].batch \o queue)
    BY DEF OrderKept, Ascending
  <2>1. flusher[f].batch \in Seq(Nat) /\ queue \in Seq(Nat)
    BY FlusherFacts DEF SinkInv, SinkTypes
  <2> QED BY <2>1, ConcatElements DEF OrderInv
<1> QED BY SinkCorrect, OrderInit, OrderNext, <1>1, PTL DEF Spec

-----------------------------------------------------------------------------
(* Credentials.  What set_auth replaced is neither current nor previous      *)
(* until it is installed again.                                              *)

AuthInv == revoked \cap {current, previous, None} = {}

LEMMA AuthInvInit == Init => AuthInv
BY DEF Init, AuthInv

LEMMA AuthInvNext == SinkInv /\ AuthInv /\ [Next]_vars => AuthInv'
<1> SUFFICES ASSUME SinkInv, AuthInv, [Next]_vars PROVE AuthInv'
  OBVIOUS
<1>1. ASSUME NEW c \in Creds, RotateAuth(c) PROVE AuthInv'
  BY <1>1, CredsAssumption DEF RotateAuth, AuthInv
<1>2. ASSUME NEW c \in Creds, SetAuth(c) PROVE AuthInv'
  BY <1>2 DEF SetAuth, AuthInv
<1>3. CASE WindowElapses \/ AuthSnapshot
  BY <1>3 DEF WindowElapses, AuthSnapshot, AuthInv
<1>4. CASE \/ \E s \in Submitters : Submit(s) \/ SpinEnds(s)
           \/ \E f \in Flushers : Flush(f) \/ Shutdown(f) \/ FlushStep(f)
           \/ UNCHANGED vars
  <2>1. UNCHANGED auth
    BY <1>4 DEF Submit, SpinEnds, Flush, Shutdown, FlushStep, Loop, StartAttempt, Delivered,
                AttemptFails, GiveUp, vars
  <2> QED BY <2>1 DEF auth, AuthInv
<1> QED BY <1>1, <1>2, <1>3, <1>4 DEF Next

\* send_batch signs anew for every attempt, so no attempt after set_auth carries
\* the credential that was replaced, whatever flush was under way.
THEOREM RevocationCorrect == Spec => RevokedUnused
<1>1. SinkInv /\ AuthInv =>
        [\A f \in Flushers : StartAttempt(f) => flusher'[f].signed \cap revoked = {}]_vars
  <2> SUFFICES ASSUME SinkInv, AuthInv, NEW f \in Flushers, StartAttempt(f)
               PROVE  flusher'[f].signed \cap revoked = {}
    OBVIOUS
  <2>1. flusher' = [flusher EXCEPT ![f].pc = "sending", ![f].signed = Signatures(f)]
    BY DEF StartAttempt
  <2>2. flusher \in [Flushers -> Flushings]
    BY FlusherFacts
  <2>3. flusher'[f].signed = Signatures(f)
    BY <2>1, <2>2 DEF Flushings
  <2> QED BY <2>3 DEF Signatures, AuthInv
<1> QED BY SinkCorrect, AuthInvInit, AuthInvNext, <1>1, PTL DEF Spec, RevokedUnused

-----------------------------------------------------------------------------
(* The journal.  JournalKept speaks of the file; that a rewrite may replace  *)
(* the file by the buffer rests on memory: while the store is open, an       *)
(* accepted event that is on a line is buffered, with the consumer or        *)
(* settled.  And a line that is torn is of an event that was not accepted.   *)

Lined(s) ==
    \A i, j \in DOMAIN s : i < j /\ Garbage \notin {s[i], s[j]} => s[i] < s[j]

JournalTypes ==
    /\ phase \in {"open", "down", "refused"} /\ torn \in BOOLEAN
    /\ journal \in Seq(Nat) /\ buffer \in Seq(Nat) /\ batch \in Seq(Nat)
    /\ writes \in Nat
    /\ Len(buffer) <= JournalCapacity
    /\ phase # "open" => buffer = <<>> /\ batch = <<>>

Covers ==
    phase = "open" =>
        kept \cap Elements(journal) \subseteq Elements(buffer) \cup Elements(batch) \cup settled

Accepted ==
    /\ \A e \in kept : e \in Nat /\ e # Garbage /\ e <= writes
    /\ torn => journal # <<>> /\ journal[Len(journal)] \notin kept

Ordered ==
    /\ Ascending(batch) /\ Ascending(buffer) /\ Below(batch, buffer) /\ Lined(journal)
    /\ \A e \in Elements(journal) \cup Elements(buffer) \cup Elements(batch) : e <= writes

\* What one step does to the lines of the file.
LineKept ==
    /\ kept \cap Elements(journal) \subseteq Elements(journal') \cup settled \cup Elements(batch)
    /\ \A e \in kept' \ kept : torn \/ e \in Elements(journal')

JournalInv == JournalTypes /\ Covers /\ Accepted /\ Ordered

LEMMA ItemsAreElements == \A s : Items(s) = Elements(s)
BY DEF Items, Elements

LEMMA LinedAppend ==
    ASSUME NEW s \in Seq(Nat), Lined(s), NEW x \in Nat,
           x = Garbage \/ \A y \in Elements(s) : y < x
    PROVE  Lined(Append(s, x))
<1> DEFINE d == Append(s, x)
           l == Len(s)
<1>1. /\ l \in Nat /\ d[l + 1] = x /\ DOMAIN d = 1 .. l + 1 /\ DOMAIN s = 1 .. l
      /\ \A i \in 1 .. l : d[i] = s[i]
  OBVIOUS
<1>2. \A i \in 1 .. l : s[i] \in Elements(s)
  BY <1>1 DEF Elements
<1> HIDE DEF d, l
<1> SUFFICES ASSUME NEW i \in 1 .. l + 1, NEW j \in 1 .. l + 1, i < j,
                    Garbage \notin {d[i], d[j]}
             PROVE  d[i] < d[j]
  BY <1>1 DEF Lined, d
<1>3. i \in 1 .. l
  BY <1>1
<1>4. CASE j \in 1 .. l
  BY <1>1, <1>3, <1>4 DEF Lined
<1>5. CASE j = l + 1
  BY <1>1, <1>2, <1>3, <1>5
<1> QED BY <1>1, <1>4, <1>5

LEMMA LinedAscending ==
    ASSUME NEW s \in Seq(Nat)
    PROVE  /\ Ascending(s) => Lined(s)
           /\ Lined(s) /\ Garbage \notin Elements(s) => Ascending(s)
<1>1. Ascending(s) => Lined(s)
  BY DEF Ascending, Lined
<1>2. \A i \in DOMAIN s : s[i] \in Elements(s)
  BY DEF Elements
<1>3. Lined(s) /\ Garbage \notin Elements(s) => Ascending(s)
  BY <1>2 DEF Ascending, Lined
<1> QED BY <1>1, <1>3

LEMMA JournalInit == DInit => JournalInv
<1> SUFFICES ASSUME DInit PROVE JournalInv
  OBVIOUS
<1>1. JournalTypes
  <2>1. torn \in BOOLEAN
    BY DEF DInit
  <2>2. Len(buffer) <= JournalCapacity /\ buffer \in Seq(Nat) /\ batch \in Seq(Nat)
        /\ journal \in Seq(Nat) /\ writes \in Nat
    BY StoreAssumption DEF DInit
  <2> QED BY <2>1, <2>2 DEF DInit, JournalTypes
<1>2. Covers /\ Accepted /\ Ordered
  BY ElementsEmpty DEF DInit, Covers, Accepted, Ordered, Below, Lined
<1> QED BY <1>1, <1>2 DEF JournalInv

\* append_line takes no line of an accepted event away, and what it adds is newer
\* than every line.
LEMMA GluedFacts ==
    ASSUME JournalInv, torn
    PROVE  LET g == [journal EXCEPT ![Len(journal)] = Garbage]
           IN  /\ g \in Seq(Nat) /\ Lined(g) /\ g # <<>> /\ g[Len(g)] = Garbage
               /\ Elements(g) \subseteq Elements(journal) \cup {Garbage}
               /\ kept \cap Elements(journal) \subseteq Elements(g)
<1> DEFINE l == Len(journal)
           g == [journal EXCEPT ![l] = Garbage]
<1>1. /\ journal \in Seq(Nat) /\ Lined(journal) /\ journal # <<>> /\ journal[l] \notin kept
      /\ Garbage \in Nat
  BY DEF JournalInv, JournalTypes, Ordered, Accepted, Garbage
<1>2. /\ l \in Nat /\ l >= 1 /\ l \in 1 .. l /\ DOMAIN journal = 1 .. l
      /\ \A i \in 1 .. l : journal[i] \in Nat
  BY <1>1
<1>3. g \in Seq(Nat) /\ Len(g) = l /\ DOMAIN g = 1 .. l
  BY <1>1, <1>2
<1>4. g[l] = Garbage /\ \A i \in 1 .. l : i # l => g[i] = journal[i]
  BY <1>1, <1>2
<1> HIDE DEF g, l
<1>5. g # <<>>
  BY <1>2, <1>3
<1>6. Lined(g)
  <2> SUFFICES ASSUME NEW i \in 1 .. l, NEW j \in 1 .. l, i < j,
                      Garbage \notin {g[i], g[j]}
               PROVE  g[i] < g[j]
    BY <1>3 DEF Lined
  <2>1. i # l /\ j # l
    BY <1>4
  <2> QED BY <1>1, <1>2, <1>4, <2>1 DEF Lined
<1>7. Elements(g) \subseteq Elements(journal) \cup {Garbage}
  BY <1>2, <1>3, <1>4 DEF Elements
<1>8. kept \cap Elements(journal) \subseteq Elements(g)
  <2> SUFFICES ASSUME NEW i \in 1 .. l, journal[i] \in kept
               PROVE  journal[i] \in Elements(g)
    BY <1>2 DEF Elements
  <2>1. i # l
    BY <1>1
  <2> QED BY <1>3, <1>4, <2>1 DEF Elements
<1> QED BY <1>3, <1>4, <1>5, <1>6, <1>7, <1>8 DEF g, l

LEMMA WrittenFacts ==
    ASSUME JournalInv, NEW e \in Nat, e = Garbage \/ e = writes + 1
    PROVE  /\ Written(e) \in Seq(Nat) /\ Lined(Written(e))
           /\ kept \cap Elements(journal) \subseteq Elements(Written(e))
           /\ Elements(Written(e)) \subseteq Elements(journal) \cup {e, Garbage}
           /\ ~torn => e \in Elements(Written(e))
           /\ \A x \in Elements(Written(e)) : x <= writes + 1
           /\ Written(e) # <<>> /\ Written(e)[Len(Written(e))] \notin kept
<1>1. journal \in Seq(Nat) /\ writes \in Nat /\ Lined(journal) /\ torn \in BOOLEAN
      /\ \A x \in Elements(journal) : x <= writes /\ x \in Nat
  BY ElementsNat DEF JournalInv, JournalTypes, Ordered
<1>2. /\ e <= writes + 1 /\ Garbage <= writes + 1
      /\ \A x \in Elements(journal) : x <= writes + 1
  BY <1>1 DEF Garbage
<1>n. e \notin kept /\ Garbage \notin kept
  BY <1>1 DEF JournalInv, Accepted
<1>3. CASE torn
  BY <1>1, <1>2, <1>3, <1>n, GluedFacts DEF Written
<1>4. CASE ~torn
  <2>1. Written(e) = Append(journal, e)
    BY <1>4 DEF Written
  <2>2. Append(journal, e) \in Seq(Nat) /\ Elements(Append(journal, e)) = Elements(journal) \cup {e}
    BY <1>1, AppendElements
  <2>3. e = Garbage \/ \A x \in Elements(journal) : x < e
    BY <1>1
  <2>4. Lined(Append(journal, e))
    BY <1>1, <2>3, LinedAppend
  <2>5. Append(journal, e) # <<>> /\ Append(journal, e)[Len(Append(journal, e))] = e
    BY <1>1
  <2> QED BY <1>2, <1>n, <2>1, <2>2, <2>4, <2>5
<1> QED BY <1>1, <1>3, <1>4

LEMMA SubmitJournal ==
    ASSUME JournalInv, SubmitEvent \/ SubmitFails \/ CrashInSubmit
    PROVE  JournalInv' /\ LineKept
<1> DEFINE e == writes + 1
<1>0. /\ writes \in Nat /\ e \in Nat /\ Garbage \in Nat /\ JournalCapacity \in Nat
      /\ journal \in Seq(Nat) /\ buffer \in Seq(Nat) /\ batch \in Seq(Nat)
      /\ Len(buffer) \in Nat /\ phase = "open" /\ Len(buffer) < JournalCapacity
      /\ torn \in BOOLEAN
  BY StoreAssumption DEF JournalInv, JournalTypes, Garbage, SubmitEvent, SubmitFails, CrashInSubmit
<1>w. kept \cap Elements(journal) \subseteq Elements(buffer) \cup Elements(batch) \cup settled
  BY <1>0 DEF JournalInv, Covers
<1>a. \A x \in kept : x \in Nat /\ x # Garbage /\ x <= writes /\ x <= e /\ x # e
  BY <1>0 DEF JournalInv, Accepted
<1>o. /\ Ascending(batch) /\ Ascending(buffer) /\ Below(batch, buffer) /\ Lined(journal)
      /\ \A x \in Elements(journal) \cup Elements(buffer) \cup Elements(batch) :
            x \in Nat /\ x <= writes /\ x < e /\ x <= e
  <2>1. \A x \in Elements(journal) \cup Elements(buffer) \cup Elements(batch) :
            x \in Nat /\ x <= writes
    BY <1>0, ElementsNat DEF JournalInv, Ordered
  <2> QED BY <1>0, <2>1 DEF JournalInv, Ordered
<1>1. CASE SubmitEvent
  <2>1. /\ writes' = e /\ kept' = kept \cup {e} /\ journal' = Written(e)
        /\ buffer' = Append(buffer, e) /\ torn' = FALSE
        /\ UNCHANGED <<phase, batch, settled>>
    BY <1>1 DEF SubmitEvent
  <2>2. /\ journal' \in Seq(Nat) /\ Lined(journal')
        /\ kept \cap Elements(journal) \subseteq Elements(journal')
        /\ Elements(journal') \subseteq Elements(journal) \cup {e, Garbage}
        /\ ~torn => e \in Elements(journal')
        /\ \A x \in Elements(journal') : x <= e
    BY <1>0, <2>1, WrittenFacts
  <2>3. /\ buffer' \in Seq(Nat) /\ Len(buffer') = Len(buffer) + 1
        /\ Elements(buffer') = Elements(buffer) \cup {e} /\ Ascending(buffer')
    BY <1>0, <1>o, <2>1, AppendElements
  <2>4. JournalTypes'
    <3>1. torn' \in BOOLEAN /\ writes' \in Nat /\ phase' = "open" /\ batch' \in Seq(Nat)
      BY <1>0, <2>1
    <3>2. Len(buffer') <= JournalCapacity
      BY <1>0, <2>3
    <3> QED BY <2>2, <2>3, <3>1, <3>2 DEF JournalTypes
  <2>5. Covers'
    BY <1>0, <1>w, <1>a, <2>1, <2>2, <2>3 DEF Covers
  <2>6. Ordered'
    <3>1. Below(batch, buffer')
      BY <1>o, <2>3 DEF Below
    <3>2. e <= e
      BY <1>0
    <3> QED BY <1>o, <2>1, <2>2, <2>3, <3>1, <3>2 DEF Ordered
  <2>7. Accepted'
    <3>1. e <= e /\ e # Garbage
      BY <1>0 DEF Garbage
    <3> QED BY <1>0, <1>a, <2>1, <3>1 DEF Accepted
  <2>8. LineKept
    BY <2>1, <2>2 DEF LineKept
  <2> QED BY <2>4, <2>5, <2>6, <2>7, <2>8 DEF JournalInv
<1>2. ASSUME writes' = e, UNCHANGED <<kept, settled>>, AppendCutShort(e),
             \/ UNCHANGED <<phase, buffer, batch>>
             \/ phase' = "down" /\ buffer' = <<>> /\ batch' = <<>>
      PROVE  JournalInv' /\ LineKept
  <2>1. /\ journal' \in Seq(Nat) /\ Lined(journal') /\ torn' \in BOOLEAN
        /\ kept \cap Elements(journal) \subseteq Elements(journal')
        /\ Elements(journal') \subseteq Elements(journal) \cup {e, Garbage}
        /\ \A x \in Elements(journal') : x <= e
        /\ torn' => journal' # <<>> /\ journal'[Len(journal')] \notin kept
    <3>1. CASE UNCHANGED <<journal, torn>>
      BY <1>0, <1>o, <3>1 DEF JournalInv, Accepted
    <3>2. CASE \E text \in {e, Garbage} : journal' = Written(text) /\ torn' = TRUE
      BY <1>0, <3>2, WrittenFacts
    <3>3. CASE journal' = Written(e) /\ torn' = FALSE
      BY <1>0, <3>3, WrittenFacts
    <3> QED BY <1>2, <3>1, <3>2, <3>3 DEF AppendCutShort
  <2>a. Accepted' /\ LineKept
    BY <1>a, <1>2, <2>1 DEF Accepted, LineKept
  <2>2. CASE UNCHANGED <<phase, buffer, batch>>
    <3>1. JournalTypes'
      BY <1>0, <1>2, <2>1, <2>2 DEF JournalTypes
    <3>2. Covers' /\ Ordered'
      BY <1>w, <1>a, <1>o, <1>2, <2>1, <2>2 DEF Covers, Ordered
    <3> QED BY <2>a, <3>1, <3>2 DEF JournalInv
  <2>3. CASE phase' = "down" /\ buffer' = <<>> /\ batch' = <<>>
    <3>1. JournalTypes'
      BY <1>0, <1>2, <2>1, <2>3 DEF JournalTypes
    <3>2. Covers' /\ Ordered'
      BY <1>o, <1>2, <2>1, <2>3, ElementsEmpty DEF Covers, Ordered, Below
    <3> QED BY <2>a, <3>1, <3>2 DEF JournalInv
  <2> QED BY <1>2, <2>2, <2>3
<1>3. CASE SubmitFails
  <2>1. /\ writes' = e /\ UNCHANGED <<phase, buffer, batch, kept, settled>>
        /\ AppendCutShort(e)
    BY <1>3 DEF SubmitFails
  <2> QED BY <1>2, <2>1
<1>4. CASE CrashInSubmit
  <2>1. /\ writes' = e /\ UNCHANGED <<kept, settled>> /\ AppendCutShort(e)
        /\ phase' = "down" /\ buffer' = <<>> /\ batch' = <<>>
    BY <1>4 DEF CrashInSubmit
  <2> QED BY <1>2, <2>1
<1> QED BY <1>1, <1>3, <1>4

\* drain_batch, the delivery and requeue_front move events between the buffer,
\* the consumer and the account of dropped events.
LEMMA BatchJournal ==
    ASSUME JournalInv, DrainBatch \/ Deliver \/ RequeueFront
    PROVE  JournalInv' /\ LineKept
<1>0. /\ buffer \in Seq(Nat) /\ batch \in Seq(Nat) /\ Len(buffer) \in Nat /\ Len(batch) \in Nat
      /\ JournalCapacity \in Nat /\ DrainMax \in Nat /\ phase = "open"
      /\ Len(buffer) <= JournalCapacity
  <2>1. phase = "open"
    BY DEF DrainBatch, Deliver, RequeueFront
  <2>2. buffer \in Seq(Nat) /\ batch \in Seq(Nat) /\ Len(buffer) <= JournalCapacity
    BY DEF JournalInv, JournalTypes
  <2> QED BY <2>1, <2>2, StoreAssumption
<1>u. UNCHANGED <<phase, journal, torn, writes, kept>>
  BY DEF DrainBatch, Deliver, RequeueFront
<1>w. kept \cap Elements(journal) \subseteq Elements(buffer) \cup Elements(batch) \cup settled
  BY <1>0 DEF JournalInv, Covers
<1>l. LineKept
  BY <1>u DEF LineKept
<1>o. /\ Ascending(batch) /\ Ascending(buffer) /\ Below(batch, buffer) /\ Lined(journal)
      /\ \A x \in Elements(journal) \cup Elements(buffer) \cup Elements(batch) : x <= writes
  BY DEF JournalInv, Ordered
<1>k. ASSUME buffer' \in Seq(Nat), batch' \in Seq(Nat), Len(buffer') <= JournalCapacity,
             Elements(buffer') \cup Elements(batch') \subseteq Elements(buffer) \cup Elements(batch),
             settled \subseteq settled',
             Elements(buffer) \cup Elements(batch) \subseteq
               Elements(buffer') \cup Elements(batch') \cup settled',
             Ascending(buffer'), Ascending(batch'), Below(batch', buffer')
      PROVE  JournalInv' /\ LineKept
  <2>1. JournalTypes'
    BY <1>0, <1>u, <1>k DEF JournalInv, JournalTypes
  <2>2. Covers'
    BY <1>u, <1>w, <1>k DEF Covers
  <2>3. Ordered'
    BY <1>u, <1>o, <1>k DEF Ordered
  <2>4. Accepted'
    BY <1>u DEF JournalInv, Accepted
  <2> QED BY <1>l, <2>1, <2>2, <2>3, <2>4 DEF JournalInv
<1>1. CASE DrainBatch
  <2> DEFINE n == IF Len(buffer) < DrainMax THEN Len(buffer) ELSE DrainMax
  <2>1. /\ batch' = SubSeq(buffer, 1, n) /\ buffer' = SubSeq(buffer, n + 1, Len(buffer))
        /\ batch = <<>> /\ UNCHANGED settled
    BY <1>1 DEF DrainBatch
  <2>2. n \in 0 .. Len(buffer)
    BY <1>0
  <2> HIDE DEF n
  <2>3. /\ batch' \in Seq(Nat) /\ buffer' \in Seq(Nat) /\ Len(buffer') = Len(buffer) - n
        /\ Elements(buffer) = Elements(batch') \cup Elements(buffer')
        /\ Ascending(batch') /\ Ascending(buffer') /\ Below(batch', buffer')
    BY <1>0, <1>o, <2>1, <2>2, CutElements
  <2>4. Len(buffer') <= JournalCapacity
    BY <1>0, <2>2, <2>3
  <2>5. Elements(batch) = {}
    BY <2>1, ElementsEmpty
  <2> QED BY <1>k, <2>1, <2>3, <2>4, <2>5
<1>2. CASE Deliver
  <2>1. settled' = settled \cup Elements(batch) /\ batch' = <<>> /\ UNCHANGED buffer
    BY <1>2, ItemsAreElements DEF Deliver
  <2>2. batch' \in Seq(Nat) /\ Elements(batch') = {} /\ Ascending(batch')
        /\ Below(batch', buffer')
    BY <2>1, ElementsEmpty DEF Below
  <2> QED BY <1>0, <1>o, <1>k, <2>1, <2>2
<1>3. CASE RequeueFront
  <2> DEFINE n == IF Len(batch) <= Room THEN Len(batch) ELSE Room
             p == SubSeq(batch, 1, n)
             q == SubSeq(batch, n + 1, Len(batch))
  <2>1. /\ buffer' = p \o buffer /\ batch' = <<>>
        /\ settled' = settled \cup {batch[i] : i \in n + 1 .. Len(batch)}
    BY <1>3 DEF RequeueFront, Front, Overflow
  <2>2. n \in 0 .. Len(batch) /\ n + Len(buffer) <= JournalCapacity
    BY <1>0 DEF Room
  <2> HIDE DEF n
  <2>3. /\ p \in Seq(Nat) /\ Len(p) = n /\ Ascending(p)
        /\ Elements(q) = {batch[i] : i \in n + 1 .. Len(batch)}
        /\ Elements(batch) = Elements(p) \cup Elements(q)
    BY <1>0, <1>o, <2>2, CutElements
  <2> HIDE DEF p, q
  <2>4. Below(p, buffer)
    BY <1>o, <2>3 DEF Below
  <2>5. /\ buffer' \in Seq(Nat) /\ Len(buffer') = n + Len(buffer) /\ Ascending(buffer')
        /\ Elements(buffer') = Elements(p) \cup Elements(buffer)
    BY <1>0, <1>o, <2>1, <2>3, <2>4, ConcatElements
  <2>6. batch' \in Seq(Nat) /\ Elements(batch') = {} /\ Ascending(batch')
        /\ Below(batch', buffer')
    BY <2>1, ElementsEmpty DEF Below
  <2>7. Len(buffer') <= JournalCapacity /\ settled' = settled \cup Elements(q)
    BY <2>1, <2>2, <2>3, <2>5
  <2> QED BY <1>k, <2>3, <2>5, <2>6, <2>7
<1> QED BY <1>1, <1>2, <1>3

\* A rewrite puts the buffer in place of the lines; a crash only loses memory.
LEMMA RewriteJournal ==
    ASSUME JournalInv, Compact \/ Close \/ CrashStore
    PROVE  JournalInv' /\ LineKept
<1>0. /\ buffer \in Seq(Nat) /\ batch \in Seq(Nat) /\ journal \in Seq(Nat) /\ writes \in Nat
      /\ torn \in BOOLEAN /\ JournalCapacity \in Nat /\ phase = "open"
      /\ Len(buffer) <= JournalCapacity
  BY StoreAssumption DEF JournalInv, JournalTypes, Compact, Close, CrashStore
<1>u. UNCHANGED <<writes, kept, settled>>
  BY DEF Compact, Close, CrashStore
<1>w. kept \cap Elements(journal) \subseteq Elements(buffer) \cup Elements(batch) \cup settled
  BY <1>0 DEF JournalInv, Covers
<1>o. /\ Ascending(batch) /\ Ascending(buffer) /\ Below(batch, buffer) /\ Lined(journal)
      /\ \A x \in Elements(journal) \cup Elements(buffer) \cup Elements(batch) : x <= writes
  BY DEF JournalInv, Ordered
<1>1. /\ journal' \in Seq(Nat) /\ torn' \in BOOLEAN /\ Lined(journal')
      /\ Elements(journal') \subseteq Elements(journal) \cup Elements(buffer)
      /\ kept \cap Elements(journal') \subseteq Elements(buffer) \cup Elements(batch) \cup settled
      /\ kept \cap Elements(journal) \subseteq Elements(journal') \cup settled \cup Elements(batch)
      /\ torn' => journal' # <<>> /\ journal'[Len(journal')] \notin kept
  <2>1. CASE Rewritten
    <3>1. journal' = buffer /\ torn' = FALSE
      BY <2>1 DEF Rewritten
    <3>2. Lined(buffer)
      BY <1>0, <1>o, LinedAscending
    <3>3. torn' \in BOOLEAN
      BY <3>1
    <3> QED BY <1>0, <1>w, <3>1, <3>2, <3>3
  <2>2. CASE UNCHANGED <<journal, torn>>
    BY <1>0, <1>w, <1>o, <2>2 DEF JournalInv, Accepted
  <2> QED BY <2>1, <2>2 DEF Compact, Close, CrashStore
<1>a. Accepted' /\ LineKept
  BY <1>u, <1>1 DEF JournalInv, Accepted, LineKept
<1>2. CASE UNCHANGED <<phase, buffer, batch>>
  <2>1. JournalTypes'
    BY <1>0, <1>u, <1>1, <1>2 DEF JournalTypes
  <2>2. Covers'
    BY <1>u, <1>1, <1>2 DEF Covers
  <2>3. Ordered'
    BY <1>u, <1>o, <1>1, <1>2 DEF Ordered
  <2> QED BY <1>a, <2>1, <2>2, <2>3 DEF JournalInv
<1>3. CASE phase' = "down" /\ buffer' = <<>> /\ batch' = <<>>
  <2>1. JournalTypes'
    BY <1>0, <1>u, <1>1, <1>3 DEF JournalTypes
  <2>2. Covers'
    BY <1>u, <1>1, <1>3 DEF Covers
  <2>3. Ordered'
    BY <1>u, <1>o, <1>1, <1>3, ElementsEmpty DEF Ordered, Below
  <2> QED BY <1>a, <2>1, <2>2, <2>3 DEF JournalInv
<1> QED BY <1>2, <1>3 DEF Compact, Close, CrashStore

\* Replay: what the buffer has no room for is counted as dropped.
LEMMA OpenJournal ==
    ASSUME JournalInv, Open
    PROVE  JournalInv' /\ LineKept
<1>0. /\ journal \in Seq(Nat) /\ Len(journal) \in Nat /\ writes \in Nat /\ torn \in BOOLEAN
      /\ JournalCapacity \in Nat /\ phase = "down" /\ buffer = <<>> /\ batch = <<>>
      /\ UNCHANGED <<journal, torn, batch, writes, kept>>
  BY StoreAssumption DEF JournalInv, JournalTypes, Open
<1>a. Accepted' /\ LineKept
  BY <1>0 DEF JournalInv, Accepted, LineKept
<1>o. Lined(journal) /\ \A x \in Elements(journal) : x <= writes
  BY DEF JournalInv, Ordered
<1>e. /\ batch' = <<>> /\ batch' \in Seq(Nat) /\ Elements(batch') = {} /\ Ascending(batch')
      /\ Below(batch', buffer')
  BY <1>0, ElementsEmpty DEF Below
<1>1. CASE Garbage \in Items(journal)
  <2>1. phase' = "refused" /\ UNCHANGED <<buffer, settled>>
    BY <1>1 DEF Open
  <2>2. buffer' = <<>> /\ Elements(buffer') = {} /\ Ascending(buffer')
    BY <1>0, <2>1, ElementsEmpty
  <2>3. JournalTypes'
    BY <1>0, <1>e, <2>1, <2>2 DEF JournalTypes
  <2>4. Covers' /\ Ordered'
    BY <1>0, <1>o, <1>e, <2>1, <2>2 DEF Covers, Ordered
  <2> QED BY <1>a, <2>3, <2>4 DEF JournalInv
<1>2. CASE Garbage \notin Items(journal)
  <2> DEFINE n == IF Len(journal) < JournalCapacity THEN Len(journal) ELSE JournalCapacity
             q == SubSeq(journal, n + 1, Len(journal))
  <2>1. /\ phase' = "open" /\ buffer' = SubSeq(journal, 1, n)
        /\ settled' = settled \cup {journal[i] : i \in n + 1 .. Len(journal)}
    BY <1>2 DEF Open
  <2>2. n \in 0 .. Len(journal) /\ n <= JournalCapacity
    BY <1>0
  <2> HIDE DEF n
  <2>3. Ascending(journal)
    BY <1>0, <1>o, <1>2, ItemsAreElements, LinedAscending
  <2>4. /\ buffer' \in Seq(Nat) /\ Len(buffer') = n /\ Ascending(buffer')
        /\ Elements(q) = {journal[i] : i \in n + 1 .. Len(journal)}
        /\ Elements(journal) = Elements(buffer') \cup Elements(q)
    BY <1>0, <2>1, <2>2, <2>3, CutElements
  <2> HIDE DEF q
  <2>5. settled' = settled \cup Elements(q)
    BY <2>1, <2>4
  <2>6. JournalTypes'
    BY <1>0, <1>e, <2>1, <2>2, <2>4 DEF JournalTypes
  <2>7. Covers'
    BY <1>0, <2>1, <2>4, <2>5 DEF Covers
  <2>8. Ordered'
    BY <1>0, <1>o, <1>e, <2>4 DEF Ordered
  <2> QED BY <1>a, <2>6, <2>7, <2>8 DEF JournalInv
<1> QED BY <1>1, <1>2

LEMMA JournalStep == JournalInv /\ [DNext]_dvars => JournalInv'
<1> SUFFICES ASSUME JournalInv, [DNext]_dvars PROVE JournalInv'
  OBVIOUS
<1>1. CASE UNCHANGED dvars
  BY <1>1 DEF dvars, JournalInv, JournalTypes, Covers, Accepted, Ordered
<1> QED
  BY <1>1, SubmitJournal, BatchJournal, RewriteJournal, OpenJournal DEF DNext

\* The file keeps what it was given: whatever crashes, is torn, replayed or
\* rewritten, for any capacity, the line of an accepted event leaves the journal
\* only when the event is settled, or by a rewrite while the event is with the
\* consumer; and submit gives an event a line of its own unless the one before
\* it was left torn.  These two are exactly the ways AtLeastOnce is broken, next
\* to a line nobody accepted that makes every later open fail.
THEOREM JournalCorrect == DSpec => JournalKept
<1>1. JournalInv /\ [DNext]_dvars =>
        [/\ \A e \in kept \cap Items(journal) :
              e \in Items(journal') \cup settled \cup Items(batch)
         /\ \A e \in kept' \ kept : torn \/ e \in Items(journal')]_dvars
  <2> SUFFICES ASSUME JournalInv, DNext
               PROVE  /\ \A e \in kept \cap Items(journal) :
                            e \in Items(journal') \cup settled \cup Items(batch)
                      /\ \A e \in kept' \ kept : torn \/ e \in Items(journal')
    OBVIOUS
  <2>1. LineKept
    BY SubmitJournal, BatchJournal, RewriteJournal, OpenJournal DEF DNext
  <2> QED BY <2>1, ItemsAreElements DEF LineKept
<1> QED BY JournalInit, JournalStep, <1>1, PTL DEF DSpec, JournalKept

\* Neither replays nor requeues reorder the journaled events, and the buffer
\* never outgrows its capacity, for any capacity and batch size.
THEOREM ReplayCorrect == DSpec => []ReplayOrder
<1>1. JournalInv => ReplayOrder
  <2> SUFFICES ASSUME JournalInv PROVE ReplayOrder
    OBVIOUS
  <2>1. Ascending(batch \o buffer)
    BY ConcatElements DEF JournalInv, JournalTypes, Ordered
  <2>2. Lined(journal) /\ Len(buffer) <= JournalCapacity
    BY DEF JournalInv, Ordered, JournalTypes
  <2> QED BY <2>1, <2>2 DEF ReplayOrder, Ascending, Lined
<1> QED BY JournalInit, JournalStep, <1>1, PTL DEF DSpec
=============================================================================
