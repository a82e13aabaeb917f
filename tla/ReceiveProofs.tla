---------------------------- MODULE ReceiveProofs ----------------------------
(***************************************************************************)
(* What the RX thread leaves in a ring is what the application may hear,   *)
(* and what has come in time is not erased: for any flows and latencies,   *)
(* any length of the ring and of packets, any loss, delay and order of     *)
(* the packets, and any number of connections.                             *)
(***************************************************************************)
EXTENDS Receive, WellFoundedInduction, TLAPS

-----------------------------------------------------------------------------
(* Positions and slots *)

At(t) == t % Size

LEMMA SizeFacts == Size \in Int /\ Size > 0 /\ HoleFixWait \in Int /\ HoleFixWait >= 0
  BY RingAssumption

LEMMA Division ==
    ASSUME NEW t \in Int
    PROVE  /\ t \div Size \in Int /\ t = Size * (t \div Size) + (t % Size)
           /\ t % Size \in Slots
  BY SizeFacts DEF Slots

LEMMA AtSlot == ASSUME NEW t \in Int PROVE At(t) \in Slots
  BY Division DEF At

\* What two positions are apart that differ by whole rings.
LEMMA WholeRings ==
    ASSUME NEW n \in Int, NEW d \in Int, d = Size * n, d < Size, -d < Size
    PROVE  d = 0
<1>1. CASE n >= 1
  <2>1. Size * n >= Size
    BY <1>1, SizeFacts
  <2>2. QED
    BY <2>1, SizeFacts
<1>2. CASE n <= -1
  <2>1. Size * n <= -Size
    BY <1>2, SizeFacts
  <2>2. QED
    BY <2>1, SizeFacts
<1>3. CASE n = 0
  BY <1>3, SizeFacts
<1>4. QED
  BY <1>1, <1>2, <1>3

\* Positions that share a slot and are less than a ring apart are the same.
LEMMA AtNear ==
    ASSUME NEW s \in Int, NEW t \in Int, At(s) = At(t), s - t < Size, t - s < Size
    PROVE  s = t
<1> DEFINE p == s \div Size
           q == t \div Size
<1>1. p \in Int /\ q \in Int /\ s = Size * p + (s % Size) /\ t = Size * q + (t % Size)
      /\ s % Size \in Int
  BY Division, SizeFacts DEF Slots
<1>2. s % Size = t % Size
  BY DEF At
<1> HIDE DEF p, q
<1>3. s - t = Size * p - Size * q
  BY <1>1, <1>2, SizeFacts
<1>4. Size * p - Size * q = Size * (p - q)
  BY <1>1, SizeFacts
<1>5. s - t = 0
  BY <1>1, <1>3, <1>4, WholeRings
<1>6. QED
  BY <1>5

\* The place of an item in its packet, from its slot.
LEMMA PlaceOf ==
    ASSUME NEW from \in Int, NEW k \in 0 .. Size - 1
    PROVE  (At(from + k) - from) % Size = k
<1> DEFINE i == At(from + k)
           j == (i - from) % Size
           p == (from + k) \div Size
           q == (i - from) \div Size
<1>1. p \in Int /\ from + k = Size * p + i /\ i \in Int
  BY Division, SizeFacts DEF At, Slots
<1>2. q \in Int /\ i - from = Size * q + j /\ j \in 0 .. Size - 1
  BY <1>1, Division, SizeFacts DEF Slots
<1> HIDE DEF i, j, p, q
<1>3. k - j = Size * p + Size * q
  BY <1>1, <1>2, SizeFacts
<1>4. Size * p + Size * q = Size * (p + q)
  BY <1>1, <1>2, SizeFacts
<1>5. k - j = 0
  BY <1>1, <1>2, <1>3, <1>4, WholeRings, SizeFacts
<1>6. k = j
  BY <1>2, <1>5, SizeFacts
<1>7. QED
  BY <1>6 DEF j, i

\* ring_length of a range that fits into the ring.
LEMMA RingLengthBounds ==
    ASSUME NEW from \in Int, NEW to \in Int, from <= to, to - from <= Size
    PROVE  RingLength(from, to) = to - from
<1> DEFINE d == to - from
<1>1. d \in Int /\ d >= 0 /\ d <= Size
  OBVIOUS
<1>2. CASE d = 0
  BY <1>2 DEF RingLength
<1>3. CASE d > 0 /\ d < Size
  <2>1. d % Size = d
    BY <1>1, <1>3, SizeFacts
  <2>2. QED
    BY <1>1, <1>3, <2>1 DEF RingLength
<1>4. CASE d = Size /\ d > 0
  <2>1. Size % Size = 0
    BY SizeFacts
  <2> HIDE DEF d
  <2>2. d % Size = 0
    BY <1>4, <2>1, Zenon
  <2>3. (to - from) % Size = 0
    BY <2>2 DEF d
  <2>4. to - from = Size /\ from # to
    BY <1>4 DEF d
  <2>5. QED
    BY <2>3, <2>4 DEF RingLength
<1>5. QED
  BY <1>1, <1>2, <1>3, <1>4, SizeFacts

\* for_in_ring visits the slots of a range that fits into the ring.
LEMMA InRingIs ==
    ASSUME NEW from \in Int, NEW to \in Int, from <= to, to - from <= Size
    PROVE  InRing(from, to) = {At(t) : t \in from .. to - 1}
<1>1. RingLength(from, to) = to - from
  BY RingLengthBounds
<1>2. ASSUME NEW t \in from .. to - 1 PROVE At(t) \in InRing(from, to)
  <2>1. t - from \in 0 .. RingLength(from, to) - 1 /\ from + (t - from) = t
    BY <1>1
  <2>2. QED
    BY <2>1 DEF InRing, At
<1>3. ASSUME NEW k \in 0 .. RingLength(from, to) - 1
      PROVE  At(from + k) \in {At(t) : t \in from .. to - 1}
  BY <1>1
<1>4. QED
  BY <1>2, <1>3 DEF InRing, At

\* A set of natural numbers has a least one.
LEMMA Least ==
    ASSUME NEW S \in SUBSET Nat, S # {}
    PROVE  \E x \in S : \A y \in S : x <= y
<1> DEFINE R == OpToRel(<, Nat)
<1>1. IsWellFoundedOn(R, Nat)
  BY NatLessThanWellFounded
<1>2. \A x, y \in Nat : y < x => <<y, x>> \in R
  BY DEF OpToRel
<1> HIDE DEF R
<1>3. PICK x \in S : \A y \in S : <<y, x>> \notin R
  BY <1>1, WFMin
<1>4. ASSUME NEW y \in S PROVE x <= y
  <2>1. x \in Nat /\ y \in Nat /\ ~(y < x)
    BY <1>2, <1>3
  <2>2. QED
    BY <2>1
<1>5. QED
  BY <1>4

-----------------------------------------------------------------------------
(* The calls of the ring *)

IsRing(rg) ==
    /\ rg = [w |-> rg.w, r |-> rg.r, slots |-> rg.slots, ready |-> rg.ready]
    /\ rg.w \in Int /\ rg.r \in Int
    /\ rg.slots = [i \in Slots |-> rg.slots[i]]

\* What each call leaves of a ring, field by field.
LEMMA SilencedFacts ==
    ASSUME NEW rg, IsRing(rg), NEW gone
    PROVE  /\ IsRing(Silenced(rg, gone))
           /\ Silenced(rg, gone).w = rg.w /\ Silenced(rg, gone).r = rg.r
           /\ Silenced(rg, gone).ready = rg.ready
           /\ \A i \in Slots : Silenced(rg, gone).slots[i]
                                   = IF i \in gone THEN Silence ELSE rg.slots[i]
<1> DEFINE s == [i \in Slots |-> IF i \in gone THEN Silence ELSE rg.slots[i]]
<1>1. Silenced(rg, gone) = [rg EXCEPT !.slots = s]
  BY DEF Silenced
<1>2. s = [i \in Slots |-> s[i]] /\ \A i \in Slots : s[i] = IF i \in gone THEN Silence ELSE rg.slots[i]
  OBVIOUS
<1> HIDE DEF s
<1>3. Silenced(rg, gone) = [w |-> rg.w, r |-> rg.r, slots |-> s, ready |-> rg.ready]
  BY <1>1 DEF IsRing
<1>4. QED
  BY <1>2, <1>3 DEF IsRing

LEMMA MovedFacts ==
    ASSUME NEW rg, IsRing(rg), NEW r \in Int
    PROVE  /\ IsRing([rg EXCEPT !.r = r])
           /\ [rg EXCEPT !.r = r].w = rg.w /\ [rg EXCEPT !.r = r].r = r
           /\ [rg EXCEPT !.r = r].ready = rg.ready /\ [rg EXCEPT !.r = r].slots = rg.slots
<1>1. [rg EXCEPT !.r = r] = [w |-> rg.w, r |-> r, slots |-> rg.slots, ready |-> rg.ready]
  BY DEF IsRing
<1>2. QED
  BY <1>1 DEF IsRing

LEMMA FillFacts ==
    ASSUME NEW rg, IsRing(rg), NEW until \in Int
    PROVE  /\ IsRing(FillHoles(rg, until))
           /\ FillHoles(rg, until).w = rg.w /\ FillHoles(rg, until).ready = rg.ready
           /\ FillHoles(rg, until).r = Larger(rg.r, until)
           /\ \A i \in Slots : FillHoles(rg, until).slots[i]
                  = IF until > rg.r /\ i \in InRing(rg.r, until) /\ i \notin rg.ready
                    THEN Silence ELSE rg.slots[i]
<1>1. CASE until > rg.r
  <2> DEFINE s == Silenced(rg, InRing(rg.r, until) \ rg.ready)
  <2>1. FillHoles(rg, until) = [s EXCEPT !.r = until]
    BY <1>1 DEF FillHoles
  <2>2. /\ IsRing(s) /\ s.w = rg.w /\ s.ready = rg.ready
        /\ \A i \in Slots : s.slots[i] = IF i \in InRing(rg.r, until) \ rg.ready
                                         THEN Silence ELSE rg.slots[i]
    BY SilencedFacts
  <2> HIDE DEF s
  <2>3. Larger(rg.r, until) = until
    BY <1>1 DEF Larger, IsRing
  <2>4. QED
    BY <1>1, <2>1, <2>2, <2>3, MovedFacts
<1>2. CASE ~(until > rg.r)
  <2>1. FillHoles(rg, until) = rg
    BY <1>2 DEF FillHoles
  <2>2. Larger(rg.r, until) = rg.r
    BY <1>2 DEF Larger, IsRing
  <2>3. QED
    BY <1>2, <2>1, <2>2
<1>3. QED
  BY <1>1, <1>2

\* readable_pos stops at the first item that has not come, or at the end.
LEMMA RunExists ==
    ASSUME NEW r \in Int, NEW ready, NEW span \in Nat
    PROVE  \E n \in 0 .. span : /\ \A k \in 0 .. n - 1 : (r + k) % Size \in ready
                                /\ n < span => (r + n) % Size \notin ready
<1> DEFINE S == {n \in 0 .. span : n < span => (r + n) % Size \notin ready}
<1>1. S \in SUBSET Nat
  OBVIOUS
<1>2. span \in S
  OBVIOUS
<1>3. PICK n \in S : \A y \in S : n <= y
  BY <1>1, <1>2, Least
<1>4. ASSUME NEW k \in 0 .. n - 1 PROVE (r + k) % Size \in ready
  <2>1. k \notin S
    BY <1>1, <1>3
  <2>2. k \in 0 .. span /\ k < span
    BY <1>3
  <2>3. QED
    BY <2>1, <2>2
<1>5. QED
  BY <1>3, <1>4

LEMMA AdvanceFacts ==
    ASSUME NEW rg, IsRing(rg), NEW until \in Int, until - rg.r <= Size
    PROVE  /\ IsRing(Advance(rg, until))
           /\ Advance(rg, until).w = rg.w /\ Advance(rg, until).ready = rg.ready
           /\ Advance(rg, until).slots = rg.slots
           /\ Advance(rg, until).r \in rg.r .. Larger(rg.r, until)
           /\ \A t \in rg.r .. Advance(rg, until).r - 1 : At(t) \in rg.ready
<1> DEFINE span == IF until > rg.r THEN RingLength(rg.r, until) ELSE 0
           run == CHOOSE n \in 0 .. span :
                      /\ \A k \in 0 .. n - 1 : (rg.r + k) % Size \in rg.ready
                      /\ n < span => (rg.r + n) % Size \notin rg.ready
<1>1. rg.r \in Int
  BY DEF IsRing
<1>2. span \in Nat /\ rg.r + span = Larger(rg.r, until)
  BY <1>1, RingLengthBounds DEF Larger
<1>3. Advance(rg, until) = [rg EXCEPT !.r = rg.r + run]
  BY DEF Advance
<1> HIDE DEF span
<1>4. /\ run \in 0 .. span
      /\ \A k \in 0 .. run - 1 : (rg.r + k) % Size \in rg.ready
  BY <1>1, <1>2, RunExists
<1> HIDE DEF run
<1>5. rg.r + run \in rg.r .. Larger(rg.r, until) /\ rg.r + run \in Int
  BY <1>1, <1>2, <1>4
<1>6. ASSUME NEW t \in rg.r .. (rg.r + run) - 1 PROVE At(t) \in rg.ready
  <2>1. t - rg.r \in 0 .. run - 1 /\ rg.r + (t - rg.r) = t
    BY <1>1, <1>2, <1>4, <1>6
  <2>2. QED
    BY <1>4, <2>1 DEF At
<1> DEFINE r == rg.r + run
           a == [rg EXCEPT !.r = r]
<1>7. r \in Int /\ r \in rg.r .. Larger(rg.r, until) /\ \A t \in rg.r .. r - 1 : At(t) \in rg.ready
  <2>1. r \in Int /\ r \in rg.r .. Larger(rg.r, until)
    BY <1>5
  <2>2. \A t \in rg.r .. r - 1 : At(t) \in rg.ready
    BY <1>6, Zenon
  <2>3. QED
    BY <2>1, <2>2
<1>8. Advance(rg, until) = a
  BY <1>3
<1> HIDE DEF r
<1>9. IsRing(a) /\ a.w = rg.w /\ a.r = r /\ a.ready = rg.ready /\ a.slots = rg.slots
  BY <1>7, MovedFacts
<1> HIDE DEF a
<1>10. a.r \in rg.r .. Larger(rg.r, until) /\ \A t \in rg.r .. a.r - 1 : At(t) \in rg.ready
  BY <1>7, <1>9
<1>11. QED
  BY <1>8, <1>9, <1>10

-----------------------------------------------------------------------------
(* What the calls make of what is due *)

\* The positions that have passed hold what is due or silence, and the flags of
\* the others tell what has come.
Sound(rg) ==
    /\ rg.r <= rg.w
    /\ \A t \in Int : rg.w - Size <= t /\ t < rg.r => rg.slots[At(t)] \in Due(t)
    /\ \A t \in Int : rg.r <= t /\ t < rg.w /\ At(t) \in rg.ready
                          => rg.slots[At(t)] \in Due(t) \ {Silence}

\* What has come for q is there, and is spared.
Holds(rg, q) ==
    q < rg.w /\ rg.slots[At(q)] # Silence /\ (q >= rg.r => At(q) \in rg.ready)

LEMMA SilenceIsDue == \A t : Silence \in Due(t)
  BY DEF Due

\* The first half of close_items_until_internal: only what has not come is silenced.
LEMMA FillSound ==
    ASSUME NEW rg, IsRing(rg), Sound(rg), rg.w - rg.r <= Size, NEW until \in Int, until <= rg.w
    PROVE  /\ Sound(FillHoles(rg, until))
           /\ \A q \in Int : Holds(rg, q) /\ q >= rg.w - Size => Holds(FillHoles(rg, until), q)
<1> DEFINE f == FillHoles(rg, until)
           w == rg.w
           r == rg.r
<1>1. /\ f.w = w /\ f.ready = rg.ready /\ f.r = (IF r > until THEN r ELSE until)
      /\ \A i \in Slots : f.slots[i] = IF until > r /\ i \in InRing(r, until) /\ i \notin rg.ready
                                       THEN Silence ELSE rg.slots[i]
  BY FillFacts DEF Larger
<1>2. w \in Int /\ r \in Int /\ r <= w /\ w - r <= Size /\ until <= w /\ Size \in Int
  BY SizeFacts DEF IsRing, Sound
<1>3. /\ \A t \in Int : w - Size <= t /\ t < r => rg.slots[At(t)] \in Due(t)
      /\ \A t \in Int : r <= t /\ t < w /\ At(t) \in rg.ready
                            => rg.slots[At(t)] \in Due(t) \ {Silence}
  BY DEF Sound
<1>4. \A q \in Int : Holds(rg, q) => q < w /\ rg.slots[At(q)] # Silence /\ (q >= r => At(q) \in rg.ready)
  BY DEF Holds
<1>5. until > r => InRing(r, until) = {At(t) : t \in r .. until - 1}
  BY <1>2, InRingIs
<1> HIDE DEF f, w, r
<1>6. ASSUME NEW t \in Int, w - Size <= t, t < f.r
      PROVE  f.slots[At(t)] \in Due(t)
  <2>1. At(t) \in Slots
    BY AtSlot
  <2>2. CASE t < r
    BY <1>1, <1>3, <1>6, <2>1, <2>2, SilenceIsDue
  <2>3. CASE ~(t < r)
    <3>1. until > r /\ t \in r .. until - 1 /\ t < w
      BY <1>1, <1>2, <1>6, <2>3
    <3>2. At(t) \in InRing(r, until)
      BY <1>5, <3>1
    <3>3. CASE At(t) \in rg.ready
      BY <1>1, <1>3, <2>1, <2>3, <3>1, <3>3, <1>2
    <3>4. CASE At(t) \notin rg.ready
      BY <1>1, <2>1, <3>1, <3>2, <3>4, SilenceIsDue
    <3>5. QED
      BY <3>3, <3>4
  <2>4. QED
    BY <2>2, <2>3
<1>7. ASSUME NEW t \in Int, f.r <= t, t < w, At(t) \in rg.ready
      PROVE  f.slots[At(t)] \in Due(t) \ {Silence}
  <2>1. At(t) \in Slots /\ r <= t
    BY <1>1, <1>2, <1>7, AtSlot
  <2>2. QED
    BY <1>1, <1>3, <1>7, <2>1
<1>8. f.r <= w
  BY <1>1, <1>2
<1>9. ASSUME NEW q \in Int, q < w, rg.slots[At(q)] # Silence, q >= r => At(q) \in rg.ready, q >= w - Size
      PROVE  f.slots[At(q)] # Silence /\ (q >= f.r => At(q) \in rg.ready)
  <2>1. At(q) \in Slots
    BY AtSlot
  <2>2. ASSUME until > r, At(q) \in InRing(r, until) PROVE At(q) \in rg.ready
    <3>1. PICK t \in r .. until - 1 : At(q) = At(t)
      BY <1>5, <2>2
    <3>2. t \in Int /\ q - t < Size /\ t - q < Size
      BY <1>2, <1>9, <3>1
    <3>3. q = t
      BY <3>1, <3>2, AtNear
    <3>4. QED
      BY <1>2, <1>9, <3>1, <3>3
  <2>3. f.slots[At(q)] = rg.slots[At(q)]
    BY <1>1, <2>1, <2>2
  <2>4. q >= f.r => q >= r
    BY <1>1, <1>2
  <2>5. QED
    BY <1>9, <2>3, <2>4
<1>10. Sound(f)
  BY <1>1, <1>6, <1>7, <1>8 DEF Sound
<1>11. ASSUME NEW q \in Int, Holds(rg, q), q >= rg.w - Size
       PROVE  Holds(f, q)
  BY <1>1, <1>4, <1>9, <1>11 DEF Holds, w
<1>12. QED
  BY <1>10, <1>11 DEF f

\* ... and its second half: only what has come is passed.
LEMMA AdvanceSound ==
    ASSUME NEW rg, IsRing(rg), Sound(rg), NEW until \in Int, until <= rg.w, until - rg.r <= Size
    PROVE  /\ Sound(Advance(rg, until))
           /\ \A q \in Int : Holds(rg, q) => Holds(Advance(rg, until), q)
<1> DEFINE a == Advance(rg, until)
           w == rg.w
           r == rg.r
<1>1. /\ a.w = w /\ a.ready = rg.ready /\ a.slots = rg.slots /\ a.r \in r .. Larger(r, until)
      /\ \A t \in r .. a.r - 1 : At(t) \in rg.ready
  BY AdvanceFacts
<1>2. w \in Int /\ r \in Int /\ r <= w /\ until <= w
  BY DEF IsRing, Sound
<1>3. /\ \A t \in Int : w - Size <= t /\ t < r => rg.slots[At(t)] \in Due(t)
      /\ \A t \in Int : r <= t /\ t < w /\ At(t) \in rg.ready
                            => rg.slots[At(t)] \in Due(t) \ {Silence}
  BY DEF Sound
<1>4. a.r \in Int /\ r <= a.r /\ a.r <= w
  BY <1>1, <1>2 DEF Larger
<1> HIDE DEF a, w, r
<1>5. ASSUME NEW t \in Int, w - Size <= t, t < a.r
      PROVE  rg.slots[At(t)] \in Due(t)
  <2>1. CASE t < r
    BY <1>3, <1>5, <2>1
  <2>2. CASE ~(t < r)
    <3>1. t \in r .. a.r - 1 /\ t < w /\ r <= t
      BY <1>2, <1>4, <1>5, <2>2
    <3>2. QED
      BY <1>1, <1>3, <3>1
  <2>3. QED
    BY <2>1, <2>2
<1>6. ASSUME NEW t \in Int, a.r <= t, t < w, At(t) \in rg.ready
      PROVE  rg.slots[At(t)] \in Due(t) \ {Silence}
  <2>1. r <= t
    BY <1>2, <1>4, <1>6
  <2>2. QED
    BY <1>3, <1>6, <2>1
<1>7. Sound(a)
  BY <1>1, <1>4, <1>5, <1>6 DEF Sound
<1>8. ASSUME NEW q \in Int, Holds(rg, q)
      PROVE  Holds(a, q)
  <2>1. q < w /\ rg.slots[At(q)] # Silence /\ (q >= r => At(q) \in rg.ready)
    BY <1>8 DEF Holds, w, r
  <2>2. q >= a.r => q >= r
    BY <1>2, <1>4
  <2>3. QED
    BY <1>1, <2>1, <2>2 DEF Holds
<1>9. QED
  BY <1>7, <1>8 DEF a

\* The stores of a packet.
Stored(rg, from, items) ==
    [rg EXCEPT
        !.w = Larger(rg.w, from + Fpp),
        !.slots = [i \in Slots |-> IF i \in InRing(from, from + Fpp)
                                   THEN items[1 + ((i - from) % Size)] ELSE @[i]],
        !.ready = (IF from > rg.w THEN @ \ InRing(rg.w, from) ELSE @)
                      \cup InRing(from, from + Fpp)]

LEMMA FppFacts == Fpp \in Int /\ Fpp > 0 /\ Fpp < Size
  BY ReceiveAssumption, SizeFacts

LEMMA StoredFacts ==
    ASSUME NEW rg, IsRing(rg), NEW from \in Int, NEW items
    PROVE  /\ IsRing(Stored(rg, from, items))
           /\ Stored(rg, from, items).w = Larger(rg.w, from + Fpp)
           /\ Stored(rg, from, items).r = rg.r
           /\ \A t \in from .. (from + Fpp) - 1 :
                  /\ Stored(rg, from, items).slots[At(t)] = items[1 + (t - from)]
                  /\ At(t) \in Stored(rg, from, items).ready
           /\ \A i \in Slots : i \notin InRing(from, from + Fpp) =>
                  /\ Stored(rg, from, items).slots[i] = rg.slots[i]
                  /\ i \in Stored(rg, from, items).ready
                         <=> i \in rg.ready /\ ~(from > rg.w /\ i \in InRing(rg.w, from))
<1> DEFINE st == Stored(rg, from, items)
           written == InRing(from, from + Fpp)
           s == [i \in Slots |-> IF i \in written THEN items[1 + ((i - from) % Size)] ELSE rg.slots[i]]
           d == (IF from > rg.w THEN rg.ready \ InRing(rg.w, from) ELSE rg.ready) \cup written
           w == Larger(rg.w, from + Fpp)
<1>1. st = [rg EXCEPT !.w = w, !.slots = s, !.ready = d]
  BY DEF Stored
<1>2. s = [i \in Slots |-> s[i]] /\ w \in Int
  BY FppFacts DEF Larger, IsRing
<1>3. \A i \in Slots : s[i] = IF i \in written THEN items[1 + ((i - from) % Size)] ELSE rg.slots[i]
  OBVIOUS
<1>4. \A i : i \notin written => (i \in d <=> i \in rg.ready /\ ~(from > rg.w /\ i \in InRing(rg.w, from)))
  OBVIOUS
<1>5. \A i \in written : i \in d
  OBVIOUS
<1>6. written = {At(t) : t \in from .. (from + Fpp) - 1}
  <2> DEFINE to == from + Fpp
  <2>1. to \in Int /\ from <= to /\ to - from <= Size
    BY FppFacts, SizeFacts
  <2> HIDE DEF to
  <2>2. InRing(from, to) = {At(t) : t \in from .. to - 1}
    BY <2>1, InRingIs
  <2>3. QED
    BY <2>2, Zenon DEF to
<1> HIDE DEF s, d, w, written
<1>7. st = [w |-> w, r |-> rg.r, slots |-> s, ready |-> d]
  BY <1>1 DEF IsRing
<1> HIDE DEF st
<1>8. st.w = w /\ st.r = rg.r /\ st.slots = s /\ st.ready = d /\ IsRing(st)
  BY <1>2, <1>7 DEF IsRing
<1>9. ASSUME NEW t \in from .. (from + Fpp) - 1
      PROVE  s[At(t)] = items[1 + (t - from)] /\ At(t) \in d
  <2>1. At(t) \in Slots /\ At(t) \in written
    BY <1>6, <1>9, AtSlot
  <2>2. t - from \in 0 .. Size - 1 /\ from + (t - from) = t
    BY <1>9, FppFacts, SizeFacts
  <2>3. (At(t) - from) % Size = t - from
    BY <2>2, PlaceOf
  <2>4. QED
    BY <1>3, <1>5, <2>1, <2>3
<1>10. \A t \in from .. (from + Fpp) - 1 : st.slots[At(t)] = items[1 + (t - from)] /\ At(t) \in st.ready
  BY <1>8, <1>9
<1>11. \A i \in Slots : i \notin written =>
           /\ st.slots[i] = rg.slots[i]
           /\ i \in st.ready <=> i \in rg.ready /\ ~(from > rg.w /\ i \in InRing(rg.w, from))
  BY <1>3, <1>4, <1>8
<1>12. QED
  BY <1>8, <1>10, <1>11, Zenon DEF st, w, written

\* A packet: its samples are those that are due, and it is neither too old for
\* the ring nor too far ahead.
LEMMA StoredSound ==
    ASSUME NEW rg, IsRing(rg), Sound(rg), NEW from \in Int, NEW items,
           \A t \in from .. (from + Fpp) - 1 : items[1 + (t - from)] \in Due(t) \ {Silence},
           Larger(rg.w, from + Fpp) - rg.r <= Size, from >= Larger(rg.w, from + Fpp) - Size
    PROVE  /\ Sound(Stored(rg, from, items))
           /\ from <= rg.w /\ rg.r = rg.w
                  => Sound([Stored(rg, from, items) EXCEPT !.r = Larger(rg.w, from + Fpp)])
           /\ \A q \in Int : Holds(rg, q) /\ q >= Larger(rg.w, from + Fpp) - Size
                                 => Holds(Stored(rg, from, items), q)
           /\ \A q \in from .. (from + Fpp) - 1 : Holds(Stored(rg, from, items), q)
<1> DEFINE st == Stored(rg, from, items)
           w == rg.w
           r == rg.r
           to == from + Fpp
           w1 == Larger(w, to)
           moved == [st EXCEPT !.r = w1]
<1>1. /\ IsRing(st) /\ st.w = w1 /\ st.r = r
      /\ \A t \in from .. to - 1 : st.slots[At(t)] = items[1 + (t - from)] /\ At(t) \in st.ready
      /\ \A i \in Slots : i \notin InRing(from, to) =>
             /\ st.slots[i] = rg.slots[i]
             /\ i \in st.ready <=> i \in rg.ready /\ ~(from > w /\ i \in InRing(w, from))
  BY StoredFacts
<1>2. /\ w \in Int /\ r \in Int /\ from \in Int /\ to \in Int /\ Size \in Int /\ Size > 0
      /\ r <= w /\ from < to /\ to - from < Size
  BY FppFacts, SizeFacts DEF IsRing, Sound
<1>3. /\ w1 = (IF w > to THEN w ELSE to) /\ w1 - r <= Size /\ from >= w1 - Size
      /\ w1 \in Int /\ w1 >= w /\ w1 >= to /\ (w1 > w => w1 = to)
  <2>1. w1 = (IF w > to THEN w ELSE to) /\ w1 - r <= Size /\ from >= w1 - Size
    BY DEF Larger
  <2> HIDE DEF w1, w, to, r
  <2>2. QED
    BY <1>2, <2>1
<1>4. /\ \A t \in Int : w - Size <= t /\ t < r => rg.slots[At(t)] \in Due(t)
      /\ \A t \in Int : r <= t /\ t < w /\ At(t) \in rg.ready
                            => rg.slots[At(t)] \in Due(t) \ {Silence}
  BY DEF Sound
<1>5. \A t \in from .. to - 1 : items[1 + (t - from)] \in Due(t) \ {Silence}
  OBVIOUS
<1>6. /\ IsRing(moved) /\ moved.w = w1 /\ moved.r = w1 /\ moved.ready = st.ready /\ moved.slots = st.slots
  <2> HIDE DEF st, w1
  <2>1. QED
    BY <1>1, <1>3, MovedFacts
<1>7. InRing(from, to) = {At(t) : t \in from .. to - 1}
  <2> HIDE DEF to
  <2>1. QED
    BY <1>2, InRingIs
<1>8. from > w => InRing(w, from) = {At(t) : t \in w .. from - 1}
  <2> HIDE DEF to, w1, w, r
  <2>1. from > w => from - w <= Size
    BY <1>2, <1>3
  <2>2. QED
    BY <1>2, <2>1, InRingIs
<1>9. \A q \in Int : Holds(rg, q) => q < w /\ rg.slots[At(q)] # Silence /\ (q >= r => At(q) \in rg.ready)
  BY DEF Holds
<1> HIDE DEF st, w, r, to, w1, moved
\* A position in the ring's window that shares a slot with the packet is in it.
<1>10. ASSUME NEW t \in Int, t >= w1 - Size, t < w1, At(t) \in InRing(from, to)
       PROVE  t \in from .. to - 1
  <2>1. PICK s \in from .. to - 1 : At(t) = At(s)
    BY <1>7, <1>10
  <2>2. s \in Int /\ s - t < Size /\ t - s < Size
    BY <1>2, <1>3, <1>10, <2>1
  <2>3. t = s
    BY <2>1, <2>2, AtNear
  <2>4. QED
    BY <2>1, <2>3
<1>11. ASSUME NEW t \in from .. to - 1
       PROVE  st.slots[At(t)] \in Due(t) \ {Silence} /\ At(t) \in st.ready
  BY <1>1, <1>5, <1>11
<1>12. ASSUME NEW t \in Int, w1 - Size <= t, t < r
       PROVE  st.slots[At(t)] \in Due(t)
  <2>1. t < w1 /\ w - Size <= t /\ At(t) \in Slots
    BY <1>2, <1>3, <1>12, AtSlot
  <2>2. CASE At(t) \in InRing(from, to)
    BY <1>10, <1>11, <1>12, <2>1, <2>2
  <2>3. CASE At(t) \notin InRing(from, to)
    BY <1>1, <1>4, <1>12, <2>1, <2>3
  <2>4. QED
    BY <2>2, <2>3
<1>13. ASSUME NEW t \in Int, r <= t, t < w1, At(t) \in st.ready
       PROVE  st.slots[At(t)] \in Due(t) \ {Silence}
  <2>1. t >= w1 - Size /\ At(t) \in Slots
    BY <1>2, <1>3, <1>13, AtSlot
  <2>2. CASE At(t) \in InRing(from, to)
    BY <1>10, <1>11, <1>13, <2>1, <2>2
  <2>3. CASE At(t) \notin InRing(from, to)
    <3>1. At(t) \in rg.ready /\ ~(from > w /\ At(t) \in InRing(w, from))
          /\ st.slots[At(t)] = rg.slots[At(t)]
      BY <1>1, <1>13, <2>1, <2>3
    <3>2. t \notin from .. to - 1
      BY <1>7, <2>3
    <3>3. CASE t < w
      BY <1>4, <1>13, <3>1, <3>3
    <3>4. CASE ~(t < w)
      <4>1. from > w /\ t \in w .. from - 1
        BY <1>2, <1>3, <1>13, <3>2, <3>4
      <4>2. At(t) \in InRing(w, from)
        BY <1>8, <4>1
      <4>3. QED
        BY <3>1, <4>1, <4>2
    <3>5. QED
      BY <3>3, <3>4
  <2>4. QED
    BY <2>2, <2>3
<1>14. Sound(st)
  <2>1. r <= w1
    BY <1>2, <1>3
  <2>2. QED
    BY <1>1, <1>12, <1>13, <2>1 DEF Sound
<1>15. ASSUME from <= w, r = w
       PROVE  Sound(moved)
  <2>1. ASSUME NEW t \in Int, w1 - Size <= t, t < w1
        PROVE  st.slots[At(t)] \in Due(t)
    <3>1. CASE t < r
      BY <1>12, <2>1, <3>1
    <3>2. CASE ~(t < r)
      <4>1. t \in from .. to - 1
        BY <1>2, <1>3, <1>15, <2>1, <3>2
      <4>2. QED
        BY <1>11, <4>1
    <3>3. QED
      BY <3>1, <3>2
  <2>2. w1 <= w1 /\ \A t \in Int : ~(w1 <= t /\ t < w1)
    BY <1>3
  <2>3. QED
    BY <1>6, <2>1, <2>2 DEF Sound
<1>16. ASSUME NEW q \in Int, Holds(rg, q), q >= w1 - Size
       PROVE  Holds(st, q)
  <2>1. q < w /\ rg.slots[At(q)] # Silence /\ (q >= r => At(q) \in rg.ready)
    BY <1>9, <1>16
  <2>2. q < w1 /\ At(q) \in Slots
    BY <1>2, <1>3, <2>1, <1>16, AtSlot
  <2>3. CASE At(q) \in InRing(from, to)
    <3>1. q \in from .. to - 1
      BY <1>10, <1>16, <2>2, <2>3
    <3>2. QED
      BY <1>1, <1>11, <2>2, <3>1 DEF Holds
  <2>4. CASE At(q) \notin InRing(from, to)
    <3>1. ASSUME from > w, At(q) \in InRing(w, from) PROVE FALSE
      <4>1. PICK t \in w .. from - 1 : At(q) = At(t)
        BY <1>8, <3>1
      <4>2. t \in Int /\ q - t < Size /\ t - q < Size
        BY <1>2, <1>3, <1>16, <2>1, <4>1
      <4>3. q = t
        BY <4>1, <4>2, AtNear
      <4>4. QED
        BY <1>2, <2>1, <4>1, <4>3
    <3>2. /\ st.slots[At(q)] = rg.slots[At(q)]
          /\ At(q) \in st.ready <=> At(q) \in rg.ready
      BY <1>1, <2>2, <2>4, <3>1
    <3>3. QED
      BY <1>1, <2>1, <2>2, <3>2 DEF Holds
  <2>5. QED
    BY <2>3, <2>4
<1>17. ASSUME NEW q \in from .. to - 1
       PROVE  Holds(st, q)
  <2>1. q < w1
    BY <1>2, <1>3, <1>17
  <2>2. QED
    BY <1>1, <1>11, <1>17, <2>1 DEF Holds
<1>18. QED
  BY <1>14, <1>15, <1>16, <1>17 DEF st, moved, w, w1, to, r

\* write_from_at.
LEMMA WriteSound ==
    ASSUME NEW rg, IsRing(rg), Sound(rg), NEW from \in Int, NEW items, Len(items) = Fpp,
           \A t \in from .. (from + Fpp) - 1 : items[1 + (t - from)] \in Due(t) \ {Silence},
           Larger(rg.w, from + Fpp) - rg.r <= Size, from >= Larger(rg.w, from + Fpp) - Size
    PROVE  LET wr == WriteFromAt(rg, from, items)
               w1 == Larger(rg.w, from + Fpp)
           IN  /\ IsRing(wr) /\ Sound(wr)
               /\ wr.w = w1 /\ wr.r >= rg.r
               /\ \A q \in Int : Holds(rg, q) /\ q >= w1 - Size => Holds(wr, q)
               /\ \A q \in from .. (from + Fpp) - 1 : Holds(wr, q)
<1> DEFINE wr == WriteFromAt(rg, from, items)
           w1 == Larger(rg.w, from + Fpp)
           st == Stored(rg, from, items)
           hole == from > rg.w \/ rg.r # rg.w
           filled == FillHoles(st, w1 - HoleFixWait)
           moved == [st EXCEPT !.r = w1]
<1>1. wr = IF hole THEN Advance(filled, w1) ELSE moved
  BY DEF WriteFromAt, Stored
<1>2. /\ rg.w \in Int /\ rg.r \in Int /\ rg.r <= rg.w /\ w1 \in Int /\ w1 >= rg.w /\ w1 - rg.r <= Size
      /\ w1 >= from + Fpp
  BY FppFacts, SizeFacts DEF IsRing, Sound, Larger
<1>3. IsRing(st) /\ st.w = w1 /\ st.r = rg.r
  BY StoredFacts
<1>4. /\ Sound(st) /\ (from <= rg.w /\ rg.r = rg.w => Sound(moved))
      /\ \A q \in Int : Holds(rg, q) /\ q >= w1 - Size => Holds(st, q)
      /\ \A q \in from .. (from + Fpp) - 1 : Holds(st, q)
  BY StoredSound
<1>5. from >= w1 - Size
  OBVIOUS
<1>6. SUFFICES /\ IsRing(wr) /\ Sound(wr) /\ wr.w = w1 /\ wr.r >= rg.r
               /\ \A q \in Int : Holds(st, q) /\ q >= w1 - Size => Holds(wr, q)
  <2> HIDE DEF wr, w1, st
  <2>1. \A q \in from .. (from + Fpp) - 1 : q \in Int /\ q >= w1 - Size
    BY <1>2, <1>5, FppFacts, SizeFacts
  <2>2. QED
    BY <1>4, <1>6, <2>1 DEF wr, w1
<1> HIDE DEF wr, w1, st
<1>7. CASE hole
  <2> DEFINE until == w1 - HoleFixWait
  <2>1. until \in Int /\ until <= w1 /\ st.w - st.r <= Size
    BY <1>2, <1>3, SizeFacts
  <2>2. filled = FillHoles(st, until)
    OBVIOUS
  <2> HIDE DEF until, filled
  <2>3. /\ IsRing(filled) /\ filled.w = w1 /\ filled.r = Larger(rg.r, until)
    <3> DEFINE f == FillHoles(st, until)
    <3>1. IsRing(f) /\ f.w = st.w /\ f.r = Larger(st.r, until)
      BY <1>3, <2>1, FillFacts
    <3>2. filled = f
      BY <2>2
    <3> HIDE DEF f
    <3>3. QED
      BY <1>3, <3>1, <3>2
  <2>4. Sound(filled) /\ \A q \in Int : Holds(st, q) /\ q >= w1 - Size => Holds(filled, q)
    BY <1>3, <1>4, <2>1, <2>2, FillSound
  <2>5. filled.r \in Int /\ filled.r >= rg.r /\ w1 - filled.r <= Size
    BY <1>2, <2>1, <2>3, SizeFacts DEF Larger
  <2> DEFINE a == Advance(filled, w1)
  <2>6. IsRing(a) /\ a.w = w1 /\ a.r \in filled.r .. Larger(filled.r, w1)
    BY <1>2, <2>3, <2>5, AdvanceFacts
  <2>7. Sound(a) /\ \A q \in Int : Holds(filled, q) => Holds(a, q)
    BY <1>2, <2>3, <2>4, <2>5, AdvanceSound
  <2>8. wr = a
    BY <1>1, <1>7 DEF filled
  <2> HIDE DEF a
  <2>9. a.r >= rg.r
    BY <1>2, <2>5, <2>6
  <2>10. QED
    BY <2>4, <2>6, <2>7, <2>8, <2>9
<1>8. CASE ~hole
  <2>1. wr = moved /\ from <= rg.w /\ rg.r = rg.w
    BY <1>1, <1>2, <1>8
  <2>2. IsRing(moved) /\ moved.w = w1 /\ moved.r = w1 /\ moved.ready = st.ready /\ moved.slots = st.slots
    BY <1>2, <1>3, MovedFacts
  <2>3. Sound(moved)
    BY <1>4, <2>1
  <2> HIDE DEF moved
  <2>4. ASSUME NEW q \in Int, Holds(st, q) PROVE Holds(moved, q)
    <3>1. q < w1 /\ ~(q >= w1)
      BY <1>2, <1>3, <2>4 DEF Holds
    <3>2. QED
      BY <1>3, <2>2, <2>4, <3>1 DEF Holds
  <2>5. QED
    BY <1>2, <2>1, <2>2, <2>3, <2>4
<1>9. QED
  BY <1>7, <1>8

\* reset.
LEMMA PlacedFacts ==
    ASSUME NEW rg, IsRing(rg), NEW at \in Int
    PROVE  /\ IsRing(Reset(rg, at))
           /\ Reset(rg, at).w = at /\ Reset(rg, at).r = at
           /\ Reset(rg, at).ready = rg.ready /\ Reset(rg, at).slots = rg.slots
<1> DEFINE e == Reset(rg, at)
<1>1. e = [rg EXCEPT !.w = at, !.r = at]
  BY DEF Reset
<1> HIDE DEF e
<1>2. e = [w |-> at, r |-> at, slots |-> rg.slots, ready |-> rg.ready]
  BY <1>1 DEF IsRing
<1>3. IsRing(e) /\ e.w = at /\ e.r = at /\ e.ready = rg.ready /\ e.slots = rg.slots
  BY <1>2 DEF IsRing
<1>4. QED
  BY <1>3 DEF e

LEMMA ExtendedFacts ==
    ASSUME NEW rg, IsRing(rg), NEW gone, NEW until \in Int
    PROVE  LET e == Reset(Silenced(rg, gone), until)
           IN  /\ IsRing(e) /\ e.w = until /\ e.r = until /\ e.ready = rg.ready
               /\ \A i \in Slots : e.slots[i] = IF i \in gone THEN Silence ELSE rg.slots[i]
<1> DEFINE s == Silenced(rg, gone)
           e == Reset(s, until)
<1>1. /\ IsRing(s) /\ s.ready = rg.ready
      /\ \A i \in Slots : s.slots[i] = IF i \in gone THEN Silence ELSE rg.slots[i]
  BY SilencedFacts
<1> HIDE DEF s
<1>2. /\ IsRing(e) /\ e.w = until /\ e.r = until /\ e.ready = s.ready /\ e.slots = s.slots
  BY <1>1, PlacedFacts
<1> HIDE DEF e
<1>3. /\ IsRing(e) /\ e.w = until /\ e.r = until /\ e.ready = rg.ready
      /\ \A i \in Slots : e.slots[i] = IF i \in gone THEN Silence ELSE rg.slots[i]
  BY <1>1, <1>2
<1>4. QED
  BY <1>3 DEF e, s

\* A tick: behind it lies what came or silence.
LEMMA CloseSound ==
    ASSUME NEW rg, IsRing(rg), Sound(rg), NEW until \in Int, rg.w - rg.r <= Size, until - rg.w <= Size
    PROVE  LET cl == CloseItemsUntil(rg, until)
               w1 == Larger(rg.w, until)
           IN  /\ IsRing(cl) /\ Sound(cl)
               /\ cl.w = w1 /\ cl.r >= rg.r /\ cl.r >= until
               /\ \A q \in Int : Holds(rg, q) /\ q >= w1 - Size => Holds(cl, q)
               /\ \A t \in Int : rg.w <= t /\ t < until => cl.slots[At(t)] = Silence
               /\ \A i \in Slots : cl.slots[i] \in {rg.slots[i], Silence}
<1> DEFINE cl == CloseItemsUntil(rg, until)
           w1 == Larger(rg.w, until)
           w == rg.w
           r == rg.r
           c == Smaller(until, w)
           filled == FillHoles(rg, c)
           closed == Advance(filled, c)
           extended == Reset(Silenced(closed, InRing(w, until)), until)
<1>1. cl = IF until = c THEN closed ELSE extended
  BY DEF CloseItemsUntil, Reset
<1>2. /\ w \in Int /\ r \in Int /\ r <= w /\ Size \in Int /\ Size > 0
      /\ w - r <= Size /\ until - w <= Size
  BY SizeFacts DEF IsRing, Sound
<1>3. /\ c = (IF until < w THEN until ELSE w) /\ w1 = (IF w > until THEN w ELSE until)
      /\ c \in Int /\ c <= w /\ c <= until /\ w1 \in Int /\ w1 >= w /\ w1 >= until
      /\ until = c => w1 = w
      /\ until # c => c = w /\ w1 = until /\ until > w
  <2>1. c = (IF until < w THEN until ELSE w) /\ w1 = (IF w > until THEN w ELSE until)
    BY DEF Smaller, Larger
  <2> HIDE DEF c, w1, w
  <2>2. QED
    BY <1>2, <2>1
<1> HIDE DEF cl, c, w1
<1>4. /\ IsRing(filled) /\ filled.w = w /\ filled.r = (IF r > c THEN r ELSE c)
      /\ \A i \in Slots : filled.slots[i] \in {rg.slots[i], Silence}
  <2>1. /\ IsRing(filled) /\ filled.w = w /\ filled.r = Larger(r, c)
        /\ \A i \in Slots : filled.slots[i]
               = IF c > r /\ i \in InRing(r, c) /\ i \notin rg.ready THEN Silence ELSE rg.slots[i]
    BY <1>3, FillFacts
  <2> HIDE DEF filled
  <2>2. QED
    BY <2>1 DEF Larger
<1>5. Sound(filled) /\ \A q \in Int : Holds(rg, q) /\ q >= w - Size => Holds(filled, q)
  BY <1>3, FillSound
<1> HIDE DEF filled
<1>6. filled.r \in Int /\ filled.r >= r /\ filled.r >= c /\ filled.r <= w /\ c - filled.r <= Size
  <2> HIDE DEF w, r
  <2>1. QED
    BY <1>2, <1>3, <1>4
<1>7. /\ IsRing(closed) /\ closed.w = filled.w /\ closed.slots = filled.slots
      /\ closed.r \in filled.r .. Larger(filled.r, c)
  BY <1>3, <1>4, <1>6, AdvanceFacts
<1>8. Sound(closed) /\ \A q \in Int : Holds(filled, q) => Holds(closed, q)
  BY <1>3, <1>4, <1>5, <1>6, AdvanceSound
<1> HIDE DEF closed
<1>9. closed.r \in Int /\ closed.r = filled.r /\ closed.w = w
  BY <1>3, <1>4, <1>6, <1>7 DEF Larger
<1>10. /\ \A i \in Slots : closed.slots[i] \in {rg.slots[i], Silence}
       /\ \A q \in Int : Holds(rg, q) /\ q >= w - Size => Holds(closed, q)
  BY <1>4, <1>5, <1>7, <1>8
<1>11. CASE until = c
  <2>1. cl = closed
    BY <1>1, <1>11
  <2>2. closed.w = w1 /\ closed.r >= r /\ closed.r >= until
    BY <1>2, <1>3, <1>6, <1>9, <1>11
  <2>3. \A t \in Int : ~(w <= t /\ t < until)
    <3> HIDE DEF w
    <3>1. QED
      BY <1>2, <1>3, <1>11
  <2>4. w1 = w
    BY <1>3, <1>11
  <2>5. QED
    BY <1>7, <1>8, <1>10, <2>1, <2>2, <2>3, <2>4 DEF cl, w1
<1>12. CASE until # c
  <2>1. cl = extended
    BY <1>1, <1>12
  <2>2. /\ IsRing(extended) /\ extended.w = until /\ extended.r = until /\ extended.ready = closed.ready
        /\ \A i \in Slots : extended.slots[i] = IF i \in InRing(w, until)
                                                THEN Silence ELSE closed.slots[i]
    <3> DEFINE gone == InRing(w, until)
    <3>1. IsRing(closed)
      BY <1>7
    <3> HIDE DEF gone
    <3>2. LET e == Reset(Silenced(closed, gone), until)
          IN  /\ IsRing(e) /\ e.w = until /\ e.r = until /\ e.ready = closed.ready
              /\ \A i \in Slots : e.slots[i] = IF i \in gone THEN Silence ELSE closed.slots[i]
      BY <3>1, ExtendedFacts
    <3>3. QED
      BY <3>2 DEF gone
  <2>3. c = w /\ w1 = until /\ until > w
    BY <1>3, <1>12
  <2>4. closed.r = w
    <3> HIDE DEF w
    <3>1. QED
      BY <1>2, <1>6, <1>9, <2>3
  <2>5. InRing(w, until) = {At(t) : t \in w .. until - 1}
    <3> HIDE DEF w
    <3>1. QED
      BY <1>2, <2>3, InRingIs
  <2>6. \A t \in Int : w - Size <= t /\ t < w => closed.slots[At(t)] \in Due(t)
    BY <1>8, <1>9, <2>4 DEF Sound
  <2> HIDE DEF extended, w
  <2>7. ASSUME NEW t \in Int, w <= t, t < until
        PROVE  extended.slots[At(t)] = Silence
    <3>1. At(t) \in InRing(w, until) /\ At(t) \in Slots
      BY <1>2, <2>5, <2>7, AtSlot
    <3>2. QED
      BY <2>2, <3>1
  <2>8. ASSUME NEW t \in Int, until - Size <= t, t < until
        PROVE  extended.slots[At(t)] \in Due(t)
    <3>1. CASE t < w
      <4>1. w - Size <= t /\ At(t) \in Slots
        BY <1>2, <2>3, <2>8, AtSlot
      <4>2. QED
        BY <2>2, <2>6, <2>8, <3>1, <4>1, SilenceIsDue
    <3>2. CASE ~(t < w)
      BY <1>2, <2>7, <2>8, <3>2, SilenceIsDue
    <3>3. QED
      BY <3>1, <3>2
  <2>9. Sound(extended)
    <3>1. until <= until /\ \A t \in Int : ~(until <= t /\ t < until)
      OBVIOUS
    <3>2. QED
      BY <2>2, <2>8, <3>1 DEF Sound
  <2>10. ASSUME NEW q \in Int, Holds(closed, q), q >= until - Size
         PROVE  Holds(extended, q)
    <3>1. q < w /\ closed.slots[At(q)] # Silence /\ At(q) \in Slots
      BY <1>9, <2>10, AtSlot DEF Holds
    <3>2. ASSUME At(q) \in InRing(w, until) PROVE FALSE
      <4>1. PICK t \in w .. until - 1 : At(q) = At(t)
        BY <2>5, <3>2
      <4>2. t \in Int /\ q - t < Size /\ t - q < Size
        BY <1>2, <2>10, <3>1, <4>1
      <4>3. q = t
        BY <4>1, <4>2, AtNear
      <4>4. QED
        BY <1>2, <3>1, <4>1, <4>3
    <3>3. extended.slots[At(q)] # Silence
      BY <2>2, <3>1, <3>2
    <3>4. q < until /\ ~(q >= until)
      BY <1>2, <2>3, <3>1
    <3>5. QED
      BY <2>2, <3>3, <3>4 DEF Holds
  <2>11. \A i \in Slots : extended.slots[i] \in {rg.slots[i], Silence}
    BY <1>10, <2>2
  <2>12. \A q \in Int : Holds(rg, q) /\ q >= until - Size => Holds(extended, q)
    BY <1>2, <1>10, <2>3, <2>10
  <2>13. until >= r /\ until >= until
    BY <1>2, <2>3
  <2>14. QED
    BY <2>1, <2>2, <2>3, <2>7, <2>9, <2>11, <2>12, <2>13 DEF cl, w1, w
<1>13. QED
  BY <1>11, <1>12

-----------------------------------------------------------------------------
(* The invariant *)

\* Connecting waits for the start time, as the subscriber does.
NotTooEarly == ~ConnectEarly

\* A packet that comes as late as it may is not older than the ring, whichever
\* flow came before.
LatePacketsFit ==
    \A f, g \in Flows : MaxDelay + Latency[g] + Fpp <= Size + Latency[f]

\* What a flow of larger latency has written ahead is heard before the silence
\* that follows is over.
LatenciesAreNear ==
    \A f, g \in Flows : Latency[g] + Fpp <= Latency[f] + (Size \div 2)

\* The thread runs before the application gives a position up.
RunsInTime == MaxStall < Period

\* The position of the media clock.
Base == now - start

Numbers ==
    /\ now \in Nat /\ since \in 0 .. MaxStall
    /\ start = Unknown \/ start \in 0 .. now
    /\ startTimestamp \in {Unknown, start}
    /\ shift \in Int /\ silenceEnd \in Int
    /\ sink \in Flows \cup {NoFlow}
    /\ sink # NoFlow => silenceEnd = Unknown
    /\ IsWriting => startTimestamp # Unknown
    /\ sink # NoFlow => shift = Latency[sink] - start
    /\ IsRing(ring)

\* A packet is never late by more than MaxDelay.
OnTheirWay ==
    \A p \in net : /\ p.flow \in Flows
                   /\ p.ts \in 0 .. now /\ now - p.ts <= MaxDelay

\* How far the ring reaches ahead of the clock, and how far it lags behind.
Ahead ==
    IsWriting => /\ \E g \in Flows : ring.w <= Base + Latency[g] + Fpp
                 /\ ring.r >= Base - since

Heard == IsWriting => Sound(ring)

\* What a silence writer leaves behind.
Silencing ==
    silenceEnd # Unknown =>
        /\ \A t \in Int : /\ ring.w - Size <= t /\ t < ring.w
                          /\ silenceEnd - Size <= t
                          => ring.slots[At(t)] = Silence
        /\ \A q \in inTime : q < silenceEnd - Size

\* Without a sink and a silence writer there is nothing in the ring.
Quiet == ~IsWriting => inTime = {} /\ \A i \in Slots : ring.slots[i] = Silence

Kept == \A q \in inTime : /\ q \in Int /\ Base - Period <= q
                          /\ Holds(ring, q)

ReceiveInv == Numbers /\ OnTheirWay /\ Ahead /\ Heard /\ Silencing /\ Quiet /\ Kept

LEMMA Constants ==
    /\ MaxDelay \in Nat /\ MaxStall \in Nat /\ Period \in Nat /\ Epoch \in Nat
    /\ NoFlow \notin Flows
    /\ Size \div 2 \in Int
    /\ \A f \in Flows : Latency[f] \in Nat /\ Latency[f] + Fpp + Period <= Size
  BY ReceiveAssumption, SizeFacts

\* What IsRing, Sound and Holds say of the next ring.
LEMMA NextRing ==
    ASSUME NEW rg, ring' = rg
    PROVE  /\ IsRing(rg) => IsRing(ring)'
           /\ start' = start /\ Sound(rg) => Sound(ring)'
           /\ \A q : Holds(rg, q) => Holds(ring, q)'
<1>1. IsRing(rg) => IsRing(ring)'
  BY DEF IsRing
<1>2. start' = start /\ Sound(rg) => Sound(ring)'
  BY DEF Sound, Due
<1>3. \A q : Holds(rg, q) => Holds(ring, q)'
  BY DEF Holds
<1>4. QED
  BY <1>1, <1>2, <1>3

\* The invariant holds when the thread begins ...
LEMMA ReceiveInit == Init => ReceiveInv
<1> SUFFICES ASSUME Init PROVE ReceiveInv
  OBVIOUS
<1>1. ~IsWriting
  BY DEF Init, IsWriting
<1>2. IsRing(ring) /\ \A i \in Slots : ring.slots[i] = Silence
  BY DEF Init, NewRing, IsRing
<1>3. Numbers
  BY <1>1, <1>2, Constants DEF Init, Numbers, Unknown
<1>4. OnTheirWay /\ Kept /\ Quiet /\ Silencing
  BY <1>2 DEF Init, OnTheirWay, Kept, Quiet, Silencing
<1>5. Ahead /\ Heard
  BY <1>1 DEF Ahead, Heard
<1>6. QED
  BY <1>3, <1>4, <1>5 DEF ReceiveInv

\* The steps that leave the clock and the ring alone.
LEMMA BesideStep ==
    ASSUME ReceiveInv, OnTheirWay',
           UNCHANGED <<now, start, startTimestamp, sink, shift, silenceEnd, ring,
                       since, inTime>>
    PROVE  ReceiveInv'
<1>1. Numbers'
  BY DEF ReceiveInv, Numbers, IsWriting, IsRing
<1>2. Ahead' /\ Heard'
  BY NextRing DEF ReceiveInv, Ahead, Heard, IsWriting, Base
<1>3. Silencing' /\ Quiet'
  BY DEF ReceiveInv, Silencing, Quiet, IsWriting
<1>4. Kept'
  BY NextRing DEF ReceiveInv, Kept, Base
<1>5. QED
  BY <1>1, <1>2, <1>3, <1>4 DEF ReceiveInv

LEMMA TransmitStep ==
    ASSUME ReceiveInv, NEW f \in Flows, Transmit(f)
    PROVE  ReceiveInv'
<1>1. OnTheirWay'
  <2>1. \A p \in net : p.flow \in Flows /\ p.ts \in 0 .. now /\ now - p.ts <= MaxDelay
    BY DEF ReceiveInv, OnTheirWay
  <2>2. now \in 0 .. now /\ now - now <= MaxDelay
    BY Constants DEF ReceiveInv, Numbers
  <2>3. now' = now /\ net' = net \cup {[flow |-> f, ts |-> now]}
    BY DEF Transmit
  <2>4. QED
    BY <2>1, <2>2, <2>3 DEF OnTheirWay
<1>2. QED
  BY <1>1, BesideStep DEF Transmit

LEMMA SocketStep ==
    ASSUME ReceiveInv, NEW f \in Flows, AddSocket(f) \/ RemoveSocket(f)
    PROVE  ReceiveInv'
<1>1. OnTheirWay'
  BY DEF ReceiveInv, OnTheirWay, AddSocket, RemoveSocket
<1>2. QED
  BY <1>1, BesideStep DEF AddSocket, RemoveSocket

LEMMA StartStep ==
    ASSUME ReceiveInv, SendStartTime
    PROVE  ReceiveInv'
<1>1. ~IsWriting
  BY DEF ReceiveInv, Numbers, SendStartTime, Unknown
<1>2. ~IsWriting' /\ startTimestamp = Unknown /\ sink = NoFlow /\ silenceEnd = Unknown
  BY <1>1 DEF SendStartTime, ReceiveInv, Numbers, IsWriting
<1>3. Numbers'
  <2>1. now \in Nat /\ now' = now /\ start' = now /\ startTimestamp' = startTimestamp
    BY DEF ReceiveInv, Numbers, SendStartTime
  <2>2. start' \in 0 .. now'
    BY <2>1
  <2>3. /\ since' \in 0 .. MaxStall /\ shift' \in Int /\ silenceEnd' \in Int
        /\ sink' \in Flows \cup {NoFlow} /\ sink' = NoFlow /\ IsRing(ring)'
    BY <1>2, NextRing DEF ReceiveInv, Numbers, SendStartTime
  <2>4. QED
    BY <1>2, <2>1, <2>2, <2>3 DEF Numbers
<1>4. inTime' = {} /\ ring' = ring /\ \A i \in Slots : ring.slots[i] = Silence
  BY <1>1 DEF ReceiveInv, Quiet, SendStartTime
<1>5. silenceEnd' = Unknown /\ OnTheirWay'
  BY <1>2 DEF ReceiveInv, OnTheirWay, SendStartTime
<1>6. QED
  BY <1>2, <1>3, <1>4, <1>5 DEF ReceiveInv, Ahead, Heard, Silencing, Quiet, Kept

\* The clock goes on: the thread is late by as much.
LEMMA TickStep ==
    ASSUME ReceiveInv, Tick
    PROVE  ReceiveInv'
<1>1. /\ now \in Nat /\ now' = now + 1 /\ since \in 0 .. MaxStall
      /\ UNCHANGED <<start, startTimestamp, sink, shift, silenceEnd, ring>>
      /\ IsWriting => since < MaxStall /\ since' = since + 1
      /\ ~IsWriting => since' = 0
      /\ IsWriting' <=> IsWriting
  BY DEF ReceiveInv, Numbers, Tick, IsWriting
<1>2. start \in Int /\ (start = Unknown \/ start \in 0 .. now')
  BY <1>1 DEF ReceiveInv, Numbers, Unknown
<1>3. Numbers'
  <2>1. since' \in 0 .. MaxStall /\ now' \in Nat
    BY <1>1, Constants
  <2>2. QED
    BY <1>1, <1>2, <2>1, NextRing DEF ReceiveInv, Numbers
<1>4. OnTheirWay'
  <2>1. ASSUME NEW p \in net'
        PROVE  p.flow \in Flows /\ p.ts \in 0 .. now' /\ now' - p.ts <= MaxDelay
    BY <1>1, <2>1 DEF ReceiveInv, OnTheirWay, Tick
  <2>2. QED
    BY <2>1 DEF OnTheirWay
<1>5. Ahead'
  <2> SUFFICES ASSUME IsWriting' PROVE (\E g \in Flows : ring.w <= Base + Latency[g] + Fpp)'
                                       /\ (ring.r >= Base - since)'
    BY DEF Ahead
  <2>1. PICK g \in Flows : ring.w <= Base + Latency[g] + Fpp
    BY <1>1 DEF ReceiveInv, Ahead
  <2>2. ring.w \in Int /\ ring.r \in Int /\ ring.r >= Base - since
    BY <1>1 DEF ReceiveInv, Ahead, Numbers, IsRing
  <2>3. ring.w <= (now' - start) + Latency[g] + Fpp
    BY <1>1, <1>2, <2>1, <2>2, Constants, FppFacts DEF Base
  <2>4. ring.r >= (now' - start) - since'
    BY <1>1, <1>2, <2>2, Constants DEF Base
  <2>5. QED
    BY <1>1, <2>3, <2>4 DEF Base
<1>6. Heard'
  BY <1>1, NextRing DEF ReceiveInv, Heard
<1>7. Silencing' /\ Quiet'
  <2>1. inTime' \subseteq inTime
    BY DEF Tick
  <2>2. Silencing'
    BY <1>1, <2>1 DEF ReceiveInv, Silencing
  <2>3. Quiet'
    BY <1>1, <2>1 DEF ReceiveInv, Quiet
  <2>4. QED
    BY <2>2, <2>3
<1>8. Kept'
  <2>1. ASSUME NEW q \in inTime'
        PROVE  q \in Int /\ (Base - Period)' <= q /\ Holds(ring, q)'
    <3>1. q \in inTime /\ q >= now' - start - Period
      BY <2>1 DEF Tick
    <3>2. q \in Int /\ Holds(ring, q)
      BY <3>1 DEF ReceiveInv, Kept
    <3>3. QED
      BY <1>1, <1>2, <3>1, <3>2, NextRing, Constants DEF Base
  <2>2. QED
    BY <2>1 DEF Kept
<1>9. QED
  BY <1>3, <1>4, <1>5, <1>6, <1>7, <1>8 DEF ReceiveInv

\* With the start time known the thread's copy is the application's.
LEMMA Writing ==
    ASSUME Numbers, startTimestamp # Unknown
    PROVE  /\ startTimestamp = start /\ start \in 0 .. now /\ start # Unknown
           /\ StartOrZero = start /\ Base \in Int /\ now \in Nat /\ start \in Int
           /\ since \in 0 .. MaxStall
<1>1. startTimestamp = start /\ start \in 0 .. now
  BY DEF Numbers
<1>2. QED
  BY <1>1 DEF StartOrZero, Base, Numbers

\* The ring's window, while it is written.
LEMMA Window ==
    ASSUME RunsInTime, Numbers, Ahead, IsWriting
    PROVE  /\ ring.w \in Int /\ ring.r \in Int
           /\ ring.r >= Base - since /\ ring.r >= Base - MaxStall
           /\ ring.w - ring.r <= Size
           /\ ring.w <= Base - Period + Size
<1>1. Base \in Int /\ since \in 0 .. MaxStall
  BY Writing DEF Numbers
<1>2. ring.w \in Int /\ ring.r \in Int
  BY DEF Numbers, IsRing
<1>3. ring.r >= Base - since
  BY DEF Ahead
<1>4. PICK g \in Flows : ring.w <= Base + Latency[g] + Fpp
  BY DEF Ahead
<1>5. Latency[g] \in Nat /\ Latency[g] + Fpp + Period <= Size
  BY Constants
<1>6. QED
  BY <1>1, <1>2, <1>3, <1>4, <1>5, Constants, FppFacts, SizeFacts DEF RunsInTime

\* A sink goes on where a silence writer is, or begins ahead of the clock in a
\* ring that is silent.
LEMMA ConnectStep ==
    ASSUME NotTooEarly, ReceiveInv, NEW f \in Flows, ConnectChannel(f)
    PROVE  ReceiveInv'
<1>1. /\ startTimestamp # Unknown /\ sink = NoFlow /\ f # NoFlow
      /\ UNCHANGED <<now, net, start, startTimestamp, since, inTime>>
      /\ sink' = f /\ shift' = Latency[f] - StartOrZero /\ silenceEnd' = Unknown
      /\ ring' = ConnectedRing(f)
  BY Constants DEF ConnectChannel, NotTooEarly
<1>2. /\ startTimestamp = start /\ start \in 0 .. now /\ StartOrZero = start
      /\ Base \in Int /\ now \in Nat /\ start \in Int /\ since \in 0 .. MaxStall
  BY <1>1, Writing DEF ReceiveInv
<1>3. Latency[f] \in Nat /\ now + Latency[f] - start \in Int
      /\ now + Latency[f] - start = Base + Latency[f]
  BY <1>2, Constants DEF Base
<1>4. IsWriting' /\ Base' = Base /\ OnTheirWay'
  BY <1>1 DEF IsWriting, ReceiveInv, OnTheirWay, Base
<1>5. ASSUME IsRing(ring)'
      PROVE  Numbers'
  <2>1. shift' \in Int /\ shift' = Latency[sink'] - start'
    BY <1>1, <1>2, <1>3
  <2>2. silenceEnd' \in Int
    BY <1>1 DEF Unknown
  <2>3. QED
    BY <1>1, <1>2, <1>5, <2>1, <2>2 DEF Numbers
<1>6. CASE silenceEnd # Unknown
  <2>1. ring' = ring /\ IsWriting
    BY <1>1, <1>6 DEF ConnectedRing, IsWriting
  <2>2. IsRing(ring)' /\ Heard' /\ Kept'
    BY <1>1, <1>4, <2>1, NextRing DEF ReceiveInv, Numbers, Heard, Kept
  <2>3. Ahead'
    BY <1>1, <1>4, <2>1 DEF ReceiveInv, Ahead
  <2>4. Silencing' /\ Quiet'
    BY <1>1, <1>4 DEF Silencing, Quiet
  <2>5. QED
    BY <1>4, <1>5, <2>2, <2>3, <2>4 DEF ReceiveInv
<1>7. CASE silenceEnd = Unknown
  <2> DEFINE at == Base + Latency[f]
             re == Reset(ring, at)
             rg == WithNewInput(re)
  <2>1. ~IsWriting
    BY <1>1, <1>7 DEF IsWriting
  <2>2. IsRing(ring) /\ inTime = {} /\ \A i \in Slots : ring.slots[i] = Silence
    BY <2>1 DEF ReceiveInv, Numbers, Quiet
  <2>3. at \in Int
    BY <1>2, <1>3
  <2>4. ring' = rg
    BY <1>1, <1>2, <1>3, <1>7 DEF ConnectedRing
  <2> HIDE DEF at
  <2>5. IsRing(re) /\ re.w = at /\ re.r = at /\ re.slots = ring.slots
    BY <2>2, <2>3, PlacedFacts
  <2> HIDE DEF re
  <2>6. rg = [w |-> re.w, r |-> re.r, slots |-> re.slots, ready |-> {}]
    BY <2>5 DEF WithNewInput, IsRing
  <2> HIDE DEF rg
  <2>7. /\ IsRing(rg) /\ rg.w = at /\ rg.r = at
        /\ \A i \in Slots : rg.slots[i] = Silence
    BY <2>2, <2>5, <2>6 DEF IsRing
  <2>8. Sound(rg)
    <3>1. \A t \in Int : rg.slots[At(t)] \in Due(t)
      BY <2>7, AtSlot, SilenceIsDue
    <3>2. rg.r <= rg.w /\ \A t \in Int : ~(rg.r <= t /\ t < rg.w)
      BY <2>3, <2>7
    <3>3. QED
      BY <3>1, <3>2 DEF Sound
  <2>9. IsRing(ring)' /\ Sound(ring)'
    BY <1>1, <2>4, <2>7, <2>8, NextRing
  <2>10. Ahead'
    <3>1. at <= Base + Latency[f] + Fpp /\ at >= Base - since
      BY <1>2, <1>3, FppFacts DEF at
    <3>2. QED
      BY <1>1, <1>4, <2>4, <2>7, <3>1 DEF Ahead
  <2>11. Silencing' /\ Quiet' /\ Kept' /\ Heard'
    BY <1>1, <1>4, <2>2, <2>9 DEF Silencing, Quiet, Kept, Heard
  <2>12. QED
    BY <1>4, <1>5, <2>9, <2>10, <2>11 DEF ReceiveInv
<1>8. QED
  BY <1>6, <1>7

\* A silence writer begins behind all that was written.
LEMMA DisconnectStep ==
    ASSUME LatenciesAreNear, RunsInTime, ReceiveInv, NEW f \in Flows, DisconnectChannel(f)
    PROVE  ReceiveInv'
<1> DEFINE end == EndOfSilence
<1>1. /\ sink = f /\ sink' = NoFlow /\ f # NoFlow /\ silenceEnd' = end
      /\ UNCHANGED <<now, net, start, startTimestamp, shift, ring, since, inTime>>
  BY Constants DEF DisconnectChannel
<1>2. IsWriting
  BY <1>1 DEF IsWriting
<1>3. shift = Latency[f] - start /\ startTimestamp # Unknown
  BY <1>1, <1>2 DEF ReceiveInv, Numbers
<1>4. start \in 0 .. now /\ Base \in Int /\ now \in Nat
  BY <1>3, Writing DEF ReceiveInv
<1>5. end \in Int /\ end - Size = Base + Latency[f] + (Size \div 2) /\ end # Unknown
  BY <1>3, <1>4, Constants, SizeFacts DEF EndOfSilence, Base, Unknown
<1> HIDE DEF end
<1>6. IsWriting' /\ Base' = Base /\ OnTheirWay'
  BY <1>1, <1>5 DEF IsWriting, ReceiveInv, OnTheirWay, Base
<1>7. Numbers'
  BY <1>1, <1>3, <1>5, NextRing DEF ReceiveInv, Numbers
<1>8. Ahead'
  BY <1>1, <1>2, <1>6 DEF ReceiveInv, Ahead
<1>9. Heard' /\ Kept' /\ Quiet'
  BY <1>1, <1>2, <1>6, NextRing DEF ReceiveInv, Heard, Kept, Quiet
<1>10. Silencing'
  <2>1. PICK g \in Flows : ring.w <= Base + Latency[g] + Fpp
    BY <1>2 DEF ReceiveInv, Ahead
  <2>2. Latency[g] + Fpp <= Latency[f] + (Size \div 2)
    BY DEF LatenciesAreNear
  <2>3. ring.w \in Int
    BY DEF ReceiveInv, Numbers, IsRing
  <2>4. ring.w <= end - Size
    BY <1>4, <1>5, <2>1, <2>2, <2>3, Constants, FppFacts
  <2>5. \A q \in inTime : q \in Int /\ q < ring.w
    BY DEF ReceiveInv, Kept, Holds
  <2>6. \A q \in inTime : q < end - Size
    BY <1>5, <2>3, <2>4, <2>5, SizeFacts
  <2>7. \A t \in Int : ~(t < ring.w /\ end - Size <= t)
    BY <1>5, <2>3, <2>4, SizeFacts
  <2>8. QED
    BY <1>1, <2>6, <2>7 DEF Silencing
<1>11. QED
  BY <1>6, <1>7, <1>8, <1>9, <1>10 DEF ReceiveInv

\* The samples of a packet are due where they are written.
LEMMA SamplesAreDue ==
    ASSUME NEW p, p.ts \in Nat, NEW g \in Flows, start \in Int, Fpp \in Nat, NEW at \in Int,
           at = p.ts + (Latency[g] - start)
    PROVE  /\ Len(Samples(p)) = Fpp
           /\ \A t \in at .. (at + Fpp) - 1 : Samples(p)[1 + (t - at)] \in Due(t) \ {Silence}
<1>1. Len(Samples(p)) = Fpp
  BY DEF Samples
<1>2. ASSUME NEW t \in at .. (at + Fpp) - 1
      PROVE  Samples(p)[1 + (t - at)] \in Due(t) \ {Silence}
  <2>1. 1 + (t - at) \in 1 .. Fpp /\ Latency[g] \in Nat
    BY <1>2, Constants
  <2>2. Samples(p)[1 + (t - at)] = (p.ts + (1 + (t - at))) - 1
    BY <2>1 DEF Samples
  <2>3. Samples(p)[1 + (t - at)] = (t + start) - Latency[g]
    BY <1>2, <2>1, <2>2
  <2>4. Samples(p)[1 + (t - at)] \in Nat
    BY <2>1, <2>2
  <2>5. Samples(p)[1 + (t - at)] # Silence
    BY <2>4 DEF Silence
  <2>6. t + (start - Latency[g]) \in Due(t)
    BY DEF Due
  <2>7. QED
    BY <1>2, <2>1, <2>3, <2>5, <2>6
<1>3. QED
  BY <1>1, <1>2

\* A packet.
LEMMA ReceiveStep ==
    ASSUME LatePacketsFit, RunsInTime, ReceiveInv, NEW p \in net, Receive(p)
    PROVE  ReceiveInv'
<1> DEFINE at == p.ts + shift'
           written == sink = p.flow /\ startTimestamp' # Unknown
           wr == WriteFromAt(ring, at, Samples(p))
           w1 == Larger(ring.w, at + Fpp)
<1>1. /\ UNCHANGED <<now, start, sink, silenceEnd, since>>
      /\ net' \subseteq net
      /\ ring' = IF written THEN wr ELSE ring
      /\ inTime' = IF written THEN inTime \cup {q \in at .. at + Fpp - 1 : q >= now - start}
                   ELSE inTime
      /\ TakesStartTime
  BY DEF Receive
<1>2. /\ shift' = shift /\ startTimestamp' \in {startTimestamp, start}
      /\ startTimestamp # Unknown => startTimestamp' = startTimestamp
  BY <1>1 DEF TakesStartTime, ReceiveInv, Numbers, IsWriting
<1>3. (IsWriting' <=> IsWriting) /\ Base' = Base
  BY <1>1 DEF IsWriting, Base
<1>4. p.flow \in Flows /\ p.ts \in 0 .. now /\ now - p.ts <= MaxDelay
  BY DEF ReceiveInv, OnTheirWay
<1>5. OnTheirWay'
  BY <1>1 DEF ReceiveInv, OnTheirWay
<1>6. ASSUME IsRing(ring)'
      PROVE  Numbers'
  BY <1>1, <1>2, <1>3, <1>6 DEF ReceiveInv, Numbers
<1> HIDE DEF wr, w1
<1>7. CASE ~written
  <2>1. ring' = ring /\ inTime' = inTime
    BY <1>1, <1>7
  <2>2. IsRing(ring)' /\ Heard' /\ Kept'
    BY <1>1, <1>3, <2>1, NextRing DEF ReceiveInv, Numbers, Heard, Kept
  <2>3. Ahead'
    BY <1>1, <1>3, <2>1 DEF ReceiveInv, Ahead
  <2>4. Silencing' /\ Quiet'
    BY <1>1, <1>3, <2>1 DEF ReceiveInv, Silencing, Quiet
  <2>5. QED
    BY <1>5, <1>6, <2>2, <2>3, <2>4 DEF ReceiveInv
<1>8. CASE written
  <2>1. /\ sink \in Flows /\ sink # NoFlow /\ sink = p.flow /\ IsWriting /\ silenceEnd = Unknown
        /\ startTimestamp # Unknown /\ shift = Latency[sink] - start
    BY <1>4, <1>8, Constants DEF ReceiveInv, Numbers, IsWriting
  <2>2. start \in 0 .. now /\ Base \in Int /\ now \in Nat /\ start \in Int /\ since \in 0 .. MaxStall
    BY <2>1, Writing DEF ReceiveInv
  <2>3. /\ ring.w \in Int /\ ring.r \in Int
        /\ ring.r >= Base - since /\ ring.r >= Base - MaxStall
        /\ ring.w <= Base - Period + Size
    BY <2>1, Window DEF ReceiveInv
  <2>4. Latency[sink] \in Nat /\ Latency[sink] + Fpp + Period <= Size
    BY <2>1, Constants
  <2>5. /\ at \in Int /\ at = p.ts + (Latency[sink] - start)
        /\ at >= (Base - MaxDelay) + Latency[sink] /\ at <= Base + Latency[sink]
    BY <1>2, <1>4, <2>1, <2>2, <2>4, Constants DEF Base
  <2>6. Len(Samples(p)) = Fpp
        /\ \A t \in at .. (at + Fpp) - 1 : Samples(p)[1 + (t - at)] \in Due(t) \ {Silence}
    <3> HIDE DEF at
    <3>1. p.ts \in Nat /\ Fpp \in Nat
      BY <1>4, <2>2, FppFacts
    <3>2. QED
      BY <2>1, <2>2, <2>5, <3>1, SamplesAreDue
  <2> HIDE DEF at
  <2>7. PICK g \in Flows : ring.w <= Base + Latency[g] + Fpp
    BY <2>1 DEF ReceiveInv, Ahead
  <2>8. Latency[g] \in Nat /\ MaxDelay + Latency[g] + Fpp <= Size + Latency[sink]
    BY <2>1, <2>7, Constants DEF LatePacketsFit
  <2>9. /\ w1 \in Int /\ w1 = (IF ring.w > at + Fpp THEN ring.w ELSE at + Fpp)
    BY <2>3, <2>5, FppFacts DEF w1, Larger
  <2>10. /\ w1 - ring.r <= Size /\ at >= w1 - Size /\ w1 <= Base - Period + Size
    BY <2>2, <2>3, <2>4, <2>5, <2>7, <2>8, <2>9, Constants, FppFacts, SizeFacts DEF RunsInTime
  <2>11. \E h \in Flows : w1 <= Base + Latency[h] + Fpp
    <3>1. w1 <= Base + Latency[g] + Fpp \/ w1 <= Base + Latency[sink] + Fpp
      BY <2>2, <2>3, <2>4, <2>5, <2>7, <2>8, <2>9, FppFacts
    <3>2. QED
      BY <2>1, <2>7, <3>1
  <2>12. IsRing(ring) /\ Sound(ring)
    BY <2>1 DEF ReceiveInv, Numbers, Heard
  <2>13. /\ IsRing(wr) /\ Sound(wr)
         /\ wr.w = w1 /\ wr.r >= ring.r
         /\ \A q \in Int : Holds(ring, q) /\ q >= w1 - Size => Holds(wr, q)
         /\ \A q \in at .. (at + Fpp) - 1 : Holds(wr, q)
    BY <2>5, <2>6, <2>10, <2>12, WriteSound DEF wr, w1
  <2>14. ring' = wr /\ inTime' = inTime \cup {q \in at .. at + Fpp - 1 : q >= now - start}
    BY <1>1, <1>8
  <2>15. /\ IsRing(ring)' /\ Sound(ring)'
         /\ \A q : Holds(wr, q) => Holds(ring, q)'
    BY <1>1, <2>13, <2>14, NextRing
  <2>16. Ahead'
    <3>1. wr.r \in Int /\ wr.r >= Base - since
      BY <2>2, <2>3, <2>13 DEF IsRing
    <3>2. QED
      BY <1>1, <1>3, <2>11, <2>13, <2>14, <3>1 DEF Ahead
  <2>17. Kept'
    <3>1. ASSUME NEW q \in inTime
          PROVE  q \in Int /\ Base - Period <= q /\ Holds(wr, q)
      <4>1. q \in Int /\ Base - Period <= q /\ Holds(ring, q)
        BY <3>1 DEF ReceiveInv, Kept
      <4>2. q >= w1 - Size
        BY <2>2, <2>9, <2>10, <4>1, SizeFacts, Constants
      <4>3. QED
        BY <2>13, <4>1, <4>2
    <3>2. ASSUME NEW q \in at .. at + Fpp - 1, q >= now - start
          PROVE  q \in Int /\ Base - Period <= q /\ Holds(wr, q)
      <4>1. q \in Int /\ Base - Period <= q /\ q \in at .. (at + Fpp) - 1
        BY <2>2, <2>5, <3>2, FppFacts, Constants DEF Base
      <4>2. QED
        BY <2>13, <4>1
    <3>3. \A q \in inTime' : q \in Int /\ Base - Period <= q /\ Holds(wr, q)
      BY <2>14, <3>1, <3>2
    <3>4. QED
      BY <1>3, <2>15, <3>3 DEF Kept
  <2>18. Heard' /\ Silencing' /\ Quiet'
    BY <1>1, <1>3, <2>1, <2>15 DEF Heard, Silencing, Quiet
  <2>19. QED
    BY <1>5, <1>6, <2>15, <2>16, <2>17, <2>18 DEF ReceiveInv
<1>9. QED
  BY <1>7, <1>8

\* Every slot is that of a position of the ring's window.
LEMMA WindowIsAll ==
    ASSUME NEW w \in Int, NEW i \in Slots
    PROVE  \E t \in Int : w - Size <= t /\ t < w /\ At(t) = i
<1> DEFINE b == w - Size
           k == (i - b) % Size
           q == (i - b) \div Size
<1>1. b \in Int /\ i \in Int /\ i \in 0 .. Size - 1
  BY SizeFacts DEF Slots
<1>2. q \in Int /\ i - b = Size * q + k /\ k \in 0 .. Size - 1
  <2> HIDE DEF b
  <2>1. i - b \in Int
    BY <1>1
  <2>2. QED
    BY <2>1, Division DEF Slots
<1> HIDE DEF k, q
<1> DEFINE t == b + k
           j == At(t)
           p == t \div Size
<1>3. t \in Int /\ w - Size <= t /\ t < w /\ t = i - Size * q
  BY <1>1, <1>2, SizeFacts
<1> HIDE DEF t, b
<1>4. p \in Int /\ t = Size * p + j /\ j \in 0 .. Size - 1
  BY <1>3, Division DEF At, Slots
<1> HIDE DEF j, p
<1>5. i - j = Size * p + Size * q /\ Size * p + Size * q = Size * (p + q)
  BY <1>1, <1>2, <1>3, <1>4, SizeFacts
<1>6. i - j = 0
  BY <1>1, <1>2, <1>4, <1>5, WholeRings, SizeFacts
<1>7. At(t) = i
  BY <1>1, <1>4, <1>6, SizeFacts DEF j
<1>8. QED
  BY <1>3, <1>7

\* A tick, and with it the end of a silence writer that has gone round.
LEMMA CloseStep ==
    ASSUME RunsInTime, ReceiveInv, CloseItems
    PROVE  ReceiveInv'
<1> DEFINE cl == CloseItemsUntil(ring, Base)
           w1 == Larger(ring.w, Base)
<1>1. IsWriting /\ startTimestamp # Unknown
  BY DEF CloseItems, ReceiveInv, Numbers
<1>2. /\ start \in 0 .. now /\ Base \in Int /\ now \in Nat /\ start \in Int
      /\ since \in 0 .. MaxStall /\ StartOrZero = start
  BY <1>1, Writing DEF ReceiveInv
<1>3. /\ ring' = cl /\ since' = 0
      /\ silenceEnd' = IF silenceEnd # Unknown /\ Base >= silenceEnd THEN Unknown ELSE silenceEnd
      /\ UNCHANGED <<now, net, start, startTimestamp, sink, shift, inTime>>
  BY <1>1, <1>2 DEF CloseItems, CloseUntil, Base
<1>4. /\ ring.w \in Int /\ ring.r \in Int
      /\ ring.r >= Base - since /\ ring.r >= Base - MaxStall
      /\ ring.w - ring.r <= Size
      /\ ring.w <= Base - Period + Size
  BY <1>1, Window DEF ReceiveInv
<1>5. IsRing(ring) /\ Sound(ring) /\ ring.r <= ring.w
  BY <1>1 DEF ReceiveInv, Numbers, Heard, Sound
<1>6. Base - ring.w <= Size
  <2>1. PICK g \in Flows : Latency[g] \in Nat /\ Latency[g] + Fpp + Period <= Size
    BY <1>1, Constants DEF ReceiveInv, Ahead
  <2>2. QED
    BY <1>2, <1>4, <1>5, <2>1, Constants, FppFacts, SizeFacts DEF RunsInTime
<1>7. /\ IsRing(cl) /\ Sound(cl)
      /\ cl.w = w1 /\ cl.r >= ring.r /\ cl.r >= Base
      /\ \A q \in Int : Holds(ring, q) /\ q >= w1 - Size => Holds(cl, q)
      /\ \A t \in Int : ring.w <= t /\ t < Base => cl.slots[At(t)] = Silence
      /\ \A i \in Slots : cl.slots[i] \in {ring.slots[i], Silence}
  BY <1>2, <1>4, <1>5, <1>6, CloseSound
<1>8. w1 \in Int /\ w1 = (IF ring.w > Base THEN ring.w ELSE Base) /\ w1 >= ring.w /\ w1 >= Base
      /\ w1 <= (Base - Period) + Size
  <2>1. w1 = (IF ring.w > Base THEN ring.w ELSE Base)
    BY DEF Larger
  <2>2. \E g \in Flows : Latency[g] \in Nat /\ Latency[g] + Fpp + Period <= Size
    BY <1>1, Constants DEF ReceiveInv, Ahead
  <2> HIDE DEF w1
  <2>3. QED
    BY <1>2, <1>4, <2>1, <2>2, FppFacts, SizeFacts, Constants
<1> HIDE DEF cl, w1
<1>9. OnTheirWay' /\ Base' = Base
  BY <1>3 DEF ReceiveInv, OnTheirWay, Base
<1>10. IsRing(ring)' /\ Sound(ring)' /\ \A q : Holds(cl, q) => Holds(ring, q)'
  BY <1>3, <1>7, NextRing
<1>11. Numbers'
  <2>1. since' \in 0 .. MaxStall /\ silenceEnd' \in Int /\ silenceEnd' \in {silenceEnd, Unknown}
    BY <1>3, Constants DEF ReceiveInv, Numbers, Unknown
  <2>2. QED
    BY <1>1, <1>3, <1>10, <2>1 DEF ReceiveInv, Numbers, IsWriting
<1>12. Ahead'
  <2>1. PICK g \in Flows : ring.w <= Base + Latency[g] + Fpp
    BY <1>1 DEF ReceiveInv, Ahead
  <2>2. w1 <= Base + Latency[g] + Fpp
    BY <1>2, <1>4, <1>8, <2>1, Constants, FppFacts
  <2>3. cl.r >= Base - 0
    BY <1>2, <1>7
  <2>4. QED
    BY <1>3, <1>7, <1>9, <2>2, <2>3 DEF Ahead
<1>13. Heard'
  BY <1>10 DEF Heard
<1>14. ASSUME NEW q \in inTime
       PROVE  q \in Int /\ Base - Period <= q /\ Holds(cl, q)
  <2>1. q \in Int /\ Base - Period <= q /\ Holds(ring, q)
    BY <1>14 DEF ReceiveInv, Kept
  <2>2. q >= w1 - Size
    BY <1>2, <1>8, <2>1, Constants, SizeFacts
  <2>3. QED
    BY <1>7, <2>1, <2>2
<1>15. Kept'
  BY <1>3, <1>9, <1>10, <1>14 DEF Kept
\* A silence writer has silenced what it has passed.
<1>16. ASSUME silenceEnd # Unknown, NEW t \in Int,
              w1 - Size <= t, t < w1, silenceEnd - Size <= t
       PROVE  cl.slots[At(t)] = Silence
  <2>1. CASE t < ring.w
    <3>1. ring.w - Size <= t /\ At(t) \in Slots
      BY <1>4, <1>8, <1>16, SizeFacts, AtSlot
    <3>2. ring.slots[At(t)] = Silence
      BY <1>16, <2>1, <3>1 DEF ReceiveInv, Silencing
    <3>3. QED
      BY <1>7, <3>1, <3>2
  <2>2. CASE ~(t < ring.w)
    <3>1. ring.w <= t /\ t < Base
      BY <1>2, <1>4, <1>8, <1>16, <2>2
    <3>2. QED
      BY <1>7, <3>1
  <2>3. QED
    BY <2>1, <2>2
<1>17. Silencing'
  <2>1. silenceEnd' # Unknown => silenceEnd # Unknown /\ silenceEnd' = silenceEnd
    BY <1>3
  <2>2. silenceEnd # Unknown => \A q \in inTime : q < silenceEnd - Size
    BY DEF ReceiveInv, Silencing
  <2>3. QED
    BY <1>3, <1>7, <1>16, <2>1, <2>2 DEF Silencing
<1>18. Quiet'
  <2> SUFFICES ASSUME ~IsWriting' PROVE (inTime = {} /\ \A i \in Slots : ring.slots[i] = Silence)'
    BY DEF Quiet
  <2>1. silenceEnd # Unknown /\ Base >= silenceEnd /\ silenceEnd \in Int
    BY <1>1, <1>3 DEF IsWriting, ReceiveInv, Numbers
  <2>2. ASSUME NEW q \in inTime PROVE FALSE
    <3>1. q < silenceEnd - Size
      BY <2>1 DEF ReceiveInv, Silencing
    <3>2. Period <= Size
      <4>1. \E g \in Flows : Latency[g] \in Nat /\ Latency[g] + Fpp + Period <= Size
        BY <1>1, Constants DEF ReceiveInv, Ahead
      <4>2. QED
        BY <4>1, FppFacts, SizeFacts, Constants
    <3>3. QED
      BY <1>2, <1>14, <2>1, <2>2, <3>1, <3>2, SizeFacts, Constants
  <2>3. ASSUME NEW i \in Slots PROVE cl.slots[i] = Silence
    <3>1. PICK t \in Int : w1 - Size <= t /\ t < w1 /\ At(t) = i
      BY <1>8, WindowIsAll
    <3>2. silenceEnd - Size <= t
      BY <1>2, <1>8, <2>1, <3>1, SizeFacts
    <3>3. QED
      BY <1>16, <2>1, <3>1, <3>2
  <2>4. QED
    BY <1>3, <2>2, <2>3
<1>19. QED
  BY <1>9, <1>11, <1>12, <1>13, <1>15, <1>17, <1>18 DEF ReceiveInv

\* ... and every step keeps it.
LEMMA ReceiveNext ==
    ASSUME NotTooEarly, LatePacketsFit, LatenciesAreNear, RunsInTime
    PROVE  ReceiveInv /\ [Next]_vars => ReceiveInv'
<1> SUFFICES ASSUME ReceiveInv, [Next]_vars PROVE ReceiveInv'
  OBVIOUS
<1>1. CASE UNCHANGED vars
  <2>1. OnTheirWay'
    BY <1>1 DEF vars, ReceiveInv, OnTheirWay
  <2>2. QED
    BY <1>1, <2>1, BesideStep DEF vars
<1>2. CASE Environment
  BY <1>2, TickStep, StartStep, TransmitStep DEF Environment
<1>3. CASE RxThread
  BY <1>3, ReceiveStep, SocketStep, ConnectStep, DisconnectStep, CloseStep DEF RxThread
<1>4. QED
  BY <1>1, <1>2, <1>3 DEF Next

-----------------------------------------------------------------------------
(* The theorems *)

\* A thread that runs too seldom leaves no position that must have come.
LEMMA NoneHasPassed ==
    ASSUME ~RunsInTime, now \in Nat, start \in Int
    PROVE  Passed = {}
  BY Constants DEF RunsInTime, Passed

\* Whether the thread runs in time or not.
LEMMA ClockNext ==
    /\ Init => now \in Nat /\ start \in Int
    /\ now \in Nat /\ start \in Int /\ [Next]_vars => (now \in Nat /\ start \in Int)'
<1>1. Init => now \in Nat /\ start \in Int
  BY Constants DEF Init, Unknown
<1>2. ASSUME now \in Nat, start \in Int, [Next]_vars
      PROVE  (now \in Nat /\ start \in Int)'
  <2>1. CASE Environment
    BY <1>2, <2>1 DEF Environment, Tick, SendStartTime, Transmit
  <2>2. CASE RxThread
    <3>1. UNCHANGED <<now, start>>
      BY <2>2 DEF RxThread, Receive, AddSocket, RemoveSocket, ConnectChannel,
                  DisconnectChannel, CloseItems
    <3>2. QED
      BY <1>2, <3>1
  <2>3. CASE UNCHANGED vars
    BY <1>2, <2>3 DEF vars
  <2>4. QED
    BY <1>2, <2>1, <2>2, <2>3 DEF Next
<1>3. QED
  BY <1>1, <1>2

LEMMA PassedIsWritten ==
    ASSUME RunsInTime, ReceiveInv, start # Unknown, IsWriting, NEW q \in Passed
    PROVE  q \in Int /\ ring.w - Size <= q /\ q < ring.r
<1>1. startTimestamp # Unknown /\ Numbers /\ Ahead
  BY DEF ReceiveInv, Numbers
<1>2. Base \in Int /\ since \in 0 .. MaxStall /\ now \in Nat /\ start \in Int
  BY <1>1, Writing
<1>3. ring.w \in Int /\ ring.r \in Int /\ ring.r >= Base - MaxStall /\ ring.w <= Base - Period + Size
  BY <1>1, Window
<1>4. q \in Int /\ q >= Base - Period /\ q < Base - MaxStall
  BY <1>2, Constants DEF Passed, Base
<1>5. QED
  BY <1>2, <1>3, <1>4, SizeFacts, Constants

\* A position that passes holds the sample that is due there or silence,
\* whatever the network, the thread and the connections did.
THEOREM StaleAudioIsNotHeard ==
    ASSUME NotTooEarly, LatePacketsFit, LatenciesAreNear
    PROVE  Spec => []HeardIsDue
<1>1. CASE RunsInTime
  <2>1. Init => ReceiveInv
    BY ReceiveInit
  <2>2. ReceiveInv /\ [Next]_vars => ReceiveInv'
    BY <1>1, ReceiveNext
  <2>3. ReceiveInv => HeardIsDue
    <3> SUFFICES ASSUME ReceiveInv, start # Unknown, NEW q \in Passed
                 PROVE  ring.slots[q % Size] \in Due(q)
      BY DEF HeardIsDue
    <3>1. CASE IsWriting
      <4>1. Sound(ring) /\ q \in Int /\ ring.w - Size <= q /\ q < ring.r
        BY <1>1, <3>1, PassedIsWritten DEF ReceiveInv, Heard
      <4>2. QED
        BY <4>1 DEF Sound, At
    <3>2. CASE ~IsWriting
      <4>1. q \in Int
        BY DEF Passed, ReceiveInv, Numbers, Unknown
      <4>2. At(q) \in Slots /\ ring.slots[At(q)] = Silence
        BY <3>2, <4>1, AtSlot DEF ReceiveInv, Quiet
      <4>3. QED
        BY <4>2, SilenceIsDue DEF At
    <3>3. QED
      BY <3>1, <3>2
  <2>4. QED
    BY <2>1, <2>2, <2>3, PTL DEF Spec
<1>2. CASE ~RunsInTime
  <2>1. now \in Nat /\ start \in Int => HeardIsDue
    BY <1>2, NoneHasPassed DEF HeardIsDue
  <2>2. QED
    BY <2>1, ClockNext, PTL DEF Spec
<1>3. QED
  BY <1>1, <1>2

\* A sample that was written before its time is heard.
THEOREM NothingIsErased ==
    ASSUME NotTooEarly, LatePacketsFit, LatenciesAreNear
    PROVE  Spec => []ArrivedIsHeard
<1>1. CASE RunsInTime
  <2>1. Init => ReceiveInv
    BY ReceiveInit
  <2>2. ReceiveInv /\ [Next]_vars => ReceiveInv'
    BY <1>1, ReceiveNext
  <2>3. ReceiveInv => ArrivedIsHeard
    BY DEF ReceiveInv, Kept, Holds, ArrivedIsHeard, At
  <2>4. QED
    BY <2>1, <2>2, <2>3, PTL DEF Spec
<1>2. CASE ~RunsInTime
  <2>1. now \in Nat /\ start \in Int => ArrivedIsHeard
    BY <1>2, NoneHasPassed DEF ArrivedIsHeard
  <2>2. QED
    BY <2>1, ClockNext, PTL DEF Spec
<1>3. QED
  BY <1>1, <1>2
==============================================================================
