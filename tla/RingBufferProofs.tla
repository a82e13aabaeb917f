-------------------------- MODULE RingBufferProofs --------------------------
(***************************************************************************)
(* The ring, for any length of the ring, any packets and ticks, and any    *)
(* moment at which the reader begins, copies and verifies.  Without any    *)
(* assumption nothing is readable before it is announced.  If no packet is *)
(* later and no gap longer than the ring (InReach), what a read returns as *)
(* useful is what was written at these positions or silence, and never a   *)
(* sample of an earlier lap.                                               *)
(***************************************************************************)
EXTENDS RingBuffer, TLAPS

LEMMA SlotOf == ASSUME NEW t \in Int PROVE t % Size \in Slots
  BY SizeAssumption DEF Slots

LEMMA Division ==
    ASSUME NEW t \in Int
    PROVE  t \div Size \in Int /\ t = Size * (t \div Size) + (t % Size)
  BY SizeAssumption

\* Two timestamps that share a slot are the same or a ring apart.
LEMMA SameSlot ==
    ASSUME NEW s \in Int, NEW t \in Int, s % Size = t % Size, s < t
    PROVE  t - s >= Size
<1> DEFINE p == s \div Size
           q == t \div Size
<1>1. p \in Int /\ q \in Int /\ Size \in Nat /\ Size > 0
  BY SizeAssumption, Division
<1>2. s = Size * p + (s % Size) /\ t = Size * q + (t % Size)
  BY Division
<1>3. t - s = Size * q - Size * p
  BY <1>1, <1>2, SlotOf DEF Slots
<1>4. Size * q - Size * p = Size * (q - p)
  BY <1>1
<1>5. q - p >= 1
  <2>1. CASE q - p <= 0
    <3>1. Size * (q - p) <= 0
      BY <2>1, <1>1
    <3>2. QED
      BY <3>1, <1>3, <1>4, <1>1
  <2>2. QED
    BY <2>1, <1>1
<1>6. Size * (q - p) >= Size
  BY <1>5, <1>1
<1>7. QED
  BY <1>3, <1>4, <1>6

\* A timestamp less than a ring away is found by the position of its slot.
LEMMA RingLengthBounds ==
    ASSUME NEW from \in Int, NEW to \in Int, from <= to
    PROVE  /\ RingLength(from, to) \in 0..Size
           /\ RingLength(from, to) <= to - from
           /\ to - from <= Size => RingLength(from, to) = to - from
<1> DEFINE d == to - from
<1>1. d \in Nat
  OBVIOUS
<1>2. CASE d = 0
  BY <1>2, SizeAssumption DEF RingLength
<1>3. CASE d > 0
  <2>1. d % Size \in 0..(Size - 1)
    BY <1>1, SizeAssumption
  <2>2. d = Size * (d \div Size) + (d % Size) /\ d \div Size \in Int
    BY Division, <1>1
  <2>3. d \div Size >= 0
    BY <1>1, SizeAssumption
  <2>4. Size * (d \div Size) >= 0
    BY <2>2, <2>3, SizeAssumption
  <2>5. d % Size <= d
    BY <2>1, <2>2, <2>4, <1>1, SizeAssumption
  <2>6. ASSUME d % Size = 0 PROVE d >= Size
    BY <2>6, SameSlot, <1>3, SizeAssumption, 0 % Size = 0
  <2>7. ASSUME d < Size PROVE d % Size = d
    BY <2>7, <1>1, SizeAssumption
  <2>8. ASSUME d = Size PROVE d % Size = 0
    BY <2>8, SizeAssumption
  <2>9. QED
    BY <1>1, <1>3, <2>1, <2>5, <2>6, <2>7, <2>8, SizeAssumption DEF RingLength
<1>4. QED
  BY <1>1, <1>2, <1>3

-----------------------------------------------------------------------------
(* The two positions *)

\* What the writer's place in its call says about the positions: PosInv is the
\* inductive strengthening of NothingReadableUnannounced.
PosTypeOK ==
    /\ writingPos \in Int
    /\ readablePos \in Int
    /\ writer \in WriterStates
    /\ job \in [from : Int, to : Int, hole : BOOLEAN]
    /\ itemReady \in [Slots -> BOOLEAN]

\* A tick closes up to its position or writing_pos, whichever is less; it has
\* closed everything when it goes on beyond.
TickInv ==
    writer \in {"tick", "tickPublish"} =>
        /\ job.from <= job.to
        /\ job.from <= writingPos
        /\ job.from # job.to => job.from = writingPos

ExtendInv ==
    /\ writer = "extend" => writingPos <= job.to /\ readablePos = writingPos
    /\ writer \in {"extendFill", "extendPublish", "reset"} => writingPos = job.to

PosInv == PosTypeOK /\ readablePos <= writingPos /\ TickInv /\ ExtendInv

LEMMA PosInvInit == Init => PosInv
  BY TimeAssumption
  DEF Init, PosInv, PosTypeOK, TickInv, ExtendInv, NoJob, WriterStates

\* A run of ready items ends at writing_pos at the latest.
LEMMA RunInRing ==
    ASSUME PosInv, NEW run \in 0..Size, IsReadyRun(run)
    PROVE  readablePos + run <= writingPos
  BY RingLengthBounds DEF PosInv, PosTypeOK, IsReadyRun

LEMMA PosInvNext == PosInv /\ [Next]_vars => PosInv' /\ writingPos' >= writingPos
                                                  /\ readablePos' >= readablePos
<1> SUFFICES ASSUME PosInv, [Next]_vars
             PROVE  /\ PosInv'
                    /\ writingPos' >= writingPos
                    /\ readablePos' >= readablePos
  OBVIOUS
<1> USE DEF PosInv, PosTypeOK, TickInv, ExtendInv, WriterStates, Smaller, Larger
<1> DEFINE Goal == PosInv' /\ writingPos' >= writingPos /\ readablePos' >= readablePos
<1>1. ASSUME NEW from \in 0..MaxTime, NEW length \in 1..MaxPacket,
             WriteBegin(from, length)
      PROVE  Goal
  BY <1>1, TimeAssumption, PacketAssumption DEF WriteBegin, readerVars
<1>2. CASE WriteAnnounce
  BY <1>2 DEF WriteAnnounce, Announce, readerVars
<1>3. CASE WriteStore
  BY <1>3 DEF WriteStore, StoreItems, AfterStores, readerVars
<1>4. CASE WriteStoreEarly
  BY <1>4 DEF WriteStoreEarly, StoreItems, readerVars
<1>5. CASE WriteAnnounceLate
  BY <1>5 DEF WriteAnnounceLate, Announce, AfterStores, readerVars
<1>6. CASE WritePublish
  BY <1>6, TimeAssumption DEF WritePublish, Return, NoJob, readerVars
<1>7. CASE WriteClose
  BY <1>7 DEF WriteClose, readerVars
<1>8. CASE WriteClosePublish
  BY <1>8, WaitAssumption DEF WriteClosePublish, ClosePublish, readerVars
<1>9. CASE WriteAdvance
  BY <1>9, RunInRing, SizeAssumption, TimeAssumption
  DEF WriteAdvance, Return, NoJob, readerVars
<1>10. ASSUME NEW until \in 0..MaxTime, CloseBegin(until) PROVE Goal
  BY <1>10, TimeAssumption DEF CloseBegin, readerVars
<1>11. CASE TickClose
  BY <1>11 DEF TickClose, readerVars
<1>12. CASE TickClosePublish
  <2>1. /\ writer = "tickPublish"
        /\ job.from \in Int /\ job.to \in Int
        /\ readablePos' = Larger(readablePos, job.from)
        /\ UNCHANGED <<writingPos, itemReady>>
    BY <1>12 DEF TickClosePublish, ClosePublish
  <2>2. CASE job.to # job.from /\ writer' = "extend" /\ UNCHANGED job
    BY <2>1, <2>2
  <2>3. CASE job.to = job.from /\ Return
    BY <2>1, <2>3, TimeAssumption DEF Return, NoJob
  <2>4. QED
    BY <1>12, <2>2, <2>3 DEF TickClosePublish
<1>13. CASE ExtendAnnounce
  BY <1>13 DEF ExtendAnnounce, readerVars
<1>14. CASE ExtendFill
  BY <1>14 DEF ExtendFill, readerVars
<1>15. CASE ExtendPublish
  BY <1>15, TimeAssumption DEF ExtendPublish, Return, NoJob, readerVars
<1>16. ASSUME NEW start \in 0..MaxTime, ResetBegin(start) PROVE Goal
  BY <1>16, TimeAssumption DEF ResetBegin, readerVars
<1>17. CASE ResetEnd
  BY <1>17, TimeAssumption DEF ResetEnd, Return, NoJob, readerVars
<1>18. CASE ReaderNext
  BY <1>18 DEF ReaderNext, ReadBegin, ReadCopy, ReadVerify, writerVars
<1>19. CASE UNCHANGED vars
  BY <1>19 DEF vars
<1>20. QED
  BY <1>1, <1>2, <1>3, <1>4, <1>5, <1>6, <1>7, <1>8, <1>9, <1>10, <1>11, <1>12,
     <1>13, <1>14, <1>15, <1>16, <1>17, <1>18, <1>19
  DEF Next, WriterNext

LEMMA PosInvariant == Spec => []PosInv
  BY PosInvInit, PosInvNext, PTL DEF Spec

\* Nothing is readable before it is announced, whatever the packets, the ticks
\* and the order in which the stores of the items are seen.
THEOREM Announced == Spec => []NothingReadableUnannounced
<1>1. PosInv => NothingReadableUnannounced
  BY DEF PosInv, NothingReadableUnannounced
<1>2. QED
  BY <1>1, PosInvariant, PTL

\* Neither position ever goes back, for any packets and ticks.
THEOREM NeverBackwards == Spec => PositionsNeverGoBack
<1>1. PosInv /\ [Next]_vars
        => [writingPos' >= writingPos /\ readablePos' >= readablePos]_vars
  BY PosInvNext
<1>2. QED
  BY <1>1, PosInvariant, PTL DEF Spec, PositionsNeverGoBack

-----------------------------------------------------------------------------
(* The contents of the ring *)

\* What the readers rely on: a packet and a tick stay within one length of the
\* ring, and holes are closed before the ring has gone round.
InReach ==
    /\ MaxLate <= Size
    /\ MaxGap + MaxPacket <= Size
    /\ HoleFixWait <= Size

\* The oldest timestamp that a reader can trust: where the stores of the items
\* may overtake that of writing_pos, a packet has to be kept clear of.
Oldest == writingPos - Size + (IF StoresInOrder THEN 0 ELSE MaxGap + MaxPacket)
Kept == Oldest..(writingPos - 1)

Packet == job.from..(job.to - 1)

At(t) == t % Size
Faithful(t) == slots[At(t)] \in {t, Silence}
Ready(t) == itemReady[At(t)]

ContentTypeOK ==
    /\ slots \in [Slots -> Int]
    /\ view = [from |-> view.from, items |-> view.items]
    /\ view.from \in Int
    /\ DOMAIN view.items \subseteq Int
    /\ DOMAIN useful \subseteq Int

\* How far readable_pos is behind: by hole_fix_wait, and by the packet that is
\* being written.
BacklogInv ==
    /\ writer \in {"idle", "announce", "announceLate", "tick", "tickPublish", "advance"}
           => writingPos - readablePos <= HoleFixWait
    /\ writer \in {"store", "close", "closePublish"}
           => writingPos - readablePos <= HoleFixWait + Size

\* Where the items of the call are: within a ring of writing_pos, next to what
\* is readable unless there is a hole, and a hole's items are not ready.
AnnounceInv ==
    writer \in {"announce", "announceLate"} =>
        /\ job.from >= writingPos - Size
        /\ job.from < job.to
        /\ job.to <= writingPos + MaxGap + MaxPacket
        /\ job.to - job.from < Size
        /\ \A t \in writingPos..(job.from - 1) : ~Ready(t)
        /\ ~job.hole => readablePos = writingPos /\ job.from <= writingPos

LateInv ==
    writer = "announceLate" =>
        /\ ~StoresInOrder
        /\ \A t \in Packet : slots[At(t)] = t

StoreInv ==
    writer = "store" =>
        /\ job.from >= writingPos - Size
        /\ job.from < job.to
        /\ job.to <= writingPos
        /\ job.to - job.from < Size
        /\ ~job.hole => job.from <= readablePos /\ writingPos \in {readablePos, job.to}

ReachInv ==
    writer \in {"extend", "extendFill", "extendPublish"} =>
        /\ job.from = readablePos
        /\ job.from <= job.to
        /\ job.to - job.from < Size

TickReachInv ==
    writer \in {"tick", "tickPublish"} => job.to - writingPos <= MaxGap

\* What a position is about to make readable has its contents.
PublishInv ==
    /\ writer = "publish" => \A t \in Kept : Faithful(t)
    /\ writer = "closePublish" =>
           \A t \in Kept : t < writingPos - HoleFixWait => Faithful(t)
    /\ writer = "tickPublish" => \A t \in Kept : t < job.from => Faithful(t)
    /\ writer = "extendPublish" => \A t \in Packet : slots[At(t)] = Silence
    /\ writer = "reset" => \A i \in Slots : slots[i] = Silence

\* An item of the ring that is readable, or ready, is what it should be, except
\* that the flags of the items about to be stored or filled mean nothing yet.
ContentInv ==
    \A t \in Kept :
        \/ Faithful(t)
        \/ /\ t >= readablePos
           /\ \/ ~Ready(t)
              \/ writer \in {"store", "extendFill"} /\ t \in Packet

WriterInv ==
    /\ BacklogInv
    /\ AnnounceInv
    /\ LateInv
    /\ StoreInv
    /\ ReachInv
    /\ TickReachInv
    /\ PublishInv
    /\ ContentInv

\* What a read has copied is right, or older than what it will report.
CopyInv ==
    /\ reader = "copy" =>
           \A k \in DOMAIN view.items : view.from + k - 1 < readablePos
    /\ reader = "verify" =>
           \A k \in DOMAIN view.items :
               \/ view.items[k] \in {view.from + k - 1, Silence}
               \/ view.from + k - 1 < Oldest

UsefulInv ==
    \A t \in DOMAIN useful :
        \/ useful[t] \in {t, Silence}
        \/ ~StoresInOrder /\ t < Oldest

LEMMA AtSlot == ASSUME NEW t \in Int PROVE At(t) \in Slots
  BY SlotOf DEF At

LEMMA AtNear ==
    ASSUME NEW s \in Int, NEW t \in Int, At(s) = At(t), s - t < Size, t - s < Size
    PROVE  s = t
<1>1. s % Size = t % Size
  BY DEF At
<1>2. ASSUME s < t PROVE FALSE
  <2>1. t - s >= Size
    BY <1>1, <1>2, SameSlot
  <2>2. QED
    BY <2>1, SizeAssumption
<1>3. ASSUME t < s PROVE FALSE
  <2>1. s - t >= Size
    BY <1>1, <1>3, SameSlot
  <2>2. QED
    BY <2>1, SizeAssumption
<1>4. QED
  BY <1>2, <1>3

\* for_in_ring visits all of a range that fits into the ring ...
LEMMA InRingCovers ==
    ASSUME NEW from \in Int, NEW to \in Int, to - from <= Size,
           NEW t \in from..(to - 1)
    PROVE  At(t) \in InRing(from, to)
<1>1. RingLength(from, to) = to - from
  BY RingLengthBounds
<1>2. t - from \in 0..(RingLength(from, to) - 1) /\ from + (t - from) = t
  BY <1>1
<1>3. QED
  BY <1>2 DEF InRing, At

\* ... and nothing outside a range.
LEMMA InRingWithin ==
    ASSUME NEW from \in Int, NEW to \in Int, from <= to, NEW i \in InRing(from, to)
    PROVE  \E t \in from..(to - 1) : i = At(t)
<1>1. PICK k \in 0..(RingLength(from, to) - 1) : i = At(from + k)
  BY DEF InRing, At
<1>2. from + k \in from..(to - 1)
  BY RingLengthBounds
<1>3. QED
  BY <1>1, <1>2

\* The stores of a packet put each of its samples into its own slot and touch
\* no other slot.
LEMMA StoreFacts ==
    ASSUME PosInv, ContentTypeOK, job.from < job.to, job.to - job.from < Size,
           StoreItems
    PROVE  /\ slots' \in [Slots -> Int]
           /\ \A t \in Packet : slots'[At(t)] = t /\ itemReady'[At(t)]
           /\ \A i \in Slots :
                 \/ \E t \in Packet : i = At(t)
                 \/ slots'[i] = slots[i] /\ itemReady'[i] = itemReady[i]
<1> DEFINE at(i) == CHOOSE t \in Packet : At(t) = i
           written == InRing(job.from, job.to)
<1>0. job.from \in Int /\ job.to \in Int /\ Size \in Nat
  BY SizeAssumption DEF PosInv, PosTypeOK
<1>1. /\ slots' = [i \in Slots |-> IF i \in written THEN at(i) ELSE slots[i]]
      /\ itemReady' = [i \in Slots |-> i \in written \/ itemReady[i]]
  BY DEF StoreItems, At, Packet
<1>2. ASSUME NEW i \in written PROVE at(i) \in Packet /\ At(at(i)) = i
  BY <1>0, InRingWithin DEF Packet
<1>3. ASSUME NEW t \in Packet
      PROVE  At(t) \in written /\ at(At(t)) = t /\ At(t) \in Slots
  <2>1. t \in Int /\ t >= job.from /\ t < job.to /\ At(t) \in Slots
    BY <1>0, AtSlot DEF Packet
  <2>2. At(t) \in written
    BY <1>0, InRingCovers DEF Packet
  <2>3. at(At(t)) \in Packet /\ At(at(At(t))) = At(t)
    BY <2>2, <1>2
  <2> DEFINE s == at(At(t))
  <2>4. s \in Int /\ s - t < Size /\ t - s < Size /\ At(s) = At(t)
    BY <2>1, <2>3, <1>0 DEF Packet
  <2> HIDE DEF s
  <2>5. s = t
    BY <2>1, <2>4, AtNear
  <2>6. QED
    BY <2>1, <2>2, <2>5 DEF s
<1> HIDE DEF at, written
<1>4. ASSUME NEW i \in Slots, i \in written PROVE slots'[i] \in Int
  BY <1>1, <1>2, <1>4, <1>0 DEF Packet
<1>5. ASSUME NEW i \in Slots, i \notin written
      PROVE  slots'[i] = slots[i] /\ itemReady'[i] = itemReady[i]
  <2>1. slots'[i] = slots[i]
    BY <1>1, <1>5
  <2>2. itemReady'[i] = (i \in written \/ itemReady[i])
    BY <1>1
  <2>3. itemReady[i] \in BOOLEAN
    BY DEF PosInv, PosTypeOK
  <2>4. QED
    BY <2>1, <2>2, <2>3, <1>5
<1>6. slots' \in [Slots -> Int]
  BY <1>1, <1>4, <1>5 DEF ContentTypeOK
<1>7. ASSUME NEW t \in Packet PROVE slots'[At(t)] = t /\ itemReady'[At(t)]
  BY <1>1, <1>3
<1>8. ASSUME NEW i \in Slots, i \in written PROVE \E t \in Packet : i = At(t)
  BY <1>2, <1>8
<1>9. QED
  BY <1>5, <1>6, <1>7, <1>8

\* The closing of holes silences slots that are not ready, within its range,
\* and leaves no hole there.
LEMMA FillFacts ==
    ASSUME PosInv, ContentTypeOK, NEW c \in Int, CloseFill(c)
    PROVE  /\ slots' \in [Slots -> Int]
           /\ \A i \in Slots :
                 \/ slots'[i] = slots[i]
                 \/ /\ slots'[i] = Silence
                    /\ ~itemReady[i]
                    /\ \E t \in readablePos..(c - 1) : i = At(t)
           /\ c - readablePos <= Size =>
                 \A t \in readablePos..(c - 1) : Ready(t) \/ slots'[At(t)] = Silence
<1>0. readablePos \in Int /\ Silence \in Int /\ slots \in [Slots -> Int]
  BY DEF PosInv, PosTypeOK, Silence, ContentTypeOK
<1>1. CASE c <= readablePos /\ UNCHANGED slots
  <2>1. \A t \in readablePos..(c - 1) : FALSE
    BY <1>0, <1>1
  <2>2. QED
    BY <1>0, <1>1, <2>1
<1>2. CASE c > readablePos /\ FillHoles(c)
  <2> DEFINE holes == {i \in InRing(readablePos, c) : ~itemReady[i]}
  <2>1. slots' = [i \in Slots |-> IF i \in holes THEN Silence ELSE slots[i]]
    BY <1>2 DEF FillHoles
  <2>2. ASSUME NEW i \in holes
        PROVE  ~itemReady[i] /\ \E t \in readablePos..(c - 1) : i = At(t)
    BY <1>0, <1>2, InRingWithin
  <2>3. ASSUME c - readablePos <= Size, NEW t \in readablePos..(c - 1)
        PROVE  Ready(t) \/ At(t) \in holes
    BY <1>0, <2>3, InRingCovers DEF Ready
  <2>4. ASSUME NEW t \in readablePos..(c - 1) PROVE At(t) \in Slots
    BY <1>0, AtSlot
  <2> HIDE DEF holes
  <2>5. ASSUME NEW i \in Slots
        PROVE  IF i \in holes THEN slots'[i] = Silence ELSE slots'[i] = slots[i]
    BY <2>1
  <2>6. slots' \in [Slots -> Int]
    BY <2>1, <1>0
  <2>7. \A i \in Slots :
            \/ slots'[i] = slots[i]
            \/ /\ slots'[i] = Silence
               /\ ~itemReady[i]
               /\ \E t \in readablePos..(c - 1) : i = At(t)
    BY <2>2, <2>5
  <2>8. ASSUME c - readablePos <= Size, NEW t \in readablePos..(c - 1)
        PROVE  Ready(t) \/ slots'[At(t)] = Silence
    BY <2>8, <2>3, <2>4, <2>5
  <2>9. QED
    BY <2>6, <2>7, <2>8
<1>3. QED
  BY <1>1, <1>2 DEF CloseFill

\* The initial ring is silent and everything is readable.
LEMMA WriterInvInit == Init => WriterInv /\ ContentTypeOK /\ CopyInv /\ UsefulInv
<1> SUFFICES ASSUME Init PROVE WriterInv /\ ContentTypeOK /\ CopyInv /\ UsefulInv
  OBVIOUS
<1>0. /\ writer = "idle" /\ reader = "idle"
      /\ writingPos = StartTime /\ readablePos = StartTime
      /\ StartTime \in Int /\ HoleFixWait \in Nat /\ Silence \in Int
  BY TimeAssumption, WaitAssumption DEF Init, Silence
<1>1. slots \in [Slots -> Int] /\ \A i \in Slots : slots[i] = Silence
  BY <1>0 DEF Init
<1>2. ContentTypeOK
  BY <1>0, <1>1 DEF Init, ContentTypeOK, NoView
<1>3. ASSUME NEW t \in Kept PROVE Faithful(t)
  <2>1. t \in Int
    BY <1>0, PacketAssumption, TimeAssumption, SizeAssumption DEF Kept, Oldest
  <2>2. QED
    BY <1>1, <2>1, AtSlot DEF Faithful
<1>4. WriterInv
  BY <1>0, <1>3 DEF WriterInv, BacklogInv, AnnounceInv, LateInv, StoreInv, ReachInv,
                    TickReachInv, PublishInv, ContentInv
<1>5. CopyInv /\ UsefulInv
  BY <1>0 DEF Init, CopyInv, UsefulInv
<1>6. QED
  BY <1>2, <1>4, <1>5

\* The constants and positions are numbers.
LEMMA Numbers ==
    ASSUME PosInv
    PROVE  /\ writingPos \in Int /\ readablePos \in Int
           /\ job.from \in Int /\ job.to \in Int /\ job.hole \in BOOLEAN
           /\ Size \in Int /\ Size > 0 /\ MaxTime \in Int /\ HoleFixWait \in Int
           /\ HoleFixWait >= 0 /\ MaxGap \in Int /\ MaxGap >= 0
           /\ MaxLate \in Int /\ MaxLate >= 0
           /\ MaxPacket \in Int /\ MaxPacket >= 1 /\ MaxPacket < Size
           /\ Oldest \in Int /\ Oldest >= writingPos - Size
           /\ (StoresInOrder => Oldest = writingPos - Size)
           /\ (~StoresInOrder => Oldest = writingPos - Size + MaxGap + MaxPacket)
           /\ readablePos <= writingPos
<1>1. /\ writingPos \in Int /\ readablePos \in Int
      /\ job.from \in Int /\ job.to \in Int /\ job.hole \in BOOLEAN
      /\ readablePos <= writingPos
  BY DEF PosInv, PosTypeOK
<1>2. /\ Size \in Int /\ Size > 0 /\ MaxTime \in Int /\ HoleFixWait \in Int
      /\ HoleFixWait >= 0 /\ MaxGap \in Int /\ MaxGap >= 0
      /\ MaxLate \in Int /\ MaxLate >= 0
      /\ MaxPacket \in Int /\ MaxPacket >= 1 /\ MaxPacket < Size
  BY SizeAssumption, TimeAssumption, PacketAssumption, WaitAssumption
<1>3. CASE StoresInOrder
  BY <1>1, <1>2, <1>3 DEF Oldest
<1>4. CASE ~StoresInOrder
  BY <1>1, <1>2, <1>4 DEF Oldest
<1>5. QED
  BY <1>3, <1>4

\* The mark of a hole takes readiness away and leaves everything else.
LEMMA WriteBeginKeeps ==
    ASSUME InReach, PosInv, ContentTypeOK, WriterInv,
           NEW from \in 0..MaxTime, NEW length \in 1..MaxPacket,
           WriteBegin(from, length)
    PROVE  WriterInv' /\ ContentTypeOK'
<1>0. /\ writer = "idle" /\ writer' = "announce"
      /\ from >= writingPos - MaxLate /\ from <= writingPos + MaxGap
      /\ job' = [from |-> from, to |-> from + length,
                 hole |-> from > writingPos \/ readablePos # writingPos]
      /\ UNCHANGED <<writingPos, readablePos, slots, view, useful, reader>>
      /\ from \in Int /\ length \in Int /\ length >= 1 /\ length <= MaxPacket
  BY Numbers DEF WriteBegin, readerVars
<1>1. /\ job'.from = from /\ job'.to = from + length
      /\ ~job'.hole => readablePos = writingPos /\ from <= writingPos
  <2>1. job'.from = from /\ job'.to = from + length
    BY <1>0
  <2>2. job'.hole = (from > writingPos \/ readablePos # writingPos)
    BY <1>0, Zenon
  <2>3. ~job'.hole => ~(from > writingPos) /\ readablePos = writingPos
    BY <2>2, Zenon
  <2>4. from > writingPos \/ from <= writingPos
    BY <1>0, Numbers
  <2>5. QED
    BY <2>1, <2>3, <2>4, Zenon
<1>2. itemReady' = [i \in Slots |->
          itemReady[i] /\ ~(from > writingPos /\ i \in InRing(writingPos, from))]
  BY DEF WriteBegin
<1>3. ASSUME NEW t \in Int PROVE Ready(t)' => Ready(t)
  BY <1>2, AtSlot DEF Ready
<1>4. ASSUME NEW t \in writingPos..(from - 1) PROVE ~Ready(t)'
  <2>0. t \in Int /\ from - writingPos <= Size
    BY <1>0, Numbers DEF InReach
  <2>1. At(t) \in InRing(writingPos, from) /\ At(t) \in Slots
    BY <1>0, <2>0, Numbers, InRingCovers, AtSlot
  <2>2. from > writingPos
    BY <1>0, Numbers
  <2>3. itemReady'[At(t)] = (itemReady[At(t)]
            /\ ~(from > writingPos /\ At(t) \in InRing(writingPos, from)))
    BY <1>2, <2>1
  <2>4. QED
    BY <2>1, <2>2, <2>3 DEF Ready
<1>5. BacklogInv'
  BY <1>0 DEF WriterInv, BacklogInv
<1>6. AnnounceInv'
  <2>1. \A t \in writingPos'..(job'.from - 1) : ~Ready(t)'
    BY <1>0, <1>1, <1>4
  <2>2. QED
    BY <1>0, <1>1, <2>1, Numbers DEF AnnounceInv, InReach
<1>7. LateInv' /\ StoreInv' /\ ReachInv' /\ TickReachInv' /\ PublishInv'
  BY <1>0 DEF LateInv, StoreInv, ReachInv, TickReachInv, PublishInv
<1>8. ASSUME NEW t \in Kept'
      PROVE  Faithful(t)' \/ (t >= readablePos' /\ ~Ready(t)')
  <2>1. t \in Kept /\ t \in Int
    BY <1>0, Numbers DEF Kept, Oldest
  <2>2. Faithful(t) \/ (t >= readablePos /\ ~Ready(t))
    BY <1>0, <2>1 DEF WriterInv, ContentInv
  <2>3. Faithful(t)' = Faithful(t)
    BY <1>0 DEF Faithful
  <2>4. QED
    BY <1>0, <1>3, <2>1, <2>2, <2>3
<1>9. ContentInv'
  BY <1>8 DEF ContentInv
<1>10. ContentTypeOK'
  BY <1>0 DEF ContentTypeOK
<1>11. QED
  BY <1>5, <1>6, <1>7, <1>9, <1>10 DEF WriterInv

\* As writing_pos goes forward old timestamps are given up.
LEMMA KeptMoves ==
    ASSUME PosInv, NEW next \in Int, writingPos' = next, next >= writingPos,
           NEW t, t \in Kept'
    PROVE  /\ t \in Int /\ t < next /\ t >= next - Size
           /\ t < writingPos => t \in Kept
           /\ ~StoresInOrder => t >= next - Size + MaxGap + MaxPacket
<1>1. t \in Oldest'..(next - 1)
  BY DEF Kept
<1>2. CASE StoresInOrder
  <2>1. Oldest = writingPos - Size /\ Oldest' = next - Size
    BY <1>2, Numbers DEF Oldest
  <2>2. QED
    BY <1>1, <1>2, <2>1, Numbers DEF Kept
<1>3. CASE ~StoresInOrder
  <2>1. /\ Oldest = writingPos - Size + MaxGap + MaxPacket
        /\ Oldest' = next - Size + MaxGap + MaxPacket
    BY <1>3, Numbers DEF Oldest
  <2>2. QED
    BY <1>1, <1>3, <2>1, Numbers DEF Kept
<1>4. QED
  BY <1>2, <1>3

\* What the announcement adds to the ring is a hole's items, which are not
\* ready, and those of the packet.
LEMMA WriteAnnounceKeeps ==
    ASSUME InReach, PosInv, ContentTypeOK, WriterInv, WriteAnnounce
    PROVE  WriterInv' /\ ContentTypeOK'
<1>0. /\ writer = "announce" /\ writer' = "store"
      /\ writingPos' = (IF writingPos > job.to THEN writingPos ELSE job.to)
      /\ UNCHANGED <<readablePos, slots, itemReady, job, view, useful, reader>>
  BY DEF WriteAnnounce, Announce, Larger, readerVars
<1>1. /\ job.from >= writingPos - Size /\ job.from < job.to
      /\ job.to <= writingPos + MaxGap + MaxPacket
      /\ job.to - job.from < Size
      /\ \A t \in writingPos..(job.from - 1) : ~Ready(t)
      /\ ~job.hole => readablePos = writingPos /\ job.from <= writingPos
      /\ writingPos - readablePos <= HoleFixWait
  BY <1>0 DEF WriterInv, AnnounceInv, BacklogInv
<1>2. BacklogInv'
  BY <1>0, <1>1, Numbers DEF BacklogInv, InReach
<1>3. StoreInv'
  BY <1>0, <1>1, Numbers DEF StoreInv
<1>4. AnnounceInv' /\ LateInv' /\ ReachInv' /\ TickReachInv' /\ PublishInv'
  BY <1>0 DEF AnnounceInv, LateInv, ReachInv, TickReachInv, PublishInv
<1>5. ASSUME NEW t \in Kept'
      PROVE  \/ Faithful(t)'
             \/ t >= readablePos' /\ (~Ready(t)' \/ t \in Packet')
  <2>1. t \in Int /\ t < writingPos' /\ (t < writingPos => t \in Kept)
    <3> DEFINE next == IF writingPos > job.to THEN writingPos ELSE job.to
    <3>1. next \in Int /\ next >= writingPos /\ writingPos' = next
      BY <1>0, Numbers
    <3> HIDE DEF next
    <3>2. QED
      BY <3>1, KeptMoves
  <2>2. Faithful(t)' = Faithful(t) /\ Ready(t)' = Ready(t) /\ Packet' = Packet
    BY <1>0 DEF Faithful, Ready, Packet
  <2>3. CASE t < writingPos
    <3>1. Faithful(t) \/ (t >= readablePos /\ ~Ready(t))
      BY <1>0, <2>1, <2>3 DEF WriterInv, ContentInv
    <3>2. QED
      BY <1>0, <2>2, <3>1
  <2>4. CASE t >= writingPos /\ t < job.from
    <3>1. ~Ready(t) /\ t >= readablePos
      BY <1>1, <2>1, <2>4, Numbers
    <3>2. QED
      BY <1>0, <2>2, <3>1
  <2>5. CASE t >= writingPos /\ t >= job.from
    <3>1. t \in Packet /\ t >= readablePos
      BY <1>0, <2>1, <2>5, Numbers DEF Packet
    <3>2. QED
      BY <1>0, <2>2, <3>1
  <2>6. QED
    BY <2>1, <2>3, <2>4, <2>5, Numbers
<1>6. ContentInv'
  BY <1>0, <1>5 DEF ContentInv
<1>7. ContentTypeOK'
  BY <1>0 DEF ContentTypeOK
<1>8. QED
  BY <1>2, <1>3, <1>4, <1>6, <1>7 DEF WriterInv

\* The stores fill the packet's items and disturb no other item of the ring.
LEMMA WriteStoreKeeps ==
    ASSUME InReach, PosInv, ContentTypeOK, WriterInv, WriteStore
    PROVE  WriterInv' /\ ContentTypeOK'
<1>0. /\ writer = "store" /\ StoreItems
      /\ writer' = (IF job.hole THEN "close" ELSE "publish")
      /\ UNCHANGED <<writingPos, readablePos, job, view, useful, reader>>
  BY DEF WriteStore, AfterStores, readerVars
<1>1. /\ job.from >= writingPos - Size /\ job.from < job.to
      /\ job.to <= writingPos
      /\ job.to - job.from < Size
      /\ ~job.hole => job.from <= readablePos /\ writingPos \in {readablePos, job.to}
      /\ writingPos - readablePos <= HoleFixWait + Size
  BY <1>0 DEF WriterInv, StoreInv, BacklogInv
<1>2. /\ slots' \in [Slots -> Int]
      /\ \A t \in Packet : slots'[At(t)] = t /\ itemReady'[At(t)]
      /\ \A i \in Slots :
            \/ \E t \in Packet : i = At(t)
            \/ slots'[i] = slots[i] /\ itemReady'[i] = itemReady[i]
  BY <1>0, <1>1, StoreFacts
<1>3. ASSUME NEW t \in Kept'
      PROVE  \/ t \in Packet /\ Faithful(t)'
             \/ t \notin Packet /\ (Faithful(t)' \/ (t >= readablePos /\ ~Ready(t)'))
  <2>1. t \in Int /\ t < writingPos /\ t >= writingPos - Size /\ t \in Kept
    BY <1>0, KeptMoves, Numbers
  <2>2. CASE t \in Packet
    BY <1>2, <2>2 DEF Faithful
  <2>3. CASE t \notin Packet
    <3>1. ASSUME NEW s \in Packet, At(t) = At(s) PROVE FALSE
      <4>1. s \in Int /\ s - t < Size /\ t - s < Size
        BY <1>1, <2>1, Numbers DEF Packet
      <4>2. s = t
        BY <2>1, <3>1, <4>1, AtNear
      <4>3. QED
        BY <2>3, <4>2
    <3>2. slots'[At(t)] = slots[At(t)] /\ itemReady'[At(t)] = itemReady[At(t)]
      BY <1>2, <2>1, <3>1, AtSlot
    <3>3. Faithful(t) \/ (t >= readablePos /\ ~Ready(t))
      BY <2>1, <2>3 DEF WriterInv, ContentInv
    <3>4. QED
      BY <2>3, <3>2, <3>3 DEF Faithful, Ready
  <2>4. QED
    BY <2>2, <2>3
<1>4. ASSUME ~job.hole, NEW t \in Kept' PROVE Faithful(t)'
  <2>1. t \in Int /\ t < writingPos
    BY <1>0, KeptMoves, Numbers
  <2>2. t < readablePos \/ t \in Packet
    BY <1>1, <1>4, <2>1, Numbers DEF Packet
  <2>3. QED
    BY <1>3, <2>1, <2>2, Numbers
<1>5. BacklogInv'
  BY <1>0, <1>1, Numbers DEF BacklogInv
<1>6. PublishInv'
  BY <1>0, <1>4, Numbers DEF PublishInv
<1>7. AnnounceInv' /\ LateInv' /\ StoreInv' /\ ReachInv' /\ TickReachInv'
  BY <1>0, Numbers DEF AnnounceInv, LateInv, StoreInv, ReachInv, TickReachInv
<1>8. ContentInv'
  BY <1>0, <1>3 DEF ContentInv
<1>9. ContentTypeOK'
  BY <1>0, <1>2 DEF ContentTypeOK
<1>10. QED
  BY <1>5, <1>6, <1>7, <1>8, <1>9 DEF WriterInv

\* Stores that overtake the announcement disturb only what lies within a
\* packet's reach of the oldest item.
LEMMA WriteStoreEarlyKeeps ==
    ASSUME InReach, PosInv, ContentTypeOK, WriterInv, WriteStoreEarly
    PROVE  WriterInv' /\ ContentTypeOK'
<1>0. /\ writer = "announce" /\ StoreItems /\ ~StoresInOrder
      /\ writer' = "announceLate"
      /\ UNCHANGED <<writingPos, readablePos, job, view, useful, reader>>
  BY DEF WriteStoreEarly, readerVars
<1>1. /\ job.from >= writingPos - Size /\ job.from < job.to
      /\ job.to <= writingPos + MaxGap + MaxPacket
      /\ job.to - job.from < Size
      /\ \A t \in writingPos..(job.from - 1) : ~Ready(t)
      /\ ~job.hole => readablePos = writingPos /\ job.from <= writingPos
      /\ writingPos - readablePos <= HoleFixWait
  BY <1>0 DEF WriterInv, AnnounceInv, BacklogInv
<1>2. /\ slots' \in [Slots -> Int]
      /\ \A t \in Packet : slots'[At(t)] = t /\ itemReady'[At(t)]
      /\ \A i \in Slots :
            \/ \E t \in Packet : i = At(t)
            \/ slots'[i] = slots[i] /\ itemReady'[i] = itemReady[i]
  BY <1>0, <1>1, StoreFacts
<1>3. ASSUME NEW t \in Int, t \notin Packet, t >= writingPos - Size,
             t >= writingPos - Size + MaxGap + MaxPacket,
             t < writingPos \/ t < job.from
      PROVE  slots'[At(t)] = slots[At(t)] /\ itemReady'[At(t)] = itemReady[At(t)]
  <2>1. ASSUME NEW s \in Packet, At(t) = At(s) PROVE FALSE
    <3>1. s \in Int /\ s - t < Size /\ t - s < Size
      BY <1>1, <1>3, Numbers DEF Packet
    <3>2. s = t
      BY <2>1, <3>1, AtNear
    <3>3. QED
      BY <1>3, <3>2
  <2>2. QED
    BY <1>2, <2>1, AtSlot
<1>4. ASSUME NEW t \in Kept' PROVE Faithful(t)' \/ (t >= readablePos' /\ ~Ready(t)')
  <2>1. /\ t \in Int /\ t < writingPos /\ t >= writingPos - Size /\ t \in Kept
        /\ t >= writingPos - Size + MaxGap + MaxPacket
    BY <1>0, KeptMoves, Numbers
  <2>2. CASE t \in Packet
    BY <1>2, <2>2 DEF Faithful
  <2>3. CASE t \notin Packet
    <3>1. slots'[At(t)] = slots[At(t)] /\ itemReady'[At(t)] = itemReady[At(t)]
      BY <1>3, <2>1, <2>3
    <3>2. Faithful(t) \/ (t >= readablePos /\ ~Ready(t))
      BY <1>0, <2>1 DEF WriterInv, ContentInv
    <3>3. QED
      BY <1>0, <3>1, <3>2 DEF Faithful, Ready
  <2>4. QED
    BY <2>2, <2>3
<1>5. AnnounceInv'
  <2>1. ASSUME NEW t \in writingPos..(job.from - 1) PROVE ~Ready(t)'
    <3>1. /\ t \in Int /\ t \notin Packet /\ t >= writingPos - Size
          /\ t >= writingPos - Size + MaxGap + MaxPacket /\ t < job.from
      BY Numbers DEF Packet, InReach
    <3>2. itemReady'[At(t)] = itemReady[At(t)]
      BY <1>3, <3>1
    <3>3. QED
      BY <1>1, <3>2 DEF Ready
  <2>2. QED
    BY <1>0, <1>1, <2>1, Numbers DEF AnnounceInv
<1>6. LateInv'
  BY <1>0, <1>2 DEF LateInv, Packet
<1>7. BacklogInv' /\ StoreInv' /\ ReachInv' /\ TickReachInv' /\ PublishInv'
  BY <1>0, <1>1 DEF BacklogInv, StoreInv, ReachInv, TickReachInv, PublishInv
<1>8. ContentInv'
  BY <1>4 DEF ContentInv
<1>9. ContentTypeOK'
  BY <1>0, <1>2 DEF ContentTypeOK
<1>10. QED
  BY <1>5, <1>6, <1>7, <1>8, <1>9 DEF WriterInv

LEMMA WriteAnnounceLateKeeps ==
    ASSUME InReach, PosInv, ContentTypeOK, WriterInv, WriteAnnounceLate
    PROVE  WriterInv' /\ ContentTypeOK'
<1>0. /\ writer = "announceLate"
      /\ writer' = (IF job.hole THEN "close" ELSE "publish")
      /\ writingPos' = (IF writingPos > job.to THEN writingPos ELSE job.to)
      /\ UNCHANGED <<readablePos, slots, itemReady, job, view, useful, reader>>
  BY DEF WriteAnnounceLate, Announce, AfterStores, Larger, readerVars
<1>1. /\ job.from >= writingPos - Size /\ job.from < job.to
      /\ job.to <= writingPos + MaxGap + MaxPacket
      /\ job.to - job.from < Size
      /\ \A t \in writingPos..(job.from - 1) : ~Ready(t)
      /\ ~job.hole => readablePos = writingPos /\ job.from <= writingPos
      /\ writingPos - readablePos <= HoleFixWait
      /\ \A t \in Packet : slots[At(t)] = t
  BY <1>0 DEF WriterInv, AnnounceInv, LateInv, BacklogInv
<1>2. ASSUME NEW t \in Kept'
      PROVE  /\ t \in Int
             /\ Faithful(t)' \/ (t >= readablePos /\ ~Ready(t)')
             /\ ~job.hole => Faithful(t)'
  <2>1. t \in Int /\ t < writingPos' /\ (t < writingPos => t \in Kept)
    <3> DEFINE next == IF writingPos > job.to THEN writingPos ELSE job.to
    <3>1. next \in Int /\ next >= writingPos /\ writingPos' = next
      BY <1>0, Numbers
    <3> HIDE DEF next
    <3>2. QED
      BY <3>1, KeptMoves
  <2>2. Faithful(t)' = Faithful(t) /\ Ready(t)' = Ready(t)
    BY <1>0 DEF Faithful, Ready
  <2>3. CASE t < writingPos
    <3>1. Faithful(t) \/ (t >= readablePos /\ ~Ready(t))
      BY <1>0, <2>1, <2>3 DEF WriterInv, ContentInv
    <3>2. QED
      BY <1>1, <2>1, <2>2, <2>3, <3>1, Numbers
  <2>4. CASE t >= writingPos /\ t < job.from
    <3>1. ~Ready(t) /\ t >= readablePos /\ job.hole
      BY <1>1, <2>1, <2>4, Numbers
    <3>2. QED
      BY <2>1, <2>2, <3>1
  <2>5. CASE t >= writingPos /\ t >= job.from
    <3>1. t \in Packet
      BY <1>0, <2>1, <2>5, Numbers DEF Packet
    <3>2. QED
      BY <1>1, <2>1, <2>2, <3>1 DEF Faithful
  <2>6. QED
    BY <2>1, <2>3, <2>4, <2>5, Numbers
<1>3. BacklogInv'
  BY <1>0, <1>1, Numbers DEF BacklogInv, InReach
<1>4. PublishInv'
  BY <1>0, <1>2, Numbers DEF PublishInv
<1>5. AnnounceInv' /\ LateInv' /\ StoreInv' /\ ReachInv' /\ TickReachInv'
  BY <1>0, Numbers DEF AnnounceInv, LateInv, StoreInv, ReachInv, TickReachInv
<1>6. ContentInv'
  BY <1>0, <1>2 DEF ContentInv
<1>7. ContentTypeOK'
  BY <1>0 DEF ContentTypeOK
<1>8. QED
  BY <1>3, <1>4, <1>5, <1>6, <1>7 DEF WriterInv

LEMMA WritePublishKeeps ==
    ASSUME InReach, PosInv, ContentTypeOK, WriterInv, WritePublish
    PROVE  WriterInv' /\ ContentTypeOK'
<1>0. /\ writer = "publish" /\ writer' = "idle" /\ readablePos' = writingPos
      /\ UNCHANGED <<writingPos, slots, itemReady, view, useful, reader>>
  BY DEF WritePublish, Return, readerVars
<1>1. ASSUME NEW t \in Kept' PROVE Faithful(t)'
  <2>1. t \in Kept /\ Faithful(t)' = Faithful(t)
    BY <1>0 DEF Kept, Oldest, Faithful
  <2>2. QED
    BY <1>0, <2>1 DEF WriterInv, PublishInv
<1>2. BacklogInv'
  BY <1>0, Numbers DEF BacklogInv
<1>3. /\ AnnounceInv' /\ LateInv' /\ StoreInv' /\ ReachInv' /\ TickReachInv'
      /\ PublishInv'
  BY <1>0 DEF AnnounceInv, LateInv, StoreInv, ReachInv, TickReachInv, PublishInv
<1>4. ContentInv'
  BY <1>1 DEF ContentInv
<1>5. ContentTypeOK'
  BY <1>0 DEF ContentTypeOK
<1>6. QED
  BY <1>2, <1>3, <1>4, <1>5 DEF WriterInv

\* After holes were closed, everything before the position that was given is
\* what it should be, and the rest of the ring is as before.
LEMMA FillKeeps ==
    ASSUME InReach, PosInv, ContentTypeOK, ContentInv,
           writer \notin {"store", "extendFill"},
           NEW c \in Int, c - readablePos <= Size, CloseFill(c),
           UNCHANGED <<writingPos, readablePos, itemReady>>
    PROVE  /\ slots' \in [Slots -> Int]
           /\ \A t \in Kept' :
                 /\ Faithful(t)' \/ (t >= readablePos /\ ~Ready(t)')
                 /\ t < c => Faithful(t)'
<1>1. /\ slots' \in [Slots -> Int]
      /\ \A i \in Slots : slots'[i] \in {slots[i], Silence}
      /\ \A t \in readablePos..(c - 1) : Ready(t) \/ slots'[At(t)] = Silence
  BY FillFacts
<1>2. ASSUME NEW t \in Kept'
      PROVE  /\ Faithful(t)' \/ (t >= readablePos /\ ~Ready(t)')
             /\ t < c => Faithful(t)'
  <2>1. t \in Int /\ t \in Kept
    BY KeptMoves, Numbers
  <2>2. Faithful(t) \/ (t >= readablePos /\ ~Ready(t))
    BY <2>1 DEF ContentInv
  <2>3. Faithful(t) => Faithful(t)'
    BY <1>1, <2>1, AtSlot DEF Faithful
  <2>4. Ready(t)' = Ready(t)
    BY DEF Ready
  <2>5. ASSUME t < c, t >= readablePos, ~Ready(t) PROVE Faithful(t)'
    <3>1. t \in readablePos..(c - 1)
      BY <2>1, <2>5, Numbers
    <3>2. slots'[At(t)] = Silence
      BY <1>1, <2>5, <3>1
    <3>3. QED
      BY <3>2 DEF Faithful
  <2>6. QED
    BY <2>2, <2>3, <2>4, <2>5
<1>3. QED
  BY <1>1, <1>2

LEMMA WriteCloseKeeps ==
    ASSUME InReach, PosInv, ContentTypeOK, WriterInv, WriteClose
    PROVE  WriterInv' /\ ContentTypeOK'
<1> DEFINE c == writingPos - HoleFixWait
<1>0. /\ writer = "close" /\ writer' = "closePublish" /\ CloseFill(c)
      /\ UNCHANGED <<writingPos, readablePos, itemReady, job, view, useful, reader>>
  BY DEF WriteClose, readerVars
<1>1. c \in Int /\ c - readablePos <= Size
  BY <1>0, Numbers DEF WriterInv, BacklogInv
<1>2. c = writingPos - HoleFixWait
  OBVIOUS
<1> HIDE DEF c
<1>3. /\ slots' \in [Slots -> Int]
      /\ \A t \in Kept' :
            /\ Faithful(t)' \/ (t >= readablePos /\ ~Ready(t)')
            /\ t < c => Faithful(t)'
  BY <1>0, <1>1, FillKeeps DEF WriterInv
<1>4. BacklogInv'
  BY <1>0 DEF WriterInv, BacklogInv
<1>5. PublishInv'
  BY <1>0, <1>2, <1>3 DEF PublishInv
<1>6. AnnounceInv' /\ LateInv' /\ StoreInv' /\ ReachInv' /\ TickReachInv'
  BY <1>0 DEF AnnounceInv, LateInv, StoreInv, ReachInv, TickReachInv
<1>7. ContentInv'
  BY <1>0, <1>3 DEF ContentInv
<1>8. ContentTypeOK'
  BY <1>0, <1>3 DEF ContentTypeOK
<1>9. QED
  BY <1>4, <1>5, <1>6, <1>7, <1>8 DEF WriterInv

LEMMA WriteClosePublishKeeps ==
    ASSUME InReach, PosInv, ContentTypeOK, WriterInv, WriteClosePublish
    PROVE  WriterInv' /\ ContentTypeOK'
<1> DEFINE c == writingPos - HoleFixWait
<1>0. /\ writer = "closePublish" /\ writer' = "advance"
      /\ readablePos' = (IF readablePos > c THEN readablePos ELSE c)
      /\ UNCHANGED <<writingPos, slots, itemReady, job, view, useful, reader>>
  BY DEF WriteClosePublish, ClosePublish, Larger, readerVars
<1>1. ASSUME NEW t \in Kept'
      PROVE  Faithful(t)' \/ (t >= readablePos' /\ ~Ready(t)')
  <2>1. t \in Kept /\ t \in Int /\ Faithful(t)' = Faithful(t) /\ Ready(t)' = Ready(t)
    BY <1>0, KeptMoves, Numbers DEF Faithful, Ready
  <2>2. Faithful(t) \/ (t >= readablePos /\ ~Ready(t))
    BY <1>0, <2>1 DEF WriterInv, ContentInv
  <2>3. t < c => Faithful(t)
    BY <1>0, <2>1 DEF WriterInv, PublishInv
  <2>4. t < c \/ t >= c
    BY <2>1, Numbers
  <2>5. QED
    BY <1>0, <2>1, <2>2, <2>3, <2>4
<1>2. BacklogInv'
  BY <1>0, Numbers DEF BacklogInv
<1>3. /\ AnnounceInv' /\ LateInv' /\ StoreInv' /\ ReachInv' /\ TickReachInv'
      /\ PublishInv'
  BY <1>0 DEF AnnounceInv, LateInv, StoreInv, ReachInv, TickReachInv, PublishInv
<1>4. ContentInv'
  BY <1>0, <1>1 DEF ContentInv
<1>5. ContentTypeOK'
  BY <1>0 DEF ContentTypeOK
<1>6. QED
  BY <1>2, <1>3, <1>4, <1>5 DEF WriterInv

\* What the writer skips is ready.
LEMMA WriteAdvanceKeeps ==
    ASSUME InReach, PosInv, ContentTypeOK, WriterInv, WriteAdvance
    PROVE  WriterInv' /\ ContentTypeOK'
<1>0. /\ writer = "advance" /\ writer' = "idle"
      /\ UNCHANGED <<writingPos, slots, itemReady, view, useful, reader>>
  BY DEF WriteAdvance, Return, readerVars
<1>1. PICK run \in Int :
          /\ run >= 0
          /\ readablePos' = readablePos + run
          /\ \A k \in 0..(run - 1) : itemReady[(readablePos + k) % Size]
  <2>1. CASE writingPos = readablePos /\ UNCHANGED readablePos
    <3>1. readablePos' = readablePos + 0 /\ \A k \in 0..(0 - 1) : FALSE
      BY <2>1, Numbers
    <3>2. QED
      BY <3>1
  <2>2. CASE \E run \in 0..Size : IsReadyRun(run) /\ readablePos' = readablePos + run
    <3>1. PICK run \in 0..Size : IsReadyRun(run) /\ readablePos' = readablePos + run
      BY <2>2
    <3>2. run \in Int /\ run >= 0
      BY Numbers
    <3>3. \A k \in 0..(run - 1) : itemReady[(readablePos + k) % Size]
      BY <3>1 DEF IsReadyRun
    <3>4. QED
      BY <3>1, <3>2, <3>3
  <2>3. QED
    BY <2>1, <2>2 DEF WriteAdvance
<1>2. ASSUME NEW t \in Int, t >= readablePos, t < readablePos + run PROVE Ready(t)
  <2>1. t - readablePos \in 0..(run - 1) /\ readablePos + (t - readablePos) = t
    BY <1>1, <1>2, Numbers
  <2>2. itemReady[(readablePos + (t - readablePos)) % Size]
    BY <1>1, <2>1
  <2>3. QED
    BY <2>1, <2>2 DEF Ready, At
<1>3. ASSUME NEW t \in Kept'
      PROVE  Faithful(t)' \/ (t >= readablePos' /\ ~Ready(t)')
  <2>1. t \in Kept /\ t \in Int /\ Faithful(t)' = Faithful(t) /\ Ready(t)' = Ready(t)
    BY <1>0, KeptMoves, Numbers DEF Faithful, Ready
  <2>2. Faithful(t) \/ (t >= readablePos /\ ~Ready(t))
    BY <1>0, <2>1 DEF WriterInv, ContentInv
  <2>3. t < readablePos + run \/ t >= readablePos + run
    BY <1>1, <2>1, Numbers
  <2>4. QED
    BY <1>1, <1>2, <2>1, <2>2, <2>3
<1>4. writingPos - readablePos <= HoleFixWait
  BY <1>0 DEF WriterInv, BacklogInv
<1>5. writingPos - (readablePos + run) <= HoleFixWait
  BY <1>1, <1>4, Numbers
<1>6. BacklogInv'
  BY <1>0, <1>1, <1>5 DEF BacklogInv
<1>7. /\ AnnounceInv' /\ LateInv' /\ StoreInv' /\ ReachInv' /\ TickReachInv'
      /\ PublishInv'
  BY <1>0 DEF AnnounceInv, LateInv, StoreInv, ReachInv, TickReachInv, PublishInv
<1>8. ContentInv'
  BY <1>3 DEF ContentInv
<1>9. ContentTypeOK'
  BY <1>0 DEF ContentTypeOK
<1>10. QED
  BY <1>6, <1>7, <1>8, <1>9 DEF WriterInv

LEMMA CloseBeginKeeps ==
    ASSUME InReach, PosInv, ContentTypeOK, WriterInv,
           NEW until \in 0..MaxTime, CloseBegin(until)
    PROVE  WriterInv' /\ ContentTypeOK'
<1>0. /\ writer = "idle" /\ writer' = "tick"
      /\ job'.to = until /\ until <= writingPos + MaxGap
      /\ UNCHANGED <<writingPos, readablePos, slots, itemReady, view, useful, reader>>
  BY Numbers DEF CloseBegin, Smaller, readerVars
<1>1. ASSUME NEW t \in Kept'
      PROVE  Faithful(t)' \/ (t >= readablePos' /\ ~Ready(t)')
  <2>1. t \in Kept /\ Faithful(t)' = Faithful(t) /\ Ready(t)' = Ready(t)
    BY <1>0, KeptMoves, Numbers DEF Faithful, Ready
  <2>2. QED
    BY <1>0, <2>1 DEF WriterInv, ContentInv
<1>2. BacklogInv' /\ TickReachInv'
  BY <1>0, Numbers DEF WriterInv, BacklogInv, TickReachInv
<1>3. AnnounceInv' /\ LateInv' /\ StoreInv' /\ ReachInv' /\ PublishInv'
  BY <1>0 DEF AnnounceInv, LateInv, StoreInv, ReachInv, PublishInv
<1>4. ContentInv'
  BY <1>1 DEF ContentInv
<1>5. ContentTypeOK'
  BY <1>0 DEF ContentTypeOK
<1>6. QED
  BY <1>2, <1>3, <1>4, <1>5 DEF WriterInv

LEMMA TickCloseKeeps ==
    ASSUME InReach, PosInv, ContentTypeOK, WriterInv, TickClose
    PROVE  WriterInv' /\ ContentTypeOK'
<1>0. /\ writer = "tick" /\ writer' = "tickPublish" /\ CloseFill(job.from)
      /\ UNCHANGED <<writingPos, readablePos, itemReady, job, view, useful, reader>>
  BY DEF TickClose, readerVars
<1>1. job.from \in Int /\ job.from - readablePos <= Size
  <2>1. job.from <= writingPos
    BY <1>0 DEF PosInv, TickInv
  <2>2. writingPos - readablePos <= HoleFixWait /\ HoleFixWait <= Size
    BY <1>0 DEF WriterInv, BacklogInv, InReach
  <2>3. QED
    BY <2>1, <2>2, Numbers
<1>2. /\ slots' \in [Slots -> Int]
      /\ \A t \in Kept' :
            /\ Faithful(t)' \/ (t >= readablePos /\ ~Ready(t)')
            /\ t < job.from => Faithful(t)'
  BY <1>0, <1>1, FillKeeps DEF WriterInv
<1>3. BacklogInv' /\ TickReachInv'
  BY <1>0 DEF WriterInv, BacklogInv, TickReachInv
<1>4. PublishInv'
  BY <1>0, <1>2 DEF PublishInv
<1>5. AnnounceInv' /\ LateInv' /\ StoreInv' /\ ReachInv'
  BY <1>0 DEF AnnounceInv, LateInv, StoreInv, ReachInv
<1>6. ContentInv'
  BY <1>0, <1>2 DEF ContentInv
<1>7. ContentTypeOK'
  BY <1>0, <1>2 DEF ContentTypeOK
<1>8. QED
  BY <1>3, <1>4, <1>5, <1>6, <1>7 DEF WriterInv

LEMMA TickClosePublishKeeps ==
    ASSUME InReach, PosInv, ContentTypeOK, WriterInv, TickClosePublish
    PROVE  WriterInv' /\ ContentTypeOK'
<1>0. /\ writer = "tickPublish"
      /\ readablePos' = (IF readablePos > job.from THEN readablePos ELSE job.from)
      /\ UNCHANGED <<writingPos, slots, itemReady, view, useful, reader>>
      /\ \/ job.to # job.from /\ writer' = "extend" /\ job' = job
         \/ writer' = "idle"
  BY DEF TickClosePublish, ClosePublish, Larger, Return, readerVars
<1>1. /\ job.from <= job.to
      /\ job.from <= writingPos
      /\ job.from # job.to => job.from = writingPos
  BY <1>0 DEF PosInv, TickInv
<1>2. writingPos - readablePos <= HoleFixWait /\ job.to - writingPos <= MaxGap
  BY <1>0 DEF WriterInv, BacklogInv, TickReachInv
<1>3. ASSUME NEW t \in Kept'
      PROVE  Faithful(t)' \/ (t >= readablePos' /\ ~Ready(t)')
  <2>1. t \in Kept /\ t \in Int /\ Faithful(t)' = Faithful(t) /\ Ready(t)' = Ready(t)
    BY <1>0, KeptMoves, Numbers DEF Faithful, Ready
  <2>2. Faithful(t) \/ (t >= readablePos /\ ~Ready(t))
    BY <1>0, <2>1 DEF WriterInv, ContentInv
  <2>3. t < job.from => Faithful(t)
    BY <1>0, <2>1 DEF WriterInv, PublishInv
  <2>4. t < job.from \/ t >= job.from
    BY <2>1, Numbers
  <2>5. QED
    BY <1>0, <2>1, <2>2, <2>3, <2>4
<1>4. BacklogInv'
  <2>1. writer' = "idle" \/ writer' = "extend"
    BY <1>0
  <2>2. writingPos - (IF readablePos > job.from THEN readablePos ELSE job.from)
            <= HoleFixWait
    BY <1>2, Numbers
  <2>3. QED
    BY <1>0, <2>1, <2>2 DEF BacklogInv
<1>5. ReachInv'
  <2>1. CASE writer' = "idle"
    BY <2>1 DEF ReachInv
  <2>2. CASE job.to # job.from /\ writer' = "extend" /\ job' = job
    <3>1. MaxGap < Size
      BY Numbers DEF InReach
    <3>2. readablePos' = job.from
      BY <1>0, <1>1, <2>2, Numbers
    <3>3. job.to - job.from < Size
      BY <1>1, <1>2, <2>2, <3>1, Numbers
    <3>4. QED
      BY <1>1, <2>2, <3>2, <3>3 DEF ReachInv
  <2>3. QED
    BY <1>0, <2>1, <2>2
<1>6. AnnounceInv' /\ LateInv' /\ StoreInv' /\ TickReachInv' /\ PublishInv'
  BY <1>0 DEF AnnounceInv, LateInv, StoreInv, TickReachInv, PublishInv
<1>7. ContentInv'
  BY <1>3 DEF ContentInv
<1>8. ContentTypeOK'
  BY <1>0 DEF ContentTypeOK
<1>9. QED
  BY <1>4, <1>5, <1>6, <1>7, <1>8 DEF WriterInv

LEMMA ExtendAnnounceKeeps ==
    ASSUME InReach, PosInv, ContentTypeOK, WriterInv, ExtendAnnounce
    PROVE  WriterInv' /\ ContentTypeOK'
<1>0. /\ writer = "extend" /\ writer' = "extendFill" /\ writingPos' = job.to
      /\ UNCHANGED <<readablePos, slots, itemReady, job, view, useful, reader>>
  BY DEF ExtendAnnounce, readerVars
<1>1. /\ writingPos <= job.to /\ readablePos = writingPos
      /\ job.from = readablePos /\ job.from <= job.to /\ job.to - job.from < Size
  BY <1>0 DEF PosInv, ExtendInv, WriterInv, ReachInv
<1>2. ASSUME NEW t \in Kept'
      PROVE  \/ Faithful(t)'
             \/ t >= readablePos' /\ t \in Packet'
  <2>1. t \in Int /\ t < job.to /\ (t < writingPos => t \in Kept)
    BY <1>0, <1>1, KeptMoves, Numbers
  <2>2. Faithful(t)' = Faithful(t) /\ Packet' = Packet
    BY <1>0 DEF Faithful, Packet
  <2>3. CASE t < writingPos
    <3>1. Faithful(t)
      BY <1>0, <1>1, <2>1, <2>3, Numbers DEF WriterInv, ContentInv
    <3>2. QED
      BY <2>2, <3>1
  <2>4. CASE t >= writingPos
    <3>1. t \in Packet /\ t >= readablePos
      BY <1>1, <2>1, <2>4, Numbers DEF Packet
    <3>2. QED
      BY <1>0, <2>2, <3>1
  <2>5. QED
    BY <2>1, <2>3, <2>4, Numbers
<1>3. ReachInv'
  BY <1>0, <1>1 DEF ReachInv
<1>4. /\ BacklogInv' /\ AnnounceInv' /\ LateInv' /\ StoreInv' /\ TickReachInv'
      /\ PublishInv'
  BY <1>0 DEF BacklogInv, AnnounceInv, LateInv, StoreInv, TickReachInv, PublishInv
<1>5. ContentInv'
  BY <1>0, <1>2 DEF ContentInv
<1>6. ContentTypeOK'
  BY <1>0 DEF ContentTypeOK
<1>7. QED
  BY <1>3, <1>4, <1>5, <1>6 DEF WriterInv

\* What lies between writing_pos and the clock becomes silent, and only that.
LEMMA ExtendFillKeeps ==
    ASSUME InReach, PosInv, ContentTypeOK, WriterInv, ExtendFill
    PROVE  WriterInv' /\ ContentTypeOK'
<1>0. /\ writer = "extendFill" /\ writer' = "extendPublish"
      /\ slots' = [i \in Slots |->
             IF i \in InRing(job.from, job.to) THEN Silence ELSE slots[i]]
      /\ UNCHANGED <<writingPos, readablePos, itemReady, job, view, useful, reader>>
  BY DEF ExtendFill, readerVars
<1>1. /\ writingPos = job.to /\ job.from = readablePos /\ job.from <= job.to
      /\ job.to - job.from < Size
  BY <1>0 DEF PosInv, ExtendInv, WriterInv, ReachInv
<1>2. /\ slots' \in [Slots -> Int]
      /\ \A i \in Slots : slots'[i] \in {slots[i], Silence}
  BY <1>0 DEF ContentTypeOK, Silence
<1>3. ASSUME NEW t \in Packet PROVE slots'[At(t)] = Silence
  <2>1. t \in Int /\ t \in job.from..(job.to - 1) /\ job.to - job.from <= Size
    BY <1>1, Numbers DEF Packet
  <2>2. At(t) \in InRing(job.from, job.to) /\ At(t) \in Slots
    BY <2>1, InRingCovers, AtSlot, Numbers
  <2>3. QED
    BY <1>0, <2>2
<1>4. ASSUME NEW t \in Kept' PROVE Faithful(t)'
  <2>1. t \in Int /\ t < writingPos /\ t \in Kept
    BY <1>0, KeptMoves, Numbers
  <2>2. CASE t \in Packet
    BY <1>3, <2>2 DEF Faithful
  <2>3. CASE t \notin Packet
    <3>1. t < readablePos
      BY <1>1, <2>1, <2>3, Numbers DEF Packet
    <3>2. Faithful(t)
      BY <2>1, <3>1, Numbers DEF WriterInv, ContentInv
    <3>3. slots'[At(t)] \in {slots[At(t)], Silence}
      BY <1>2, <2>1, AtSlot
    <3>4. QED
      BY <3>2, <3>3 DEF Faithful
  <2>4. QED
    BY <2>2, <2>3
<1>5. ReachInv'
  BY <1>0, <1>1 DEF ReachInv
<1>6. PublishInv'
  BY <1>0, <1>3 DEF PublishInv, Packet
<1>7. BacklogInv' /\ AnnounceInv' /\ LateInv' /\ StoreInv' /\ TickReachInv'
  BY <1>0 DEF BacklogInv, AnnounceInv, LateInv, StoreInv, TickReachInv
<1>8. ContentInv'
  BY <1>4 DEF ContentInv
<1>9. ContentTypeOK'
  BY <1>0, <1>2 DEF ContentTypeOK
<1>10. QED
  BY <1>5, <1>6, <1>7, <1>8, <1>9 DEF WriterInv

LEMMA ExtendPublishKeeps ==
    ASSUME InReach, PosInv, ContentTypeOK, WriterInv, ExtendPublish
    PROVE  WriterInv' /\ ContentTypeOK'
<1>0. /\ writer = "extendPublish" /\ writer' = "idle" /\ readablePos' = job.to
      /\ UNCHANGED <<writingPos, slots, itemReady, view, useful, reader>>
  BY DEF ExtendPublish, Return, readerVars
<1>1. /\ writingPos = job.to /\ job.from = readablePos
      /\ \A t \in Packet : slots[At(t)] = Silence
  BY <1>0 DEF PosInv, ExtendInv, WriterInv, ReachInv, PublishInv
<1>2. ASSUME NEW t \in Kept' PROVE Faithful(t)'
  <2>1. t \in Int /\ t < writingPos /\ t \in Kept /\ Faithful(t)' = Faithful(t)
    BY <1>0, KeptMoves, Numbers DEF Faithful
  <2>2. CASE t < readablePos
    BY <1>0, <2>1, <2>2, Numbers DEF WriterInv, ContentInv
  <2>3. CASE t >= readablePos
    <3>1. t \in Packet
      BY <1>1, <2>1, <2>3, Numbers DEF Packet
    <3>2. QED
      BY <1>1, <2>1, <3>1 DEF Faithful
  <2>4. QED
    BY <2>1, <2>2, <2>3, Numbers
<1>3. BacklogInv'
  BY <1>0, <1>1, Numbers DEF BacklogInv
<1>4. /\ AnnounceInv' /\ LateInv' /\ StoreInv' /\ ReachInv' /\ TickReachInv'
      /\ PublishInv'
  BY <1>0 DEF AnnounceInv, LateInv, StoreInv, ReachInv, TickReachInv, PublishInv
<1>5. ContentInv'
  BY <1>2 DEF ContentInv
<1>6. ContentTypeOK'
  BY <1>0 DEF ContentTypeOK
<1>7. QED
  BY <1>3, <1>4, <1>5, <1>6 DEF WriterInv

\* A ring that is reset is silent.
LEMMA ResetBeginKeeps ==
    ASSUME InReach, PosInv, ContentTypeOK, WriterInv,
           NEW start \in 0..MaxTime, ResetBegin(start)
    PROVE  WriterInv' /\ ContentTypeOK'
<1>0. /\ writer = "idle" /\ writer' = "reset" /\ writingPos' = start
      /\ start >= writingPos /\ start \in Int
      /\ \A i \in Slots : slots[i] = Silence
      /\ UNCHANGED <<readablePos, slots, itemReady, view, useful, reader>>
  BY Numbers DEF ResetBegin, readerVars
<1>1. ASSUME NEW t \in Kept' PROVE Faithful(t)'
  <2>1. t \in Int
    BY <1>0, KeptMoves
  <2>2. QED
    BY <1>0, <2>1, AtSlot DEF Faithful
<1>2. PublishInv'
  BY <1>0 DEF PublishInv
<1>3. /\ BacklogInv' /\ AnnounceInv' /\ LateInv' /\ StoreInv' /\ ReachInv'
      /\ TickReachInv'
  BY <1>0 DEF BacklogInv, AnnounceInv, LateInv, StoreInv, ReachInv, TickReachInv
<1>4. ContentInv'
  BY <1>1 DEF ContentInv
<1>5. ContentTypeOK'
  BY <1>0 DEF ContentTypeOK
<1>6. QED
  BY <1>2, <1>3, <1>4, <1>5 DEF WriterInv

LEMMA ResetEndKeeps ==
    ASSUME InReach, PosInv, ContentTypeOK, WriterInv, ResetEnd
    PROVE  WriterInv' /\ ContentTypeOK'
<1>0. /\ writer = "reset" /\ writer' = "idle" /\ readablePos' = job.to
      /\ UNCHANGED <<writingPos, slots, itemReady, view, useful, reader>>
  BY DEF ResetEnd, Return, readerVars
<1>1. writingPos = job.to /\ \A i \in Slots : slots[i] = Silence
  BY <1>0 DEF PosInv, ExtendInv, WriterInv, PublishInv
<1>2. ASSUME NEW t \in Kept' PROVE Faithful(t)'
  <2>1. t \in Int /\ Faithful(t)' = Faithful(t)
    BY <1>0, KeptMoves, Numbers DEF Faithful
  <2>2. QED
    BY <1>1, <2>1, AtSlot DEF Faithful
<1>3. BacklogInv'
  BY <1>0, <1>1, Numbers DEF BacklogInv
<1>4. /\ AnnounceInv' /\ LateInv' /\ StoreInv' /\ ReachInv' /\ TickReachInv'
      /\ PublishInv'
  BY <1>0 DEF AnnounceInv, LateInv, StoreInv, ReachInv, TickReachInv, PublishInv
<1>5. ContentInv'
  BY <1>2 DEF ContentInv
<1>6. ContentTypeOK'
  BY <1>0 DEF ContentTypeOK
<1>7. QED
  BY <1>3, <1>4, <1>5, <1>6 DEF WriterInv

LEMMA WriterStepKeeps ==
    ASSUME InReach, PosInv, ContentTypeOK, WriterInv, WriterNext
    PROVE  WriterInv' /\ ContentTypeOK'
<1>1. ASSUME NEW from \in 0..MaxTime, NEW length \in 1..MaxPacket,
             WriteBegin(from, length)
      PROVE  WriterInv' /\ ContentTypeOK'
  BY <1>1, WriteBeginKeeps
<1>2. ASSUME NEW until \in 0..MaxTime, CloseBegin(until)
      PROVE  WriterInv' /\ ContentTypeOK'
  BY <1>2, CloseBeginKeeps
<1>3. ASSUME NEW start \in 0..MaxTime, ResetBegin(start)
      PROVE  WriterInv' /\ ContentTypeOK'
  BY <1>3, ResetBeginKeeps
<1>4. QED
  BY <1>1, <1>2, <1>3, WriteAnnounceKeeps, WriteStoreKeeps, WriteStoreEarlyKeeps,
     WriteAnnounceLateKeeps, WritePublishKeeps, WriteCloseKeeps,
     WriteClosePublishKeeps, WriteAdvanceKeeps, TickCloseKeeps,
     TickClosePublishKeeps, ExtendAnnounceKeeps, ExtendFillKeeps,
     ExtendPublishKeeps, ResetEndKeeps
  DEF WriterNext

LEMMA WriterInvUnchanged == WriterInv /\ UNCHANGED writerVars => WriterInv'
  BY DEF writerVars, WriterInv, BacklogInv, AnnounceInv, LateInv, StoreInv, ReachInv,
         TickReachInv, PublishInv, ContentInv, Kept, Oldest, Packet, Faithful, Ready

LEMMA OldestGrows ==
    ASSUME PosInv, NEW next \in Int, writingPos' = next, next >= writingPos
    PROVE  Oldest' \in Int /\ Oldest' >= Oldest
<1>1. CASE StoresInOrder
  BY <1>1, Numbers DEF Oldest
<1>2. CASE ~StoresInOrder
  BY <1>2, Numbers DEF Oldest
<1>3. QED
  BY <1>1, <1>2

\* The writer's steps do not spoil what was read: they only make it older.
LEMMA ReadsOutliveWrites ==
    ASSUME PosInv, PosInv', ContentTypeOK, CopyInv, UsefulInv, UNCHANGED readerVars,
           writingPos' >= writingPos, readablePos' >= readablePos
    PROVE  CopyInv' /\ UsefulInv'
<1>1. PICK next \in Int : next = writingPos'
  BY DEF PosInv, PosTypeOK
<1>2. PICK readable \in Int : readable = readablePos'
  BY DEF PosInv, PosTypeOK
<1>3. PICK oldest \in Int : oldest = Oldest'
  BY <1>1, OldestGrows
<1>4. oldest >= Oldest /\ Oldest \in Int /\ readable >= readablePos
  BY <1>1, <1>2, <1>3, OldestGrows, Numbers
<1>5. reader' = reader /\ view' = view /\ useful' = useful
  BY DEF readerVars
<1>6. ASSUME reader = "copy", NEW k \in DOMAIN view.items
      PROVE  view.from + k - 1 < readable
  <2>1. k \in Int /\ view.from \in Int /\ view.from + k - 1 < readablePos
    BY <1>6 DEF ContentTypeOK, CopyInv
  <2>2. QED
    BY <1>4, <2>1, Numbers
<1>7. ASSUME reader = "verify", NEW k \in DOMAIN view.items
      PROVE  \/ view.items[k] \in {view.from + k - 1, Silence}
             \/ view.from + k - 1 < oldest
  <2>1. k \in Int /\ view.from \in Int
    BY DEF ContentTypeOK
  <2>2. \/ view.items[k] \in {view.from + k - 1, Silence}
        \/ view.from + k - 1 < Oldest
    BY <1>7 DEF CopyInv
  <2>3. QED
    BY <1>4, <2>1, <2>2
<1>8. ASSUME NEW t \in DOMAIN useful
      PROVE  useful[t] \in {t, Silence} \/ (~StoresInOrder /\ t < oldest)
  <2>1. t \in Int
    BY DEF ContentTypeOK
  <2>2. useful[t] \in {t, Silence} \/ (~StoresInOrder /\ t < Oldest)
    BY DEF UsefulInv
  <2>3. QED
    BY <1>4, <2>1, <2>2
<1>9. QED
  BY <1>2, <1>3, <1>5, <1>6, <1>7, <1>8 DEF CopyInv, UsefulInv

LEMMA ReadBeginKeeps ==
    ASSUME PosInv, ContentTypeOK, CopyInv, UsefulInv,
           NEW from \in 0..MaxTime, NEW length \in 1..MaxRead, ReadBegin(from, length)
    PROVE  ContentTypeOK' /\ CopyInv' /\ UsefulInv'
<1> DEFINE readable == readablePos - from
           count == IF length < readable THEN length ELSE readable
<1>0. /\ from \in Int /\ length \in Int /\ MaxTime \in Int
      /\ reader = "idle" /\ useful' = << >>
      /\ UNCHANGED <<writingPos, readablePos, slots>>
  BY Numbers, TimeAssumption DEF ReadBegin, writerVars
<1>1. CASE /\ view' = [from |-> from, items |-> [k \in 1..count |-> Silence]]
           /\ reader' = "copy"
  <2>1. count \in Int /\ count <= readablePos - from
    BY <1>0, Numbers
  <2>2. /\ view'.from = from /\ DOMAIN view'.items = 1..count
        /\ view' = [from |-> view'.from, items |-> view'.items]
    BY <1>1
  <2> HIDE DEF count, readable
  <2>3. DOMAIN view'.items \subseteq Int
    BY <2>1, <2>2
  <2>4. ASSUME NEW k \in DOMAIN view'.items PROVE view'.from + k - 1 < readablePos
    BY <1>0, <2>1, <2>2, Numbers
  <2>5. ContentTypeOK'
    BY <1>0, <2>2, <2>3 DEF ContentTypeOK
  <2>6. CopyInv'
    BY <1>0, <1>1, <2>4 DEF CopyInv
  <2>7. UsefulInv'
    BY <1>0 DEF UsefulInv
  <2>8. QED
    BY <2>5, <2>6, <2>7
<1>2. CASE UNCHANGED <<view, reader>>
  BY <1>0, <1>2 DEF ContentTypeOK, CopyInv, UsefulInv
<1>3. QED
  BY <1>1, <1>2 DEF ReadBegin, Smaller

\* A copy takes what the ring holds: the right samples, except for those that
\* are too old to be in the ring.
LEMMA ReadCopyKeeps ==
    ASSUME PosInv, ContentTypeOK, ContentInv, CopyInv, UsefulInv, ReadCopy
    PROVE  ContentTypeOK' /\ CopyInv' /\ UsefulInv'
<1> DEFINE items == [k \in DOMAIN view.items |-> slots[(view.from + k - 1) % Size]]
<1>0. /\ reader = "copy" /\ reader' = "verify"
      /\ UNCHANGED <<writingPos, readablePos, slots, useful>>
      /\ view' = [view EXCEPT !.items = items]
  BY DEF ReadCopy, writerVars
<1>1. view' = [from |-> view.from, items |-> items]
  <2>1. view = [from |-> view.from, items |-> view.items]
    BY DEF ContentTypeOK
  <2> DEFINE f == view.from
             g == view.items
  <2>2. view = [from |-> f, items |-> g]
    BY <2>1
  <2> HIDE DEF f, g, items
  <2>3. view' = [from |-> f, items |-> items]
    BY <1>0, <2>2
  <2>4. QED
    BY <2>3 DEF f
<1>2. ASSUME NEW k \in DOMAIN view.items
      PROVE  \/ items[k] \in {view.from + k - 1, Silence}
             \/ view.from + k - 1 < Oldest
  <2> DEFINE t == view.from + k - 1
  <2>1. t \in Int /\ t < readablePos
    BY <1>0 DEF ContentTypeOK, CopyInv
  <2>2. items[k] = slots[At(t)]
    BY DEF At
  <2>3. CASE t < Oldest
    BY <2>3
  <2>4. CASE t >= Oldest
    <3> HIDE DEF t
    <3>1. t \in Kept
      BY <2>1, <2>4, Numbers DEF Kept
    <3>2. Faithful(t)
      BY <2>1, <3>1, Numbers DEF ContentInv
    <3>3. items[k] \in {t, Silence}
      BY <2>2, <3>2 DEF Faithful
    <3>4. QED
      BY <3>3 DEF t
  <2>5. QED
    BY <2>1, <2>3, <2>4, Numbers
<1>3. DOMAIN items = DOMAIN view.items
  OBVIOUS
<1> HIDE DEF items
<1>4. view'.from = view.from /\ view'.items = items
  BY <1>1
<1>5. ContentTypeOK'
  BY <1>0, <1>1, <1>3, <1>4 DEF ContentTypeOK
<1>6. Oldest' = Oldest
  BY <1>0 DEF Oldest
<1>7. CopyInv'
  BY <1>0, <1>2, <1>3, <1>4, <1>6 DEF CopyInv
<1>8. UsefulInv'
  BY <1>0, <1>6 DEF UsefulInv
<1>9. QED
  BY <1>5, <1>7, <1>8

\* What the check of writing_pos lets through is not too old.
LEMMA ReadVerifyKeeps ==
    ASSUME PosInv, ContentTypeOK, CopyInv, ReadVerify
    PROVE  ContentTypeOK' /\ CopyInv' /\ UsefulInv'
<1> DEFINE good == {k \in DOMAIN view.items : k > Overwritten}
           kept == {view.from + k - 1 : k \in good}
<1>0. /\ reader = "verify" /\ reader' = "idle" /\ view' = NoView
      /\ useful' = [t \in kept |-> view.items[t - view.from + 1]]
      /\ UNCHANGED <<writingPos, readablePos, slots>>
  BY DEF ReadVerify, writerVars
<1>1. ASSUME NEW t \in kept
      PROVE  /\ t \in Int
             /\ \/ view.items[t - view.from + 1] \in {t, Silence}
                \/ ~StoresInOrder /\ t < Oldest
  <2>1. PICK k \in DOMAIN view.items : k > Overwritten /\ t = view.from + k - 1
    OBVIOUS
  <2>2. k \in Int /\ view.from \in Int
    BY DEF ContentTypeOK
  <2>3. t \in Int /\ t - view.from + 1 = k
    BY <2>1, <2>2
  <2>4. k > writingPos - view.from - Size
    BY <2>1, <2>2, Numbers DEF Overwritten, Larger
  <2>5. t >= writingPos - Size
    BY <2>1, <2>2, <2>4, Numbers
  <2>6. view.items[k] \in {view.from + k - 1, Silence} \/ view.from + k - 1 < Oldest
    BY <1>0 DEF CopyInv
  <2>7. view.items[k] \in {t, Silence} \/ t < Oldest
    BY <2>1, <2>6
  <2>8. StoresInOrder => ~(t < Oldest)
    BY <2>3, <2>5, Numbers
  <2>9. QED
    BY <2>3, <2>7, <2>8
<1> HIDE DEF kept
<1>2. DOMAIN useful' = kept
  BY <1>0
<1>3. ContentTypeOK'
  <2>1. slots' \in [Slots -> Int]
    BY <1>0 DEF ContentTypeOK
  <2>2. /\ view' = [from |-> view'.from, items |-> view'.items]
        /\ view'.from \in Int
        /\ DOMAIN view'.items \subseteq Int
    BY <1>0, TimeAssumption DEF NoView
  <2>3. QED
    BY <1>1, <1>2, <2>1, <2>2 DEF ContentTypeOK
<1>4. CopyInv'
  BY <1>0 DEF CopyInv
<1>5. Oldest' = Oldest
  BY <1>0 DEF Oldest
<1>6. UsefulInv'
  BY <1>0, <1>1, <1>2, <1>5 DEF UsefulInv
<1>7. QED
  BY <1>3, <1>4, <1>6

RingInv == PosInv /\ ContentTypeOK /\ WriterInv /\ CopyInv /\ UsefulInv

LEMMA RingInvNext == ASSUME InReach PROVE RingInv /\ [Next]_vars => RingInv'
<1> SUFFICES ASSUME RingInv, [Next]_vars PROVE RingInv'
  OBVIOUS
<1>1. PosInv /\ ContentTypeOK /\ WriterInv /\ ContentInv /\ CopyInv /\ UsefulInv
  BY DEF RingInv, WriterInv
<1>2. PosInv' /\ writingPos' >= writingPos /\ readablePos' >= readablePos
  BY <1>1, PosInvNext
<1>3. CASE WriterNext
  <2>1. UNCHANGED readerVars
    BY <1>3 DEF WriterNext, WriteBegin, WriteAnnounce, WriteStore, WriteStoreEarly,
                WriteAnnounceLate, WritePublish, WriteClose, WriteClosePublish,
                WriteAdvance, CloseBegin, TickClose, TickClosePublish, ExtendAnnounce,
                ExtendFill, ExtendPublish, ResetBegin, ResetEnd
  <2>2. QED
    BY <1>1, <1>2, <1>3, <2>1, WriterStepKeeps, ReadsOutliveWrites DEF RingInv
<1>4. CASE ReaderNext
  <2>1. UNCHANGED writerVars
    BY <1>4 DEF ReaderNext, ReadBegin, ReadCopy, ReadVerify
  <2>2. ContentTypeOK' /\ CopyInv' /\ UsefulInv'
    BY <1>1, <1>4, ReadBeginKeeps, ReadCopyKeeps, ReadVerifyKeeps DEF ReaderNext
  <2>3. QED
    BY <1>1, <1>2, <2>1, <2>2, WriterInvUnchanged DEF RingInv
<1>5. CASE UNCHANGED vars
  <2>1. UNCHANGED writerVars /\ UNCHANGED readerVars /\ UNCHANGED slots
    BY <1>5 DEF vars, writerVars, readerVars
  <2>2. ContentTypeOK'
    BY <1>1, <2>1 DEF ContentTypeOK, readerVars
  <2>3. QED
    BY <1>1, <1>2, <2>1, <2>2, WriterInvUnchanged, ReadsOutliveWrites DEF RingInv
<1>6. QED
  BY <1>3, <1>4, <1>5 DEF Next

LEMMA RingInvariant == ASSUME InReach PROVE Spec => []RingInv
<1>1. Init => RingInv
  BY PosInvInit, WriterInvInit DEF RingInv
<1>2. RingInv /\ [Next]_vars => RingInv'
  BY RingInvNext
<1>3. QED
  BY <1>1, <1>2, PTL DEF Spec

\* A reader gets samples of the timestamps that it asked for, or silence, no
\* matter how the writer overtakes it.
THEOREM ReadsGetTheirSamples ==
    ASSUME InReach, StoresInOrder PROVE Spec => []ReadsAreFaithful
<1>1. RingInv => ReadsAreFaithful
  BY DEF RingInv, UsefulInv, ReadsAreFaithful
<1>2. QED
  BY <1>1, RingInvariant, PTL

\* The same for stores that another core sees in any order, for a reader that
\* keeps clear of the oldest items by the reach of a packet.
THEOREM ReadsWithMarginGetTheirSamples ==
    ASSUME InReach PROVE Spec => []ReadsWithMarginAreFaithful
<1>1. ASSUME RingInv PROVE ReadsWithMarginAreFaithful
  <2>1. PosInv /\ ContentTypeOK /\ UsefulInv
    BY <1>1 DEF RingInv
  <2>2. ASSUME NEW t \in DOMAIN useful, t >= writingPos + MaxGap + MaxPacket - Size
        PROVE  useful[t] \in {t, Silence}
    <3>1. t \in Int
      BY <2>1 DEF ContentTypeOK
    <3>2. ~StoresInOrder => ~(t < Oldest)
      BY <2>1, <2>2, <3>1, Numbers
    <3>3. QED
      BY <2>1, <3>2 DEF UsefulInv
  <2>3. QED
    BY <2>2 DEF ReadsWithMarginAreFaithful
<1>2. QED
  BY <1>1, RingInvariant, PTL

\* When the tick lets the readers go on to the clock, all that it makes readable
\* is silence, although the flags of those items may say that they are ready.
THEOREM BrokenStreamsAreSilent ==
    ASSUME InReach PROVE Spec => []BrokenStreamIsSilent
<1>1. ASSUME RingInv PROVE BrokenStreamIsSilent
  <2>1. PosInv /\ (writer = "extendPublish" => \A t \in Packet : slots[At(t)] = Silence)
    BY <1>1 DEF RingInv, WriterInv, PublishInv
  <2>2. ASSUME NEW t \in Larger(job.from, job.to - Size)..(job.to - 1)
        PROVE  t \in Packet
    BY <2>1, Numbers DEF Larger, Packet
  <2>3. QED
    BY <2>1, <2>2 DEF BrokenStreamIsSilent, At
<1>2. QED
  BY <1>1, RingInvariant, PTL

-----------------------------------------------------------------------------
(* What arrived in time stays *)

\* A sample of the ring that may still be closed over is marked as ready, until
\* a hole that will take its slot is about to be announced.  No slot holds a
\* sample beyond writing_pos.
SlotsInv ==
    \A i \in Slots :
        /\ slots[i] = Silence \/ slots[i] < writingPos
        /\ writer \in {"extend", "extendFill"} => slots[i] = Silence \/ slots[i] < job.from

MarkedInv ==
    \A t \in Kept :
        slots[At(t)] = t /\ t >= readablePos /\ t >= 0 =>
            \/ Ready(t)
            \/ writer = "announce" /\ t < job.from - Size

ArrivedInv == SlotsInv /\ MarkedInv

\* The samples that a step must not lose.
Survive ==
    \A t \in Kept' : t >= 0 /\ slots[At(t)] = t => slots'[At(t)] = t

LEMMA ArrivedInvInit == Init => ArrivedInv
<1> SUFFICES ASSUME Init PROVE ArrivedInv
  OBVIOUS
<1>1. \A i \in Slots : slots[i] = Silence
  BY DEF Init
<1>2. PosInv
  BY PosInvInit
<1>3. SlotsInv
  BY <1>1 DEF SlotsInv
<1>4. ASSUME NEW t \in Kept PROVE ~(slots[At(t)] = t /\ t >= 0)
  <2>1. t \in Int
    BY <1>2, Numbers DEF Kept
  <2>2. slots[At(t)] = Silence
    BY <1>1, <2>1, AtSlot
  <2>3. QED
    BY <2>1, <2>2 DEF Silence
<1>5. QED
  BY <1>3, <1>4 DEF ArrivedInv, MarkedInv

\* Steps that move readable_pos and nothing else.
LEMMA ArrivedStays ==
    ASSUME PosInv, ArrivedInv, NEW r \in Int, readablePos' = r, r >= readablePos,
           UNCHANGED <<writingPos, slots, itemReady>>, writer # "announce",
           writer' \in {"extend", "extendFill"} => job'.from = writingPos
    PROVE  ArrivedInv' /\ Survive
<1>1. SlotsInv'
  BY DEF ArrivedInv, SlotsInv
<1>2. ASSUME NEW t \in Kept', slots[At(t)] = t, t >= r, t >= 0 PROVE Ready(t)'
  <2>1. t \in Int /\ t \in Kept
    BY KeptMoves, Numbers
  <2>2. t >= readablePos
    BY <1>2, <2>1, Numbers
  <2>3. Ready(t)
    BY <1>2, <2>1, <2>2 DEF ArrivedInv, MarkedInv
  <2>4. QED
    BY <2>3 DEF Ready
<1>3. MarkedInv'
  BY <1>2 DEF MarkedInv
<1>4. QED
  BY <1>1, <1>3 DEF ArrivedInv, Survive

LEMMA ArrivedBegin ==
    ASSUME PosInv, ArrivedInv, StoresInOrder, NEW from \in 0..MaxTime,
           NEW length \in 1..MaxPacket, WriteBegin(from, length)
    PROVE  ArrivedInv' /\ Survive
<1>0. /\ writer = "idle" /\ writer' = "announce" /\ from \in Int
      /\ job' = [from |-> from, to |-> from + length,
                 hole |-> from > writingPos \/ readablePos # writingPos]
      /\ itemReady' = [i \in Slots |->
            itemReady[i] /\ ~(from > writingPos /\ i \in InRing(writingPos, from))]
      /\ UNCHANGED <<writingPos, readablePos, slots>>
  BY Numbers DEF WriteBegin
<1>1. job'.from = from
  BY <1>0
<1>2. SlotsInv'
  BY <1>0 DEF ArrivedInv, SlotsInv
<1>3. ASSUME NEW t \in Kept', slots[At(t)] = t, t >= readablePos, t >= 0
      PROVE  Ready(t)' \/ t < from - Size
  <2>1. t \in Int /\ t \in Kept /\ t < writingPos /\ At(t) \in Slots
    BY <1>0, KeptMoves, Numbers, AtSlot
  <2>2. Ready(t)
    BY <1>0, <1>3, <2>1 DEF ArrivedInv, MarkedInv
  <2>3. CASE from > writingPos /\ At(t) \in InRing(writingPos, from)
    <3>1. PICK s \in writingPos..(from - 1) : At(t) = At(s)
      BY <1>0, <2>3, Numbers, InRingWithin
    <3>2. s \in Int /\ t < s /\ s < from
      BY <1>0, <2>1, <3>1, Numbers
    <3>3. s - t >= Size
      BY <2>1, <3>1, <3>2, SameSlot DEF At
    <3>4. QED
      BY <1>0, <2>1, <3>2, <3>3, Numbers
  <2>4. CASE ~(from > writingPos /\ At(t) \in InRing(writingPos, from))
    BY <1>0, <2>1, <2>2, <2>4 DEF Ready
  <2>5. QED
    BY <2>3, <2>4
<1>4. MarkedInv'
  BY <1>0, <1>1, <1>3 DEF MarkedInv
<1>5. QED
  BY <1>0, <1>2, <1>4 DEF ArrivedInv, Survive

LEMMA ArrivedAnnounce ==
    ASSUME PosInv, ContentTypeOK, WriterInv, ArrivedInv, StoresInOrder, WriteAnnounce
    PROVE  ArrivedInv' /\ Survive
<1> DEFINE next == IF writingPos > job.to THEN writingPos ELSE job.to
<1>0. /\ writer = "announce" /\ writer' = "store" /\ writingPos' = next
      /\ UNCHANGED <<readablePos, slots, itemReady, job>>
  BY DEF WriteAnnounce, Announce, Larger
<1>1. next \in Int /\ next >= writingPos /\ next >= job.to
  BY Numbers
<1> HIDE DEF next
<1>2. job.from < job.to
  BY <1>0 DEF WriterInv, AnnounceInv
<1>3. ASSUME NEW i \in Slots PROVE slots[i] = Silence \/ slots[i] < next
  <2>1. slots[i] \in Int /\ (slots[i] = Silence \/ slots[i] < writingPos)
    BY DEF ArrivedInv, SlotsInv, ContentTypeOK
  <2>2. QED
    BY <1>1, <2>1, Numbers
<1>4. ASSUME NEW t \in Kept', slots[At(t)] = t, t >= readablePos, t >= 0 PROVE Ready(t)
  <2>1. /\ t \in Int /\ t >= next - Size /\ (t < writingPos => t \in Kept)
        /\ At(t) \in Slots
    BY <1>0, <1>1, KeptMoves, Numbers, AtSlot
  <2>2. t < writingPos
    BY <1>4, <2>1 DEF ArrivedInv, SlotsInv, Silence
  <2>3. ~(t < job.from - Size)
    BY <1>1, <1>2, <2>1, Numbers
  <2>4. QED
    BY <1>4, <2>1, <2>2, <2>3 DEF ArrivedInv, MarkedInv
<1>5. MarkedInv'
  BY <1>0, <1>4 DEF MarkedInv, Ready
<1>6. SlotsInv'
  BY <1>0, <1>3 DEF SlotsInv
<1>7. QED
  BY <1>0, <1>5, <1>6 DEF ArrivedInv, Survive

LEMMA ArrivedStore ==
    ASSUME PosInv, ContentTypeOK, WriterInv, ArrivedInv, StoresInOrder, WriteStore
    PROVE  ArrivedInv' /\ Survive
<1>0. /\ writer = "store" /\ StoreItems /\ writer' \in {"close", "publish"}
      /\ UNCHANGED <<writingPos, readablePos, job>>
  BY DEF WriteStore, AfterStores
<1>1. /\ job.from >= writingPos - Size /\ job.from < job.to
      /\ job.to <= writingPos /\ job.to - job.from < Size
  BY <1>0 DEF WriterInv, StoreInv
<1>2. /\ \A t \in Packet : slots'[At(t)] = t /\ itemReady'[At(t)]
      /\ \A i \in Slots :
            \/ \E t \in Packet : i = At(t)
            \/ slots'[i] = slots[i] /\ itemReady'[i] = itemReady[i]
  BY <1>0, <1>1, StoreFacts
<1>3. \A t \in Packet : t \in Int /\ t < writingPos
  BY <1>1, Numbers DEF Packet
<1>4. SlotsInv'
  <2>1. ASSUME NEW i \in Slots PROVE slots'[i] = Silence \/ slots'[i] < writingPos
    BY <1>2, <1>3 DEF ArrivedInv, SlotsInv
  <2>2. QED
    BY <1>0, <2>1 DEF SlotsInv
<1>5. ASSUME NEW t \in Kept', t >= 0
      PROVE  /\ slots[At(t)] = t => slots'[At(t)] = t
             /\ slots'[At(t)] = t /\ t >= readablePos => Ready(t)'
  <2>1. t \in Int /\ t < writingPos /\ t >= writingPos - Size /\ t \in Kept
    BY <1>0, KeptMoves, Numbers
  <2>2. CASE t \in Packet
    BY <1>2, <2>2 DEF Ready
  <2>3. CASE t \notin Packet
    <3>1. ASSUME NEW s \in Packet, At(t) = At(s) PROVE FALSE
      <4>1. s \in Int /\ s - t < Size /\ t - s < Size
        BY <1>1, <2>1, Numbers DEF Packet
      <4>2. s = t
        BY <2>1, <3>1, <4>1, AtNear
      <4>3. QED
        BY <2>3, <4>2
    <3>2. slots'[At(t)] = slots[At(t)] /\ itemReady'[At(t)] = itemReady[At(t)]
      BY <1>2, <2>1, <3>1, AtSlot
    <3>3. slots[At(t)] = t /\ t >= readablePos => Ready(t)
      BY <1>0, <1>5, <2>1 DEF ArrivedInv, MarkedInv
    <3>4. QED
      BY <3>2, <3>3 DEF Ready
  <2>4. QED
    BY <2>2, <2>3
<1>6. MarkedInv'
  BY <1>0, <1>5 DEF MarkedInv
<1>7. QED
  BY <1>4, <1>5, <1>6 DEF ArrivedInv, Survive

\* The closing of holes spares a sample of the ring: it is marked as ready.
LEMMA ArrivedFill ==
    ASSUME PosInv, ContentTypeOK, ArrivedInv, NEW c \in Int, c <= writingPos,
           CloseFill(c), writer # "announce", writer' \notin {"extend", "extendFill"},
           UNCHANGED <<writingPos, readablePos, itemReady>>
    PROVE  ArrivedInv' /\ Survive
<1>1. \A i \in Slots :
          \/ slots'[i] = slots[i]
          \/ /\ slots'[i] = Silence
             /\ ~itemReady[i]
             /\ \E t \in readablePos..(c - 1) : i = At(t)
  BY FillFacts
<1>2. SlotsInv'
  BY <1>1 DEF ArrivedInv, SlotsInv
<1>3. ASSUME NEW t \in Kept', t >= 0
      PROVE  /\ slots[At(t)] = t => slots'[At(t)] = t
             /\ slots'[At(t)] = t /\ t >= readablePos => Ready(t)'
  <2>1. t \in Int /\ t < writingPos /\ t >= writingPos - Size /\ t \in Kept
        /\ At(t) \in Slots
    BY KeptMoves, Numbers, AtSlot
  <2>2. slots[At(t)] = t /\ t >= readablePos => Ready(t)
    BY <1>3, <2>1 DEF ArrivedInv, MarkedInv
  <2>3. ASSUME slots[At(t)] = t, slots'[At(t)] # slots[At(t)] PROVE FALSE
    <3>1. ~itemReady[At(t)] /\ \E s \in readablePos..(c - 1) : At(t) = At(s)
      BY <1>1, <2>1, <2>3
    <3>2. PICK s \in readablePos..(c - 1) : At(t) = At(s)
      BY <3>1
    <3>3. s \in Int /\ s >= readablePos /\ s < writingPos
      BY <3>2, Numbers
    <3>4. t >= readablePos
      <4>1. CASE s <= t
        BY <2>1, <3>3, <4>1, Numbers
      <4>2. CASE t < s
        <5>1. s - t >= Size
          BY <2>1, <3>2, <3>3, <4>2, SameSlot DEF At
        <5>2. QED
          BY <2>1, <3>3, <5>1, Numbers
      <4>3. QED
        BY <2>1, <3>3, <4>1, <4>2
    <3>5. QED
      BY <2>2, <2>3, <3>1, <3>4 DEF Ready
  <2>4. slots'[At(t)] = t => slots[At(t)] = t
    BY <1>1, <1>3, <2>1 DEF Silence
  <2>5. QED
    BY <2>2, <2>3, <2>4 DEF Ready
<1>4. MarkedInv'
  BY <1>3 DEF MarkedInv
<1>5. QED
  BY <1>2, <1>3, <1>4 DEF ArrivedInv, Survive

LEMMA ArrivedExtend ==
    ASSUME PosInv, ContentTypeOK, WriterInv, ArrivedInv, ExtendAnnounce
    PROVE  ArrivedInv' /\ Survive
<1>0. /\ writer = "extend" /\ writer' = "extendFill" /\ writingPos' = job.to
      /\ UNCHANGED <<readablePos, slots, itemReady, job>>
  BY DEF ExtendAnnounce
<1>1. /\ writingPos <= job.to /\ readablePos = writingPos
      /\ job.from = readablePos
  BY <1>0 DEF PosInv, ExtendInv, WriterInv, ReachInv
<1>2. SlotsInv'
  <2>1. ASSUME NEW i \in Slots
        PROVE  slots[i] = Silence \/ (slots[i] < job.from /\ slots[i] < job.to)
    <3>1. slots[i] \in Int /\ (slots[i] = Silence \/ slots[i] < job.from)
      BY <1>0 DEF ArrivedInv, SlotsInv, ContentTypeOK
    <3>2. QED
      BY <1>1, <3>1, Numbers
  <2>2. QED
    BY <1>0, <2>1 DEF SlotsInv
<1>3. ASSUME NEW t \in Kept', t >= 0, slots[At(t)] = t PROVE t < readablePos
  <2>1. t \in Int /\ At(t) \in Slots
    BY <1>0, <1>1, KeptMoves, Numbers, AtSlot
  <2>2. slots[At(t)] = Silence \/ slots[At(t)] < job.from
    BY <1>0, <2>1 DEF ArrivedInv, SlotsInv
  <2>3. QED
    BY <1>1, <1>3, <2>1, <2>2 DEF Silence
<1>4. ASSUME NEW t \in Kept' PROVE ~(slots[At(t)] = t /\ t >= readablePos /\ t >= 0)
  <2>1. t \in Int
    BY <1>0, <1>1, KeptMoves, Numbers
  <2>2. QED
    BY <1>3, <2>1, Numbers
<1>5. MarkedInv'
  BY <1>0, <1>4 DEF MarkedInv
<1>6. QED
  BY <1>0, <1>2, <1>5 DEF ArrivedInv, Survive

LEMMA ArrivedExtendFill ==
    ASSUME PosInv, ContentTypeOK, WriterInv, ArrivedInv, ExtendFill
    PROVE  ArrivedInv' /\ Survive
<1>0. /\ writer = "extendFill" /\ writer' = "extendPublish"
      /\ slots' = [i \in Slots |->
             IF i \in InRing(job.from, job.to) THEN Silence ELSE slots[i]]
      /\ UNCHANGED <<writingPos, readablePos, itemReady, job>>
  BY DEF ExtendFill
<1>1. /\ writingPos = job.to /\ job.from = readablePos /\ job.from <= job.to
  BY <1>0 DEF PosInv, ExtendInv, WriterInv, ReachInv
<1>2. SlotsInv'
  BY <1>0 DEF ArrivedInv, SlotsInv
<1>3. ASSUME NEW t \in Kept', t >= 0, slots[At(t)] = t
      PROVE  t < readablePos /\ slots'[At(t)] = t
  <2>1. t \in Int /\ At(t) \in Slots /\ t >= writingPos - Size
    BY <1>0, KeptMoves, Numbers, AtSlot
  <2>2. slots[At(t)] = Silence \/ slots[At(t)] < job.from
    BY <1>0, <2>1 DEF ArrivedInv, SlotsInv
  <2>3. t < readablePos
    BY <1>1, <1>3, <2>1, <2>2 DEF Silence
  <2>4. ASSUME At(t) \in InRing(job.from, job.to) PROVE FALSE
    <3>1. PICK s \in job.from..(job.to - 1) : At(t) = At(s)
      BY <1>1, <2>4, Numbers, InRingWithin
    <3>2. s \in Int /\ t < s /\ s < writingPos
      BY <1>1, <2>1, <2>3, <3>1, Numbers
    <3>3. s - t >= Size
      BY <2>1, <3>1, <3>2, SameSlot DEF At
    <3>4. QED
      BY <2>1, <3>2, <3>3, Numbers
  <2>5. QED
    BY <1>0, <1>3, <2>1, <2>3, <2>4
<1>4. ASSUME NEW t \in Kept', t >= 0, slots'[At(t)] = t PROVE slots[At(t)] = t
  <2>1. t \in Int /\ At(t) \in Slots
    BY <1>0, KeptMoves, Numbers, AtSlot
  <2>2. QED
    BY <1>0, <1>4, <2>1 DEF Silence
<1>5. ASSUME NEW t \in Kept' PROVE ~(slots'[At(t)] = t /\ t >= readablePos /\ t >= 0)
  <2>1. t \in Int
    BY <1>0, KeptMoves, Numbers
  <2>2. QED
    BY <1>3, <1>4, <2>1, Numbers
<1>6. MarkedInv'
  BY <1>0, <1>5 DEF MarkedInv
<1>7. QED
  BY <1>2, <1>3, <1>6 DEF ArrivedInv, Survive

LEMMA ArrivedReset ==
    ASSUME PosInv, ArrivedInv, NEW start \in 0..MaxTime, ResetBegin(start)
    PROVE  ArrivedInv' /\ Survive
<1>0. /\ writer' = "reset" /\ writingPos' = start
      /\ start >= writingPos /\ start \in Int
      /\ \A i \in Slots : slots[i] = Silence
      /\ UNCHANGED <<readablePos, slots, itemReady>>
  BY Numbers DEF ResetBegin
<1>1. ASSUME NEW t \in Kept', t >= 0 PROVE slots[At(t)] # t
  <2>1. t \in Int /\ At(t) \in Slots
    BY <1>0, KeptMoves, AtSlot
  <2>2. QED
    BY <1>0, <1>1, <2>1 DEF Silence
<1>2. QED
  BY <1>0, <1>1 DEF ArrivedInv, SlotsInv, MarkedInv, Survive

LEMMA ArrivedInvNext ==
    ASSUME StoresInOrder
    PROVE  RingInv /\ ArrivedInv /\ [Next]_vars => ArrivedInv' /\ Survive
<1> SUFFICES ASSUME RingInv, ArrivedInv, [Next]_vars PROVE ArrivedInv' /\ Survive
  OBVIOUS
<1>1. PosInv /\ ContentTypeOK /\ WriterInv
  BY DEF RingInv
<1>2. PosInv' /\ readablePos' >= readablePos
  BY <1>1, PosInvNext
<1>3. PICK r \in Int : readablePos' = r /\ r >= readablePos
  BY <1>2 DEF PosInv, PosTypeOK
<1>4. CASE \/ WritePublish \/ WriteClosePublish \/ WriteAdvance \/ ExtendPublish
           \/ ResetEnd \/ \E until \in 0..MaxTime : CloseBegin(until)
  <2>1. /\ UNCHANGED <<writingPos, slots, itemReady>> /\ writer # "announce"
        /\ writer' \notin {"extend", "extendFill"}
    BY <1>4 DEF WritePublish, WriteClosePublish, WriteAdvance, ExtendPublish, ResetEnd,
                CloseBegin, Return
  <2>2. QED
    BY <1>1, <1>3, <2>1, ArrivedStays
<1>5. CASE TickClosePublish
  <2>1. /\ UNCHANGED <<writingPos, slots, itemReady>> /\ writer = "tickPublish"
        /\ \/ job.to # job.from /\ job' = job
           \/ writer' = "idle"
    BY <1>5 DEF TickClosePublish, Return
  <2>2. job.to # job.from => job.from = writingPos
    BY <1>1, <2>1 DEF PosInv, TickInv
  <2>3. QED
    BY <1>1, <1>3, <2>1, <2>2, ArrivedStays
<1>6. CASE WriteClose
  <2>1. writingPos - HoleFixWait \in Int /\ writingPos - HoleFixWait <= writingPos
    BY <1>1, Numbers
  <2>2. QED
    BY <1>1, <1>6, <2>1, ArrivedFill DEF WriteClose
<1>7. CASE TickClose
  <2>1. job.from \in Int /\ job.from <= writingPos
    BY <1>1, <1>7, Numbers DEF TickClose, PosInv, TickInv
  <2>2. QED
    BY <1>1, <1>7, <2>1, ArrivedFill DEF TickClose
<1>8. CASE WriteStoreEarly \/ WriteAnnounceLate
  BY <1>1, <1>8 DEF WriteStoreEarly, WriteAnnounceLate, WriterInv, LateInv
<1>9. CASE ReaderNext \/ UNCHANGED vars
  <2>1. UNCHANGED writerVars
    BY <1>9 DEF ReaderNext, ReadBegin, ReadCopy, ReadVerify, vars, writerVars
  <2>2. QED
    BY <2>1 DEF writerVars, ArrivedInv, SlotsInv, MarkedInv, Survive, Kept, Oldest, Ready
<1>10. ASSUME NEW from \in 0..MaxTime, NEW length \in 1..MaxPacket,
              WriteBegin(from, length)
       PROVE  ArrivedInv' /\ Survive
  BY <1>1, <1>10, ArrivedBegin
<1>11. ASSUME NEW start \in 0..MaxTime, ResetBegin(start) PROVE ArrivedInv' /\ Survive
  BY <1>1, <1>11, ArrivedReset
<1>12. QED
  BY <1>1, <1>4, <1>5, <1>6, <1>7, <1>8, <1>9, <1>10, <1>11, ArrivedAnnounce,
     ArrivedStore, ArrivedExtend, ArrivedExtendFill
  DEF Next, WriterNext

\* No step of the writer replaces a sample that is still in the ring, neither by
\* silence nor by a sample of another lap.
THEOREM ArrivedSamplesStay ==
    ASSUME InReach, StoresInOrder PROVE Spec => ArrivedSamplesSurvive
<1>1. Init => ArrivedInv
  BY ArrivedInvInit
<1>2. RingInv /\ ArrivedInv /\ [Next]_vars => ArrivedInv' /\ Survive
  BY ArrivedInvNext
<1>3. RingInv /\ RingInv' /\ Survive =>
          \A t \in Larger(0, writingPos' - Size)..(writingPos' - 1) :
              slots[t % Size] = t => slots'[t % Size] = t
  <2> SUFFICES ASSUME RingInv, RingInv', Survive
               PROVE  \A t \in Larger(0, writingPos' - Size)..(writingPos' - 1) :
                          slots[t % Size] = t => slots'[t % Size] = t
    OBVIOUS
  <2>1. PICK next \in Int : next = writingPos'
    BY DEF RingInv, PosInv, PosTypeOK
  <2>2. Size \in Int
    BY SizeAssumption
  <2>3. ASSUME NEW t \in Larger(0, next - Size)..(next - 1), slots[t % Size] = t
        PROVE  slots'[t % Size] = t
    <3>1. t \in Int /\ t >= 0 /\ t >= next - Size /\ t < next
      BY <2>2 DEF Larger
    <3>2. Oldest' = next - Size
      BY <2>1, <2>2 DEF Oldest
    <3>3. t \in Kept'
      <4>1. t \in (next - Size)..(next - 1)
        BY <2>2, <3>1
      <4>2. Kept' = (next - Size)..(next - 1)
        BY <2>1, <3>2 DEF Kept
      <4>3. QED
        BY <4>1, <4>2
    <3>4. QED
      BY <2>3, <3>1, <3>3 DEF Survive, At
  <2>4. QED
    BY <2>1, <2>3
<1>4. RingInv /\ RingInv' /\ ArrivedInv /\ [Next]_vars =>
          [\A t \in Larger(0, writingPos' - Size)..(writingPos' - 1) :
              slots[t % Size] = t => slots'[t % Size] = t]_vars
  BY <1>2, <1>3
<1>5. QED
  BY <1>1, <1>2, <1>4, RingInvariant, PTL DEF Spec, ArrivedSamplesSurvive
=============================================================================
