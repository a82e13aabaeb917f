----------------------------- MODULE RingBuffer -----------------------------
(***************************************************************************)
(* aoip/src/ring_buffer.rs: the ring buffer between the "flows RX" thread, *)
(* which writes the samples of packets that arrive late, reordered or not  *)
(* at all (RBInput), and any number of threads that read it without locks  *)
(* (RBOutput).  A sample is identified by its timestamp: the slot of       *)
(* timestamp t is t % Size, and a slot holds the timestamp of the sample   *)
(* that was stored there or Silence (T::default()).                        *)
(*                                                                         *)
(* A step is one atomic store or load of a shared position together with   *)
(* the thread-local code around it.  The stores of all the items of a call *)
(* are one step, and so are the loads of all the items of a read: every    *)
(* property below speaks of one timestamp at a time, and for one timestamp *)
(* only the order of its slot's store or load relative to the positions    *)
(* matters.                                                                *)
(*                                                                         *)
(* Timestamps are usize compared through wrapsub; they are integers here,  *)
(* which is the same as long as no two of them are 2^63 samples apart.     *)
(***************************************************************************)
EXTENDS Integers

CONSTANTS
    Size,           \* items_size
    StartTime,      \* start_time of new_owned / wrap_external_sink
    HoleFixWait,    \* hole_fix_wait
    MaxTime,        \* bound on the timestamps
    MaxPacket,      \* bound on the samples of a packet
    MaxRead,        \* bound on the length of a read
    MaxLate,        \* how far behind writing_pos a packet may start
    MaxGap,         \* how far beyond writing_pos a packet or a tick may reach
    StoresInOrder   \* FALSE: an AArch64 build, where the relaxed stores of the
                    \* items may be seen before the store of writing_pos

\* RingBufferShared::new asserts that items_size is a power of two,
\* write_from_at that a packet is shorter than the ring.
ASSUME SizeAssumption == Size \in Nat \ {0}
ASSUME PacketAssumption == MaxPacket \in 1..(Size - 1)
ASSUME WaitAssumption == HoleFixWait \in Nat
ASSUME TimeAssumption ==
    /\ StartTime \in Nat /\ StartTime >= Size
    /\ MaxTime \in Nat /\ MaxTime >= StartTime
    /\ MaxRead \in Nat /\ MaxLate \in Nat /\ MaxGap \in Nat
ASSUME OrderAssumption == StoresInOrder \in BOOLEAN

Silence == -1
Slots == 0..(Size - 1)
Samples == 0..(MaxTime - 1)

VARIABLES
    writingPos, readablePos, holesCount,    \* the three shared atomics
    slots,                                  \* the shared buffer
    itemReady,                              \* RBInput.item_ready
    writer,                                 \* where the writer is in its call
    job,                                    \* the writer's local variables
    reader,                                 \* where the reader is in read_at
    view,                                   \* the reader's local variables
    useful                                  \* the result of the last read_at:
                                            \* the useful part of `output`,
                                            \* as a function of timestamps

vars == <<writingPos, readablePos, holesCount, slots, itemReady, writer, job,
          reader, view, useful>>

writerVars == <<writingPos, readablePos, holesCount, slots, itemReady, writer, job>>
readerVars == <<reader, view, useful>>

Smaller(a, b) == IF a < b THEN a ELSE b
Larger(a, b)  == IF a > b THEN a ELSE b

\* for_in_ring(Size, from, to): the slots visited.  Nothing if the positions
\* are equal, the whole ring if they differ but share a slot, and otherwise
\* the slots up to the next one that `to` maps to - also when the positions
\* are more than Size apart.
RingLength(from, to) ==
    IF from = to THEN 0
    ELSE IF (to - from) % Size = 0 THEN Size ELSE (to - from) % Size

InRing(from, to) == {(from + k) % Size : k \in 0..(RingLength(from, to) - 1)}

\* The local variables outside a call.
NoJob  == [from |-> StartTime, to |-> StartTime, hole |-> FALSE]
NoView == [from |-> StartTime, items |-> << >>]

\* The writer's call returns.
Return ==
    /\ writer' = "idle"
    /\ job' = NoJob

Init ==
    /\ writingPos = StartTime
    /\ readablePos = StartTime
    /\ holesCount = 0
    /\ slots = [i \in Slots |-> Silence]
    /\ itemReady = [i \in Slots |-> FALSE]
    /\ writer = "idle"
    /\ job = NoJob
    /\ reader = "idle"
    /\ view = NoView
    /\ useful = << >>

-----------------------------------------------------------------------------
(* The writer: write_from_at *)

\* The length check, the search for a new hole and the marking of its items,
\* and whether there was a hole already.
WriteBegin(from, length) ==
    LET newHole == from > writingPos
    IN
    /\ writer = "idle"
    /\ from \in (writingPos - MaxLate)..(writingPos + MaxGap)
    /\ from \in 0..(MaxTime - length)
    /\ itemReady' = [i \in Slots |->
           itemReady[i] /\ ~(newHole /\ i \in InRing(writingPos, from))]
    /\ job' = [from |-> from, to |-> from + length,
               hole |-> newHole \/ readablePos # writingPos]
    /\ writer' = "announce"
    /\ UNCHANGED <<writingPos, readablePos, holesCount, slots, readerVars>>

\* "Update writing_pos to let RBOutput know that we're going to write", never
\* back in time.
Announce ==
    writingPos' = Larger(writingPos, job.to)

StoreItems ==
    LET at(i) == CHOOSE t \in job.from..(job.to - 1) : t % Size = i
        written == InRing(job.from, job.to)
    IN
    /\ slots' = [i \in Slots |-> IF i \in written THEN at(i) ELSE slots[i]]
    /\ itemReady' = [i \in Slots |-> i \in written \/ itemReady[i]]

WriteAnnounce ==
    /\ writer = "announce"
    /\ Announce
    /\ writer' = "store"
    /\ UNCHANGED <<readablePos, holesCount, slots, itemReady, job, readerVars>>

AfterStores == IF job.hole THEN "close" ELSE "publish"

WriteStore ==
    /\ writer = "store"
    /\ StoreItems
    /\ writer' = AfterStores
    /\ UNCHANGED <<writingPos, readablePos, holesCount, job, readerVars>>

\* The same two steps in the order another core may see them.
WriteStoreEarly ==
    /\ ~StoresInOrder
    /\ writer = "announce"
    /\ StoreItems
    /\ writer' = "announceLate"
    /\ UNCHANGED <<writingPos, readablePos, holesCount, job, readerVars>>

WriteAnnounceLate ==
    /\ writer = "announceLate"
    /\ Announce
    /\ writer' = AfterStores
    /\ UNCHANGED <<readablePos, holesCount, slots, itemReady, job, readerVars>>

\* No hole: everything written is readable.
WritePublish ==
    /\ writer = "publish"
    /\ readablePos' = writingPos
    /\ Return
    /\ UNCHANGED <<writingPos, holesCount, slots, itemReady, readerVars>>

-----------------------------------------------------------------------------
(* The writer: close_items_until_internal, called by write_from_at with     *)
(* (writingPos - HoleFixWait, writingPos) and by close_items_until with     *)
(* (until, until)                                                           *)

\* A plausible bug: what has arrived is silenced with the holes.
FillHolesForgetsReady(closeUntil) ==
    /\ slots' = [i \in Slots |->
           IF i \in InRing(readablePos, closeUntil) THEN Silence ELSE slots[i]]
    /\ UNCHANGED holesCount

FillHoles(closeUntil) ==
    LET holes == {i \in InRing(readablePos, closeUntil) : ~itemReady[i]}
    IN
    /\ slots' = [i \in Slots |-> IF i \in holes THEN Silence ELSE slots[i]]
    /\ holesCount' = IF holes = {} THEN holesCount ELSE holesCount + 1

CloseFill(closeUntil) ==
    \/ /\ closeUntil > readablePos
       /\ FillHoles(closeUntil)
    \/ /\ closeUntil <= readablePos
       /\ UNCHANGED <<slots, holesCount>>

\* The defaults are stored before the position that makes them readable.
ClosePublish(closeUntil) ==
    readablePos' = Larger(readablePos, closeUntil)

WriteClose ==
    /\ writer = "close"
    /\ CloseFill(writingPos - HoleFixWait)
    /\ writer' = "closePublish"
    /\ UNCHANGED <<writingPos, readablePos, itemReady, job, readerVars>>

WriteClosePublish ==
    /\ writer = "closePublish"
    /\ ClosePublish(writingPos - HoleFixWait)
    /\ writer' = "advance"
    /\ UNCHANGED <<writingPos, holesCount, slots, itemReady, job, readerVars>>

\* The items from readable_pos on that are ready, up to writing_pos: there
\* are `run` of them.
IsReadyRun(run) ==
    LET length == RingLength(readablePos, writingPos)
    IN  /\ run \in 0..length
        /\ \A k \in 0..(run - 1) : itemReady[(readablePos + k) % Size]
        /\ run = length \/ ~itemReady[(readablePos + run) % Size]

\* "Check for fixed holes and update readable_pos accordingly."
WriteAdvance ==
    /\ writer = "advance"
    /\ \/ /\ writingPos > readablePos
          /\ \E run \in 0..Size :
                 /\ IsReadyRun(run)
                 /\ readablePos' = readablePos + run
       \/ /\ writingPos = readablePos
          /\ UNCHANGED readablePos
    /\ Return
    /\ UNCHANGED <<writingPos, holesCount, slots, itemReady, readerVars>>

-----------------------------------------------------------------------------
(* The writer: close_items_until, the periodic tick of the RX thread *)

\* The position is clamped to writing_pos; what lies beyond is done afterwards.
CloseBegin(until) ==
    /\ writer = "idle"
    /\ until \in 0..Smaller(writingPos + MaxGap, MaxTime)
    /\ job' = [from |-> Smaller(until, writingPos), to |-> until, hole |-> TRUE]
    /\ writer' = "tick"
    /\ UNCHANGED <<writingPos, readablePos, holesCount, slots, itemReady, readerVars>>

TickClose ==
    /\ writer = "tick"
    /\ CloseFill(job.from)
    /\ writer' = "tickPublish"
    /\ UNCHANGED <<writingPos, readablePos, itemReady, job, readerVars>>

TickClosePublish ==
    /\ writer = "tickPublish"
    /\ ClosePublish(job.from)
    /\ \/ /\ job.to # job.from
          /\ writer' = "extend"
          /\ UNCHANGED job
       \/ /\ job.to = job.from
          /\ Return
    /\ UNCHANGED <<writingPos, holesCount, slots, itemReady, readerVars>>

\* "If closing not-yet-touched items was requested, do it."
ExtendAnnounce ==
    /\ writer = "extend"
    /\ writingPos' = job.to
    /\ writer' = "extendFill"
    /\ UNCHANGED <<readablePos, holesCount, slots, itemReady, job, readerVars>>

\* A plausible bug: the fill starts from the position already announced.
ExtendFillLate ==
    /\ writer = "extendFill"
    /\ slots' = [i \in Slots |->
           IF i \in InRing(writingPos, job.to) THEN Silence ELSE slots[i]]
    /\ writer' = "extendPublish"
    /\ UNCHANGED <<writingPos, readablePos, holesCount, itemReady, job, readerVars>>

ExtendFill ==
    /\ writer = "extendFill"
    /\ slots' = [i \in Slots |->
           IF i \in InRing(job.from, job.to) THEN Silence ELSE slots[i]]
    /\ writer' = "extendPublish"
    /\ UNCHANGED <<writingPos, readablePos, holesCount, itemReady, job, readerVars>>

ExtendPublish ==
    /\ writer = "extendPublish"
    /\ readablePos' = job.to
    /\ Return
    /\ UNCHANGED <<writingPos, holesCount, slots, itemReady, readerVars>>

-----------------------------------------------------------------------------
(* The writer: reset, when the RX thread connects a channel to a ring that  *)
(* no silence writer holds: a new ring, or one that was silenced before     *)

ResetBegin(start) ==
    /\ writer = "idle"
    /\ \A i \in Slots : slots[i] = Silence
    /\ start \in writingPos..Smaller(writingPos + MaxGap, MaxTime)
    /\ job' = [from |-> start, to |-> start, hole |-> FALSE]
    /\ writingPos' = start
    /\ writer' = "reset"
    /\ UNCHANGED <<readablePos, holesCount, slots, itemReady, readerVars>>

ResetEnd ==
    /\ writer = "reset"
    /\ readablePos' = job.to
    /\ Return
    /\ UNCHANGED <<writingPos, holesCount, slots, itemReady, readerVars>>

-----------------------------------------------------------------------------
(* The reader: read_at on an owned buffer *)

\* A plausible bug: the read is not cut at readable_pos.
ReadBeginUncut(from, length) ==
    /\ reader = "idle"
    /\ readablePos - from \in 0..Size
    /\ view' = [from |-> from, items |-> [k \in 1..length |-> Silence]]
    /\ reader' = "copy"
    /\ useful' = << >>
    /\ UNCHANGED writerVars

\* readable_pos is loaded; a read of the future, or of what must have been
\* overwritten, returns the empty range.
ReadBegin(from, length) ==
    LET readable == readablePos - from
    IN
    /\ reader = "idle"
    /\ \/ /\ readable \in 0..Size
          /\ view' = [from |-> from,
                      items |-> [k \in 1..Smaller(length, readable) |-> Silence]]
          /\ reader' = "copy"
       \/ /\ readable \notin 0..Size
          /\ UNCHANGED <<view, reader>>
    /\ useful' = << >>
    /\ UNCHANGED writerVars

ReadCopy ==
    /\ reader = "copy"
    /\ view' = [view EXCEPT !.items =
           [k \in DOMAIN view.items |-> slots[(view.from + k - 1) % Size]]]
    /\ reader' = "verify"
    /\ UNCHANGED <<useful, writerVars>>

\* A plausible bug: one overwritten item at the beginning is still reported.
OverwrittenOffByOne ==
    Larger(0, writingPos - view.from - Size - 1)

\* writing_pos is loaded after the copy: how many items at the beginning of
\* the copy may have been overwritten in the meantime.
Overwritten ==
    Larger(0, writingPos - view.from - Size)

ReadVerify ==
    LET good == {k \in DOMAIN view.items : k > Overwritten}
    IN
    /\ reader = "verify"
    /\ useful' = [t \in {view.from + k - 1 : k \in good} |->
                      view.items[t - view.from + 1]]
    /\ view' = NoView
    /\ reader' = "idle"
    /\ UNCHANGED writerVars

-----------------------------------------------------------------------------
WriterNext ==
    \/ \E from \in 0..MaxTime, length \in 1..MaxPacket : WriteBegin(from, length)
    \/ WriteAnnounce \/ WriteStore \/ WriteStoreEarly \/ WriteAnnounceLate
    \/ WritePublish \/ WriteClose \/ WriteClosePublish \/ WriteAdvance
    \/ \E until \in 0..MaxTime : CloseBegin(until)
    \/ TickClose \/ TickClosePublish
    \/ ExtendAnnounce \/ ExtendFill \/ ExtendPublish
    \/ \E start \in 0..MaxTime : ResetBegin(start)
    \/ ResetEnd

ReaderNext ==
    \/ \E from \in 0..MaxTime, length \in 1..MaxRead : ReadBegin(from, length)
    \/ ReadCopy \/ ReadVerify

Next == WriterNext \/ ReaderNext

Spec == Init /\ [][Next]_vars

-----------------------------------------------------------------------------
(* Properties *)

WriterStates ==
    {"idle", "announce", "store", "announceLate", "publish", "close",
     "closePublish", "advance", "tick", "tickPublish", "extend", "extendFill",
     "extendPublish", "reset"}

TypeOK ==
    /\ writingPos \in 0..MaxTime
    /\ readablePos \in 0..MaxTime
    /\ holesCount \in Nat
    /\ slots \in [Slots -> Samples \cup {Silence}]
    /\ itemReady \in [Slots -> BOOLEAN]
    /\ writer \in WriterStates
    /\ job \in [from : 0..MaxTime, to : 0..MaxTime, hole : BOOLEAN]
    /\ reader \in {"idle", "copy", "verify"}
    /\ view.from \in 0..MaxTime
    /\ DOMAIN view.items \subseteq 1..MaxRead
    /\ \A k \in DOMAIN view.items : view.items[k] \in Samples \cup {Silence}

\* What ReadResult promises ("start index of useful data"): an item reported
\* as useful is the sample of its timestamp, or the silence that closed a hole;
\* never a sample of another timestamp, however the read was overtaken.
ReadsAreFaithful ==
    \A t \in DOMAIN useful : useful[t] \in {t, Silence}

\* The same without any order between the stores of another core, for a reader
\* that keeps clear of the oldest items by the reach of one packet.
ReadsWithMarginAreFaithful ==
    \A t \in DOMAIN useful :
        t >= writingPos + MaxGap + MaxPacket - Size => useful[t] \in {t, Silence}

\* The comment of read_at, "in normal case: start_ts < readable_pos <=
\* writing_pos": nothing is readable before it is announced as written.
NothingReadableUnannounced == readablePos <= writingPos

\* Neither position ever goes back: what was readable stays readable until it
\* is overwritten.
PositionsNeverGoBack ==
    [][writingPos' >= writingPos /\ readablePos' >= readablePos]_vars

\* A sample that arrived in time is never replaced by silence while it is
\* still in the ring: closing a hole spares the items that came after it.
ArrivedSamplesSurvive ==
    [][\A t \in Larger(0, writingPos' - Size)..(writingPos' - 1) :
          slots[t % Size] = t => slots'[t % Size] = t]_vars

\* The comment at the tick (flows_rx.rs:389): "if the stream breaks, it will
\* ensure that buffer is filled with zeros": when readable_pos is about to jump
\* to the clock, what it makes readable and keeps in the ring is silence.
BrokenStreamIsSilent ==
    writer = "extendPublish" =>
        \A t \in Larger(job.from, job.to - Size)..(job.to - 1) :
            slots[t % Size] = Silence

\* A missing packet holds the following ones back for hole_fix_wait samples
\* and no longer.
HolesAreBounded ==
    writer = "idle" => writingPos - readablePos <= HoleFixWait

\* A write that fixes a hole, or skips it, makes everything up to the next
\* hole readable: the item at readable_pos is one that has not arrived.
WriteLeavesNothingBehind ==
    [][WriteAdvance =>
          readablePos' = writingPos \/ ~itemReady[readablePos' % Size]]_vars
=============================================================================
