-------------------------------- MODULE Ring --------------------------------
(***************************************************************************)
(* aoip/src/ring_buffer.rs as its one writer sees it: what a whole call of *)
(* write_from_at, close_items_until and reset does to a ring.  Module      *)
(* RingBuffer splits the same calls into the steps a concurrent reader can *)
(* tell apart; the modules that extend this one are about the order of the *)
(* calls.                                                                  *)
(*                                                                         *)
(* A ring is a record: .w and .r are writing_pos and readable_pos, .slots  *)
(* the buffer, .ready the slots whose item_ready flag is set.              *)
(***************************************************************************)
EXTENDS Integers, Sequences

CONSTANTS Size,           \* items_size
          HoleFixWait     \* hole_fix_wait

ASSUME RingAssumption == Size \in Nat \ {0} /\ HoleFixWait \in Nat

Slots == 0 .. Size - 1
Silence == -1              \* T::default(); samples are natural numbers

Larger(a, b)  == IF a > b THEN a ELSE b
Smaller(a, b) == IF a < b THEN a ELSE b

\* for_in_ring: nothing when the positions are equal, the whole ring when they
\* differ and share a slot, and what is left of the distance otherwise.
RingLength(from, to) ==
    IF from = to THEN 0
    ELSE IF (to - from) % Size = 0 THEN Size ELSE (to - from) % Size

InRing(from, to) == {(from + k) % Size : k \in 0 .. RingLength(from, to) - 1}

NewRing(at) == [w |-> at, r |-> at, slots |-> [i \in Slots |-> Silence], ready |-> {}]

\* reset moves the positions and leaves the items and the flags alone.
Reset(ring, at) == [ring EXCEPT !.w = at, !.r = at]

\* A connected channel gets a new RBInput, whose flags are all clear.
WithNewInput(ring) == [ring EXCEPT !.ready = {}]

Silenced(ring, gone) ==
    [ring EXCEPT !.slots = [i \in Slots |-> IF i \in gone THEN Silence ELSE @[i]]]

\* close_items_until_internal, its first half: holes that are too old.
FillHoles(ring, until) ==
    IF until > ring.r
    THEN [Silenced(ring, InRing(ring.r, until) \ ring.ready) EXCEPT !.r = until]
    ELSE ring

\* ... and its second half: readable_pos advances over what has come.
Advance(ring, until) ==
    LET span == IF until > ring.r THEN RingLength(ring.r, until) ELSE 0
        run == CHOOSE n \in 0 .. span :
                   /\ \A k \in 0 .. n - 1 : (ring.r + k) % Size \in ring.ready
                   /\ n < span => (ring.r + n) % Size \notin ring.ready
    IN  [ring EXCEPT !.r = @ + run]

WriteFromAt(ring, from, items) ==
    LET n == Len(items)
        newHole == from > ring.w
        hole == newHole \/ ring.r # ring.w
        w1 == Larger(ring.w, from + n)
        written == InRing(from, from + n)
        item(i) == items[1 + ((i - from) % Size)]
        stored == [ring EXCEPT
            !.w = w1,
            !.slots = [i \in Slots |-> IF i \in written THEN item(i) ELSE @[i]],
            !.ready = (IF newHole THEN @ \ InRing(ring.w, from) ELSE @) \cup written]
    IN  IF hole THEN Advance(FillHoles(stored, w1 - HoleFixWait), w1)
                ELSE [stored EXCEPT !.r = w1]

CloseItemsUntil(ring, until) ==
    LET written == Smaller(until, ring.w)
        closed == Advance(FillHoles(ring, written), written)
    IN  IF until = written THEN closed
        ELSE [Silenced(closed, InRing(ring.w, until)) EXCEPT !.w = until, !.r = until]
=============================================================================
