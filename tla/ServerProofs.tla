---------------------------- MODULE ServerProofs ----------------------------
(***************************************************************************)
(* Two parts of the device server that have no state in common.            *)
(*                                                                         *)
(* Safety of the real-time box channel for any number of sends and for     *)
(* both of its users: what TLC checks for a small MaxSends in              *)
(* MCServer.cfg, and that the channel implements the mailbox.              *)
(*                                                                         *)
(* The collector hands out no sample twice and silences no channel that is *)
(* connected, for any number of channels, any latencies and any widths of  *)
(* the clock: what the code needs for that are two conditions on the       *)
(* latencies, which are the hypotheses of the theorems.                    *)
(***************************************************************************)
EXTENDS RealTimeBox, Collector, WellFoundedInduction, TLAPS

-----------------------------------------------------------------------------
(* The real-time box channel *)

\* Where the sender's and the receiver's program counters tie the slots down.
ControlInv ==
    /\ sender = "swap" => sent < MaxSends
    /\ held # NoBox <=> receiver \in {"reinstall", "putPrev"}
    /\ receiver # "idle" => prev = NoBox

\* The inductive invariant.
BoxInv ==
    /\ TypeOK
    /\ ControlInv
    /\ RealTimeNeverFrees
    /\ SlotsInOrder
    /\ SingleOwner

LEMMA InitBoxInv == Init => BoxInv
  BY MaxSendsAssumption
  DEF Init, BoxInv, TypeOK, ControlInv, RealTimeNeverFrees, SlotsInOrder,
      SingleOwner, Boxes, NoBox

LEMMA NextBoxInv == BoxInv /\ [Next]_vars => BoxInv'
<1> SUFFICES ASSUME BoxInv, [Next]_vars
             PROVE  BoxInv'
  OBVIOUS
<1> USE MaxSendsAssumption DEF BoxInv, TypeOK, ControlInv,
        RealTimeNeverFrees, SlotsInOrder, SingleOwner, Boxes, NoBox
<1>1. CASE SendCollect
  BY <1>1 DEF SendCollect, TakeGarbage, Dropped, receiverVars
<1>2. CASE SendSwap
  BY <1>2 DEF SendSwap, Dropped, receiverVars
<1>3. CASE CollectGarbage
  BY <1>3 DEF CollectGarbage, TakeGarbage, Dropped, receiverVars
<1>4. CASE UpdateTakePrev
  BY <1>4 DEF UpdateTakePrev, senderVars
<1>5. CASE UpdateReinstall
  BY <1>5 DEF UpdateReinstall, PutPrev, Dropped, senderVars
<1>6. CASE UpdateTakeNext
  BY <1>6 DEF UpdateTakeNext, senderVars
<1>7. CASE UpdatePutPrev
  BY <1>7 DEF UpdatePutPrev, PutPrev, Dropped, senderVars
<1>8. CASE UNCHANGED vars
  BY <1>8 DEF vars
<1>9. QED
  BY <1>1, <1>2, <1>3, <1>4, <1>5, <1>6, <1>7, <1>8
  DEF Next, SenderNext, ReceiverNext

\* The inductive invariant holds in every behaviour.
THEOREM BoxInvariant == Spec => []BoxInv
<1>1. QED
  BY InitBoxInv, NextBoxInv, PTL DEF Spec

\* The real-time thread never frees a box, and finds its slot vacant whenever
\* it puts one back (the two debug_asserts of update()).
THEOREM NeverFrees == Spec => [](RealTimeNeverFrees /\ PutFindsVacantSlot)
<1>1. BoxInv => RealTimeNeverFrees /\ PutFindsVacantSlot
  BY DEF BoxInv, ControlInv, PutFindsVacantSlot
<1>2. QED
  BY <1>1, BoxInvariant, PTL

\* No box is leaked, freed too early or reachable through two places.
THEOREM Ownership == Spec => []SingleOwner
<1>1. BoxInv => SingleOwner
  BY DEF BoxInv
<1>2. QED
  BY <1>1, BoxInvariant, PTL

\* The receiver never goes back to an older box.
THEOREM NeverBackwards == Spec => NewestWins
<1>1. BoxInv /\ [Next]_vars => [curr' > curr]_curr
  <2> SUFFICES ASSUME BoxInv, [Next]_vars, curr' # curr
               PROVE  curr' > curr
    OBVIOUS
  <2>1. UpdateTakeNext
    BY DEF Next, SenderNext, ReceiverNext, vars, receiverVars, SendCollect,
           SendSwap, CollectGarbage, UpdateTakePrev, UpdateReinstall,
           UpdatePutPrev
  <2>2. QED
    BY <2>1 DEF UpdateTakeNext, BoxInv, SlotsInOrder, TypeOK, Boxes, NoBox
<1>2. QED
  BY <1>1, BoxInvariant, PTL DEF Spec, NewestWins

-----------------------------------------------------------------------------
(* Refinement of the mailbox *)

LEMMA InitRefines == Init => Abstract!Init
  BY DEF Init, Abstract!Init, NoBox, Abstract!NoBox

LEMMA TakeGarbageRefines ==
    ASSUME BoxInv, TakeGarbage, UNCHANGED <<next, curr, sent>>
    PROVE  Abstract!Reclaim \/ UNCHANGED freed
<1>1. CASE prev = NoBox
  BY <1>1 DEF TakeGarbage, Dropped
<1>2. CASE prev # NoBox
  <2>1. /\ prev \in (0..sent) \ freed
        /\ prev \notin {curr, next}
        /\ freed' = freed \cup {prev}
    BY <1>2 DEF TakeGarbage, Dropped, BoxInv, TypeOK, SingleOwner, Boxes,
                NoBox
  <2>2. QED
    BY <2>1 DEF Abstract!Reclaim
<1>3. QED
  BY <1>1, <1>2

LEMMA NextRefines ==
    BoxInv /\ [Next]_vars => [Abstract!Next]_(Abstract!mailboxVars)
<1> SUFFICES ASSUME BoxInv, [Next]_vars
             PROVE  Abstract!Next \/ UNCHANGED <<sent, next, curr, freed>>
  BY DEF Abstract!mailboxVars
<1> USE DEF Abstract!Next
<1>1. CASE SendCollect
  BY <1>1, TakeGarbageRefines DEF SendCollect, receiverVars
<1>2. CASE SendSwap
  BY <1>2 DEF SendSwap, Dropped, receiverVars, BoxInv, TypeOK, ControlInv,
              Abstract!Publish, NoBox, Abstract!NoBox
<1>3. CASE CollectGarbage
  BY <1>3, TakeGarbageRefines DEF CollectGarbage, receiverVars
<1>4. CASE UpdateTakeNext
  BY <1>4 DEF UpdateTakeNext, senderVars, Abstract!Receive, NoBox,
              Abstract!NoBox
<1>5. CASE UpdateTakePrev \/ UpdateReinstall \/ UpdatePutPrev
  BY <1>5 DEF UpdateTakePrev, UpdateReinstall, UpdatePutPrev, senderVars
<1>6. CASE UNCHANGED vars
  BY <1>6 DEF vars
<1>7. QED
  BY <1>1, <1>2, <1>3, <1>4, <1>5, <1>6
  DEF Next, SenderNext, ReceiverNext

\* The channel implements the mailbox.
THEOREM Refinement == Spec => ImplementsMailbox
<1>1. QED
  BY InitRefines, NextRefines, BoxInvariant, PTL
  DEF Spec, ImplementsMailbox, Abstract!Spec

-----------------------------------------------------------------------------
(* The collector: numbers *)

LEMMA RemainderOfSmall ==
    ASSUME NEW x \in Int, NEW w \in Nat \ {0}
    PROVE  /\ 0 <= x /\ x < w => x % w = x
           /\ -w <= x /\ x < 0 => x % w = x + w
  OBVIOUS

\* A set of naturals that is not empty has a least element.
LEMMA Least ==
    ASSUME NEW S \in SUBSET Nat, S # {}
    PROVE  \E x \in S : \A y \in S : x <= y
<1> DEFINE R == OpToRel(<, Nat)
<1>1. IsWellFoundedOn(R, Nat)
  BY NatLessThanWellFounded
<1>2. \A x, y \in Nat : y < x => <<y, x>> \in R
  BY DEF OpToRel
<1> HIDE DEF R
<1>3. PICK x \in S : \A y \in S : <<y, x>> \notin R
  BY <1>1, WFMin
<1>4. ASSUME NEW y \in S
      PROVE  x <= y
  <2>1. x \in Nat /\ y \in Nat
    OBVIOUS
  <2>2. ~(y < x)
    BY <1>2, <1>3, <2>1
  <2>3. QED
    BY <2>1, <2>2
<1>5. QED
  BY <1>4

\* Max and Min are the greatest and the least element of a set between bounds.
LEMMA MinOfBounded ==
    ASSUME NEW S \in SUBSET Int, S # {}, NEW low \in Int, \A x \in S : low <= x
    PROVE  Min(S) \in S /\ \A x \in S : Min(S) <= x
<1> DEFINE D == {x - low : x \in S}
<1>1. D \in SUBSET Nat /\ D # {}
  <2>1. ASSUME NEW x \in S
        PROVE  x - low \in Nat
    <3>1. x \in Int
      OBVIOUS
    <3>2. QED
      BY <3>1
  <2>2. QED
    BY <2>1
<1>2. PICK d \in D : \A e \in D : d <= e
  BY <1>1, Least
<1>3. PICK x \in S : d = x - low
  OBVIOUS
<1>4. \A y \in S : x <= y
  BY <1>2, <1>3
<1>5. QED
  BY <1>4 DEF Min

LEMMA MaxOfBounded ==
    ASSUME NEW S \in SUBSET Int, S # {}, NEW high \in Int, \A x \in S : x <= high
    PROVE  Max(S) \in S /\ \A x \in S : x <= Max(S)
<1> DEFINE D == {high - x : x \in S}
<1>1. D \in SUBSET Nat /\ D # {}
  <2>1. ASSUME NEW x \in S
        PROVE  high - x \in Nat
    <3>1. x \in Int
      OBVIOUS
    <3>2. QED
      BY <3>1
  <2>2. QED
    BY <2>1
<1>2. PICK d \in D : \A e \in D : d <= e
  BY <1>1, Least
<1>3. PICK x \in S : d = high - x
  OBVIOUS
<1>4. \A y \in S : x >= y
  BY <1>2, <1>3
<1>5. QED
  BY <1>4 DEF Max

-----------------------------------------------------------------------------
(* One delivery *)

\* The clock never gets ahead of what any ring can have.
CollectorInv ==
    /\ CollectorTypeOK
    /\ clock # Unset => clock < Word \div 2

LEMMA Widths ==
    /\ MaxStalled \in Nat /\ Interval \in Nat /\ MaxLag \in Nat
    /\ BufferSize \in Nat /\ SaneDiff \in Nat /\ Word \in Nat
    /\ Interval < BufferSize /\ BufferSize < SaneDiff
    /\ \A c \in Inputs :
          /\ LatencyOf[c] \in Nat
          /\ LatencyOf[c] + MaxStalled + SaneDiff + Interval < Word \div 2
  BY CollectorAssumption

\* Where the rings of the connected channels end, and where they are cut.
LEMMA Cut ==
    ASSUME CollectorTypeOK, connected # {}
    PROVE  /\ Min(Ends) \in Ends /\ Max(Ends) \in Ends
           /\ \A c \in connected : Min(Ends) <= end[c] /\ end[c] <= Max(Ends)
           /\ ReadableUntil \in Int
           /\ -MaxStalled <= ReadableUntil
           /\ \E c \in connected : ReadableUntil <= LatencyOf[c]
<1> USE Widths
<1>1. \A c \in connected :
          /\ c \in Inputs /\ LatencyOf[c] \in Nat
          /\ end[c] \in Int /\ -MaxStalled <= end[c] /\ end[c] <= LatencyOf[c]
          /\ LatencyOf[c] < Word \div 2
  BY DEF CollectorTypeOK
<1>2. Ends \in SUBSET Int /\ Ends # {}
  BY <1>1 DEF Ends
<1>3. \A e \in Ends : -MaxStalled <= e /\ e <= Word \div 2
  BY <1>1 DEF Ends
<1>4. Min(Ends) \in Ends /\ \A e \in Ends : Min(Ends) <= e
  BY <1>2, <1>3, MinOfBounded, -MaxStalled \in Int
<1>5. Max(Ends) \in Ends /\ \A e \in Ends : e <= Max(Ends)
  BY <1>2, <1>3, MaxOfBounded, Word \div 2 \in Int
<1>6. \A c \in connected : end[c] \in Ends
  BY DEF Ends
<1>7. PICK a \in connected, b \in connected : Min(Ends) = end[a] /\ Max(Ends) = end[b]
  BY <1>4, <1>5 DEF Ends
<1>8. /\ ReadableUntil \in Int
      /\ end[a] <= ReadableUntil /\ ReadableUntil <= end[b]
  BY <1>1, <1>4, <1>6, <1>7 DEF ReadableUntil
<1>9. -MaxStalled <= ReadableUntil /\ ReadableUntil <= LatencyOf[b]
  BY <1>1, <1>8
<1>10. QED
  BY <1>4, <1>5, <1>6, <1>8, <1>9

\* A delivery never goes beyond the cut; it begins at the clock or later, unless
\* the cut is behind the clock and the difference wraps.
LEMMA Delivery ==
    ASSUME CollectorInv, connected # {}, clock # Unset
    PROVE  /\ StartTimestamp \in Int /\ Count \in Int
           /\ -(SaneDiff + MaxStalled + 1) <= StartTimestamp + Count
           /\ StartTimestamp + Count <= ReadableUntil
           /\ clock <= ReadableUntil => clock <= StartTimestamp
<1>0. /\ MaxStalled \in Nat /\ Interval \in Nat /\ SaneDiff \in Nat
      /\ BufferSize \in Nat /\ BufferSize < SaneDiff /\ Word \in Nat
  BY Widths
<1>1. /\ ReadableUntil \in Int /\ -MaxStalled <= ReadableUntil
      /\ ReadableUntil + MaxStalled + SaneDiff + Interval < Word \div 2
      /\ MaxStalled + SaneDiff + Interval < Word \div 2
  <2>1. PICK c \in connected : ReadableUntil <= LatencyOf[c]
    BY Cut DEF CollectorInv
  <2>2. c \in Inputs
    BY DEF CollectorInv, CollectorTypeOK
  <2>3. QED
    <3>1. /\ LatencyOf[c] \in Nat /\ Word \div 2 \in Int
          /\ LatencyOf[c] + MaxStalled + SaneDiff + Interval < Word \div 2
      BY <1>0, <2>2, Widths
    <3>2. ReadableUntil \in Int /\ -MaxStalled <= ReadableUntil
      BY Cut DEF CollectorInv
    <3>3. QED
      BY <1>0, <2>1, <3>1, <3>2
<1>2. /\ clock \in Int /\ -(SaneDiff + MaxStalled + 1) <= clock
      /\ clock < Word \div 2
  BY DEF CollectorInv, CollectorTypeOK
<1>3. Word \in Nat \ {0} /\ Word \div 2 < Word /\ 2 * (Word \div 2) <= Word
  BY <1>0, <1>1
<1>4. CASE clock <= ReadableUntil
  <2>1. 0 <= ReadableUntil - clock /\ ReadableUntil - clock < Word
    BY <1>0, <1>1, <1>2, <1>3, <1>4
  <2>2. Readable = ReadableUntil - clock
    BY <1>0, <1>1, <1>2, <1>3, <2>1, RemainderOfSmall DEF Readable
  <2>3. /\ Count \in Int /\ 0 <= Count
        /\ Count <= Readable /\ Count <= SaneDiff
    <3>1. {Readable, SaneDiff, BufferSize} \in SUBSET Nat
      BY <1>0, <1>1, <1>2, <1>4, <2>2
    <3>2. /\ Count \in {Readable, SaneDiff, BufferSize}
          /\ \A x \in {Readable, SaneDiff, BufferSize} : Count <= x
      BY <3>1, MinOfBounded, 0 \in Int DEF Count
    <3>3. QED
      BY <1>0, <3>1, <3>2
  <2>4. QED
    BY <1>0, <1>1, <1>2, <1>4, <2>2, <2>3 DEF StartTimestamp
<1>5. CASE ReadableUntil < clock
  <2>1. -Word <= ReadableUntil - clock /\ ReadableUntil - clock < 0
    BY <1>0, <1>1, <1>2, <1>3, <1>5
  <2>2. Readable = ReadableUntil - clock + Word
    BY <1>0, <1>1, <1>2, <1>3, <2>1, RemainderOfSmall DEF Readable
  <2>3. Readable \in Nat /\ Readable > SaneDiff
    BY <1>0, <1>1, <1>2, <1>3, <1>5, <2>2
  <2>4. Count \in Int /\ 0 <= Count /\ Count <= SaneDiff
    <3>1. {Readable, SaneDiff, BufferSize} \in SUBSET Nat
      BY <1>0, <2>3
    <3>2. /\ Count \in {Readable, SaneDiff, BufferSize}
          /\ \A x \in {Readable, SaneDiff, BufferSize} : Count <= x
      BY <3>1, MinOfBounded, 0 \in Int DEF Count
    <3>3. QED
      BY <1>0, <3>1, <3>2
  <2>5. QED
    BY <1>0, <1>1, <1>2, <1>5, <2>3, <2>4 DEF StartTimestamp
<1>6. QED
  BY <1>0, <1>1, <1>2, <1>4, <1>5

-----------------------------------------------------------------------------
(* The collector *)

LEMMA InitCollectorInv == CollectorInit => CollectorInv
<1> SUFFICES ASSUME CollectorInit
             PROVE  CollectorInv
  OBVIOUS
<1>1. Unset \in -(SaneDiff + MaxStalled + 1) .. Word
  BY Widths DEF Unset
<1>2. \A c \in Inputs : 0 \in -MaxStalled .. LatencyOf[c]
  BY Widths
<1>3. QED
  BY <1>1, <1>2, Widths DEF CollectorInit, CollectorInv, CollectorTypeOK

\* What the collector does in a tick.
LEMMA CollectKeeps ==
    ASSUME CollectorInv, Collect
    PROVE  /\ CollectorInv'
           /\ clock' # Unset /\ clock' # clock =>
                  \E c \in Inputs : clock' <= LatencyOf[c]
<1>0. /\ MaxStalled \in Nat /\ SaneDiff \in Nat /\ Interval \in Nat
      /\ Word \div 2 \in Int /\ Word \in Nat /\ Word \div 2 <= Word
  BY Widths
<1>1. /\ UNCHANGED <<ring, end, commands, connected>> /\ since' = 0
      /\ connected \subseteq Inputs /\ connected' = connected
  BY DEF Collect, CollectorInv, CollectorTypeOK
<1>2. CASE TickWithoutChannels
  BY <1>0, <1>1, <1>2 DEF TickWithoutChannels, CollectorInv, CollectorTypeOK
<1>3. ASSUME NEW c \in Inputs, NEW k \in Int,
             clock' = k, -(SaneDiff + MaxStalled + 1) <= k, k <= LatencyOf[c],
             delivery' \in [skipped : Int, silent : SUBSET Inputs]
      PROVE  /\ CollectorInv'
             /\ clock' # Unset /\ clock' # clock =>
                    \E i \in Inputs : clock' <= LatencyOf[i]
  <2>1. LatencyOf[c] \in Nat /\ LatencyOf[c] < Word \div 2
    BY <1>0, Widths
  <2>2. clock' \in -(SaneDiff + MaxStalled + 1) .. Word /\ clock' < Word \div 2
    BY <1>0, <1>3, <2>1
  <2>3. since' \in 0 .. Interval + 1
    BY <1>0, <1>1
  <2>4. CollectorTypeOK'
    BY <1>1, <1>3, <2>2, <2>3 DEF CollectorInv, CollectorTypeOK
  <2>5. QED
    BY <1>3, <2>2, <2>4 DEF CollectorInv
<1>4. CASE FirstTick
  <2>1. /\ ReadableUntil \in Int /\ -MaxStalled <= ReadableUntil
        /\ \E c \in connected : ReadableUntil <= LatencyOf[c]
    BY <1>4, Cut DEF FirstTick, CollectorInv
  <2>2. delivery' \in [skipped : Int, silent : SUBSET Inputs]
    BY <1>4 DEF FirstTick, CollectorInv, CollectorTypeOK
  <2>3. -(SaneDiff + MaxStalled + 1) <= ReadableUntil
    BY <1>0, <2>1
  <2>4. QED
    BY <1>1, <1>3, <1>4, <2>1, <2>2, <2>3 DEF FirstTick
<1>5. CASE Deliver
  <2>1. connected # {} /\ clock # Unset /\ clock' = StartTimestamp + Count
    BY <1>5 DEF Deliver
  <2>2. /\ ReadableUntil \in Int
        /\ \E c \in connected : ReadableUntil <= LatencyOf[c]
    BY <2>1, Cut DEF CollectorInv
  <2>3. /\ StartTimestamp \in Int /\ Count \in Int
        /\ -(SaneDiff + MaxStalled + 1) <= clock'
        /\ clock' <= ReadableUntil
    BY <2>1, Delivery
  <2>4. PICK c \in Inputs : clock' <= LatencyOf[c] /\ LatencyOf[c] \in Nat
    BY <1>1, <2>1, <2>2, <2>3, Widths
  <2>5. delivery' \in [skipped : Int, silent : SUBSET Inputs]
    <3>1. clock \in Int
      BY <1>0 DEF CollectorInv, CollectorTypeOK
    <3>2. StartTimestamp - clock \in Int /\ Behind \in SUBSET Inputs
      BY <1>1, <2>3, <3>1 DEF Behind
    <3>3. QED
      BY <1>5, <3>2 DEF Deliver
  <2>6. clock' \in Int
    BY <2>1, <2>3
  <2>7. QED
    BY <1>3, <2>3, <2>4, <2>5, <2>6
<1>6. QED
  BY <1>2, <1>4, <1>5 DEF Collect

LEMMA PassKeeps ==
    ASSUME CollectorInv, Pass
    PROVE  /\ CollectorInv'
           /\ clock = Unset => clock' = Unset
           /\ clock # Unset =>
                  clock' = clock - 1 \/ (clock' <= -MaxStalled /\ clock' >= clock - 1)
<1>0. /\ MaxStalled \in Nat /\ SaneDiff \in Nat /\ Interval \in Nat
      /\ Word \div 2 \in Int /\ Word \in Nat /\ Word \div 2 <= Word
  BY Widths
<1> DEFINE floor == -(SaneDiff + MaxStalled + 1)
<1>1. clock \in Int /\ floor <= clock /\ (clock # Unset => clock < Word \div 2)
  BY <1>0 DEF CollectorInv, CollectorTypeOK
<1>2. /\ Max({clock - 1, floor}) \in {clock - 1, floor}
      /\ \A x \in {clock - 1, floor} : x <= Max({clock - 1, floor})
  <2>1. {clock - 1, floor} \in SUBSET Int /\ {clock - 1, floor} # {}
    BY <1>0, <1>1
  <2>2. \A x \in {clock - 1, floor} : x <= clock
    BY <1>0, <1>1
  <2> HIDE DEF floor
  <2>3. QED
    BY <1>1, <2>1, <2>2, MaxOfBounded
<1>3. /\ clock = Unset => clock' = Unset
      /\ clock # Unset => /\ clock' \in {clock - 1, floor}
                          /\ clock' >= floor /\ clock' >= clock - 1
  <2>1. clock' = IF clock = Unset THEN Unset ELSE Max({clock - 1, floor})
    BY DEF Pass
  <2> HIDE DEF floor
  <2>2. QED
    BY <1>2, <2>1
<1>4. clock' \in floor .. Word /\ (clock' # Unset => clock' < Word \div 2)
  BY <1>0, <1>1, <1>3 DEF Unset
<1>5. \A c \in Inputs : end'[c] \in -MaxStalled .. LatencyOf[c]
  <2> SUFFICES ASSUME NEW c \in Inputs
               PROVE  end'[c] \in -MaxStalled .. LatencyOf[c]
    OBVIOUS
  <2>1. end[c] \in -MaxStalled .. LatencyOf[c] /\ LatencyOf[c] \in Nat
    BY Widths DEF CollectorInv, CollectorTypeOK
  <2>2. end'[c] = IF ring[c] = "none" THEN 0 ELSE end[c] - 1
    BY DEF Pass
  <2>3. ring[c] # "none" => end[c] > -MaxStalled
    BY DEF Pass
  <2>4. QED
    BY <1>0, <2>1, <2>2, <2>3
<1>6. end' \in [Inputs -> Int]
  BY DEF Pass, CollectorInv, CollectorTypeOK
<1>7. since' \in 0 .. Interval + 1
  BY <1>0 DEF Pass, CollectorInv, CollectorTypeOK
<1>8. CollectorTypeOK'
  BY <1>4, <1>5, <1>6, <1>7 DEF Pass, CollectorInv, CollectorTypeOK
<1>9. QED
  BY <1>0, <1>1, <1>3, <1>4, <1>8 DEF CollectorInv

\* The subscriber, the RX thread and the collector's commands move the rings and
\* the connections only.
LEMMA RingsKeep ==
    ASSUME CollectorInv, NEW c \in Inputs,
           \/ Subscribe(c) \/ TakeSink(c) \/ WriteRing(c) \/ RemoveRing(c)
           \/ HandleConnect(c) \/ HandleDisconnect(c)
    PROVE  CollectorInv' /\ UNCHANGED <<clock, since, delivery>>
<1> USE DEF CollectorInv, CollectorTypeOK
<1>0. MaxStalled \in Nat /\ LatencyOf[c] \in Nat
  BY Widths
<1>1. CASE Subscribe(c)
  BY <1>0, <1>1 DEF Subscribe
<1>2. CASE TakeSink(c)
  BY <1>0, <1>2 DEF TakeSink
<1>3. CASE WriteRing(c)
  <2>1. PICK e \in end[c] + 1 .. LatencyOf[c] : end' = [end EXCEPT ![c] = e]
    BY <1>3 DEF WriteRing
  <2>2. end[c] \in -MaxStalled .. LatencyOf[c]
    OBVIOUS
  <2>3. e \in -MaxStalled .. LatencyOf[c]
    BY <1>0, <2>1, <2>2
  <2>4. QED
    BY <1>3, <2>1, <2>3 DEF WriteRing
<1>4. CASE RemoveRing(c)
  BY <1>0, <1>4 DEF RemoveRing
<1>5. CASE HandleConnect(c) \/ HandleDisconnect(c)
  BY <1>5 DEF HandleConnect, HandleDisconnect
<1>6. QED
  BY <1>1, <1>2, <1>3, <1>4, <1>5

LEMMA StutterKeeps == CollectorInv /\ UNCHANGED collectorVars => CollectorInv'
  BY DEF CollectorInv, CollectorTypeOK, collectorVars

LEMMA NextCollectorInv == CollectorInv /\ [CollectorNext]_collectorVars => CollectorInv'
  BY RingsKeep, CollectKeeps, PassKeeps, StutterKeeps DEF CollectorNext

\* Every variable keeps its type: no ring is ahead of its flow's latency, and the
\* clock stays far from where its width would matter, after any silence.
THEOREM CollectorTypes == CollectorSpec => []CollectorTypeOK
<1>1. CollectorInv => CollectorTypeOK
  BY DEF CollectorInv
<1>2. QED
  BY <1>1, InitCollectorInv, NextCollectorInv, PTL DEF CollectorSpec

\* What READ_INTERVAL is for: between two ticks, the media clock overtakes all
\* that the last one has read, whatever a ring's latency and stall are.
FitsInterval == \A c \in Inputs : LatencyOf[c] + MaxStalled <= Interval

\* Then the clock of the collector is behind every ring when a tick is due.
BehindWhenDue ==
    clock # Unset => clock <= Interval - MaxStalled - since \/ clock <= -MaxStalled

ReplayInv == CollectorInv /\ BehindWhenDue /\ NeverReplays

LEMMA NextReplayInv ==
    ASSUME FitsInterval, ReplayInv, [CollectorNext]_collectorVars
    PROVE  ReplayInv'
<1> USE DEF ReplayInv, BehindWhenDue, NeverReplays
<1>0. MaxStalled \in Nat /\ Interval \in Nat
  BY Widths
<1>1. clock \in Int /\ since \in Int
  BY Widths DEF CollectorInv, CollectorTypeOK
<1>2. ASSUME UNCHANGED <<clock, since, delivery>>
      PROVE  BehindWhenDue' /\ NeverReplays'
  BY <1>2
<1>3. CASE Pass
  <2>1. since' = since + 1 /\ delivery' = delivery
    BY <1>3 DEF Pass
  <2>2. QED
    BY <1>0, <1>1, <1>3, <2>1, PassKeeps
<1>4. CASE Collect
  <2>1. since >= Interval /\ since' = 0 /\ connected \subseteq Inputs
    BY <1>4 DEF Collect, CollectorInv, CollectorTypeOK
  <2>2. clock # Unset => clock <= -MaxStalled
    BY <1>0, <1>1, <2>1
  <2>3. BehindWhenDue'
    <3>1. CASE clock' # Unset /\ clock' # clock
      <4>1. PICK c \in Inputs : clock' <= LatencyOf[c]
        BY <1>4, <3>1, CollectKeeps
      <4>2. LatencyOf[c] \in Nat /\ LatencyOf[c] <= Interval - MaxStalled
        BY <1>0, Widths DEF FitsInterval
      <4>3. clock' \in Int
        BY <1>4, CollectKeeps, Widths DEF CollectorInv, CollectorTypeOK
      <4>4. QED
        BY <1>0, <2>1, <4>1, <4>2, <4>3
    <3>2. CASE clock' = Unset \/ clock' = clock
      BY <2>2, <3>2
    <3>3. QED
      BY <3>1, <3>2
  <2>4. NeverReplays'
    <3>1. CASE TickWithoutChannels \/ FirstTick
      BY <3>1 DEF TickWithoutChannels, FirstTick
    <3>2. CASE Deliver
      <4>1. connected # {} /\ clock # Unset
        BY <3>2 DEF Deliver
      <4>2. clock <= ReadableUntil
        BY <1>0, <1>1, <2>2, <4>1, Cut DEF CollectorInv
      <4>3. clock <= StartTimestamp /\ StartTimestamp \in Int
        BY <4>1, <4>2, Delivery
      <4>4. delivery'.skipped = StartTimestamp - clock
        BY <3>2 DEF Deliver
      <4>5. QED
        BY <1>1, <4>3, <4>4
    <3>3. QED
      BY <1>4, <3>1, <3>2 DEF Collect
  <2>5. QED
    BY <1>4, <2>3, <2>4, CollectKeeps
<1>5. QED
  BY <1>2, <1>3, <1>4, RingsKeep, PassKeeps, StutterKeeps
  DEF CollectorNext, collectorVars

\* No sample reaches the callback twice (samples_collector.rs), for any channels
\* that come, go, stall and fall silent, as long as the longest latency and the
\* stall of the RX thread fit into READ_INTERVAL.
THEOREM NoReplay ==
    ASSUME FitsInterval
    PROVE  CollectorSpec => []NeverReplays
<1>1. CollectorInit => ReplayInv
  BY InitCollectorInv DEF CollectorInit, ReplayInv, BehindWhenDue, NeverReplays
<1>2. ReplayInv /\ [CollectorNext]_collectorVars => ReplayInv'
  BY NextReplayInv
<1>3. ReplayInv => NeverReplays
  BY DEF ReplayInv
<1>4. QED
  BY <1>1, <1>2, <1>3, PTL DEF CollectorSpec

\* What MAX_LAG_SAMPLES is for: only a ring that nobody writes any more is so far
\* behind another one.
FitsLag == \A c \in Inputs : LatencyOf[c] + MaxStalled <= MaxLag

LEMMA NobodyBehind ==
    ASSUME FitsLag, CollectorTypeOK, connected # {}
    PROVE  Behind = {}
<1>0. MaxStalled \in Nat /\ MaxLag \in Nat
  BY Widths
<1>1. PICK a \in connected, b \in connected : Min(Ends) = end[a] /\ Max(Ends) = end[b]
  BY Cut DEF Ends
<1>2. /\ end[a] \in Int /\ end[b] \in Int /\ -MaxStalled <= end[a]
      /\ end[b] <= LatencyOf[b]
      /\ LatencyOf[b] \in Nat /\ LatencyOf[b] + MaxStalled <= MaxLag
  BY Widths DEF CollectorTypeOK, FitsLag
<1>3. ~(Max(Ends) - Min(Ends) > MaxLag)
  BY <1>0, <1>1, <1>2
<1>4. ReadableUntil = Min(Ends)
  BY <1>3 DEF ReadableUntil
<1>5. \A c \in connected : end[c] \in Int /\ Min(Ends) <= end[c] /\ Min(Ends) \in Int
  BY <1>1, <1>2, Cut DEF CollectorTypeOK
<1>6. QED
  BY <1>4, <1>5 DEF Behind

\* Every connected channel is in every delivery: the lag prevention, meant for
\* transmitters that are gone, never takes one that is slow or new for one of
\* them, as long as latency and stall fit into MAX_LAG_SAMPLES.
THEOREM NobodySilenced ==
    ASSUME FitsLag
    PROVE  CollectorSpec => []ConnectedIsHeard
<1>1. CollectorInit => ConnectedIsHeard
  BY DEF CollectorInit, ConnectedIsHeard
<1>2. CollectorInv /\ ConnectedIsHeard /\ [CollectorNext]_collectorVars
          => ConnectedIsHeard'
  <2> SUFFICES ASSUME CollectorInv, ConnectedIsHeard, [CollectorNext]_collectorVars
               PROVE  ConnectedIsHeard'
    OBVIOUS
  <2> USE DEF ConnectedIsHeard
  <2>1. CASE UNCHANGED delivery
    BY <2>1
  <2>2. CASE Collect
    <3>1. CASE TickWithoutChannels \/ FirstTick
      BY <3>1 DEF TickWithoutChannels, FirstTick
    <3>2. CASE Deliver
      BY <3>2, NobodyBehind DEF Deliver, CollectorInv
    <3>3. QED
      BY <2>2, <3>1, <3>2 DEF Collect
  <2>3. QED
    BY <2>1, <2>2, RingsKeep DEF CollectorNext, Pass, collectorVars
<1>3. QED
  BY <1>1, <1>2, InitCollectorInv, NextCollectorInv, PTL DEF CollectorSpec
=============================================================================
