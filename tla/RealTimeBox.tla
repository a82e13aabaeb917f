---------------------------- MODULE RealTimeBox ----------------------------
(***************************************************************************)
(* aoip/src/util/real_time_box_channel.rs: the lock-free channel that      *)
(* hands boxes to a real-time thread without that thread ever allocating   *)
(* or freeing memory.  Two atomic slots are shared:                        *)
(*                                                                         *)
(*   next   sender -> receiver: the newest box, not yet received           *)
(*   prev   receiver -> sender: the replaced box, not yet freed            *)
(*                                                                         *)
(* One step of this module is one atomic operation on a slot together with *)
(* the thread-local code that follows it up to the next atomic operation.  *)
(* Boxes are numbered in the order of the calls of send(); box 0 is the    *)
(* `initial` box of channel().                                             *)
(***************************************************************************)
EXTENDS Integers, FiniteSets

CONSTANTS
    MaxSends,           \* bound on the number of calls of send()
    CollectAfterSend    \* TRUE: the user is ToRealTime::run, which collects the
                        \* garbage of all senders after each command;
                        \* FALSE: the user is the forwarder of clock overlays

ASSUME MaxSendsAssumption == MaxSends \in Nat
ASSUME CollectAfterSendAssumption == CollectAfterSend \in BOOLEAN

NoBox == -1             \* an empty slot (None)

VARIABLES
    next, prev,         \* the two AtomicOptionBox of Shared
    curr,               \* RealTimeBoxReceiver.curr
    held,               \* the box the receiver keeps in a local variable
    receiver,           \* where the receiver is inside update()
    sender,             \* where the sender is inside send() / run()
    sent,               \* number of boxes put into `next` so far
    freed,              \* boxes dropped by the sender's thread
    rtFreed             \* boxes dropped by the real-time thread

vars == <<next, prev, curr, held, receiver, sender, sent, freed, rtFreed>>

receiverVars == <<curr, held, receiver, rtFreed>>
senderVars   == <<sender, sent, freed>>

Dropped(slot) == {slot} \ {NoBox}

Init ==
    /\ next = NoBox
    /\ prev = NoBox
    /\ curr = 0
    /\ held = NoBox
    /\ receiver = "idle"
    /\ sender = "idle"
    /\ sent = 0
    /\ freed = {}
    /\ rtFreed = {}

-----------------------------------------------------------------------------
(* The sender's thread *)

\* collect_garbage: prev.take(), then drop.
TakeGarbage ==
    /\ prev' = NoBox
    /\ freed' = freed \cup Dropped(prev)

\* send() begins with collect_garbage.
SendCollect ==
    /\ sender = "idle"
    /\ sent < MaxSends
    /\ TakeGarbage
    /\ sender' = "swap"
    /\ UNCHANGED <<next, sent, receiverVars>>

\* A plausible bug: a superseded box is forgotten instead of dropped.
SendSwapLeaks ==
    /\ sender = "swap"
    /\ next' = sent + 1
    /\ sent' = sent + 1
    /\ sender' = IF CollectAfterSend THEN "collect" ELSE "idle"
    /\ UNCHANGED <<prev, freed, receiverVars>>

\* send() ends by swapping the new box into `next` and dropping the box it
\* supersedes.
SendSwap ==
    /\ sender = "swap"
    /\ next' = sent + 1
    /\ sent' = sent + 1
    /\ freed' = freed \cup Dropped(next)
    /\ sender' = IF CollectAfterSend THEN "collect" ELSE "idle"
    /\ UNCHANGED <<prev, receiverVars>>

\* The collect_garbage that ToRealTime::run makes after a command: after the
\* send() of this channel, or (from "idle") after a command for another one.
CollectGarbage ==
    /\ CollectAfterSend
    /\ sender \in {"collect", "idle"}
    /\ TakeGarbage
    /\ sender' = "idle"
    /\ UNCHANGED <<next, sent, receiverVars>>

-----------------------------------------------------------------------------
(* The real-time thread: RealTimeBoxReceiver::update *)

\* A plausible bug: the test of `prev` is inverted.
UpdateTakePrevInverted ==
    /\ receiver = "idle"
    /\ held' = prev
    /\ prev' = NoBox
    /\ receiver' = IF prev = NoBox THEN "idle" ELSE "reinstall"
    /\ UNCHANGED <<next, curr, rtFreed, senderVars>>

\* A plausible bug: update() does not look at `prev` before it takes `next`.
UpdateTakePrevSkipped ==
    /\ receiver = "idle"
    /\ receiver' = "takeNext"
    /\ UNCHANGED <<next, prev, curr, held, rtFreed, senderVars>>

\* prev.take() opens update(); an empty slot is what lets it go on.
UpdateTakePrev ==
    /\ receiver = "idle"
    /\ held' = prev
    /\ prev' = NoBox
    /\ receiver' = IF prev = NoBox THEN "takeNext" ELSE "reinstall"
    /\ UNCHANGED <<next, curr, rtFreed, senderVars>>

\* prev.swap(Some(held)); what comes out of the slot would be dropped here, in
\* the real-time thread.
PutPrev ==
    /\ rtFreed' = rtFreed \cup Dropped(prev)
    /\ prev' = held
    /\ held' = NoBox
    /\ receiver' = "idle"

UpdateReinstall ==
    /\ receiver = "reinstall"
    /\ PutPrev
    /\ UNCHANGED <<next, curr, senderVars>>

\* next.take(); if there is a box it becomes curr and the old curr is held.
UpdateTakeNext ==
    /\ receiver = "takeNext"
    /\ \/ /\ next = NoBox
          /\ receiver' = "idle"
          /\ UNCHANGED <<next, curr, held>>
       \/ /\ next # NoBox
          /\ curr' = next
          /\ held' = curr
          /\ next' = NoBox
          /\ receiver' = "putPrev"
    /\ UNCHANGED <<prev, rtFreed, senderVars>>

UpdatePutPrev ==
    /\ receiver = "putPrev"
    /\ PutPrev
    /\ UNCHANGED <<next, curr, senderVars>>

-----------------------------------------------------------------------------
SenderNext   == SendCollect \/ SendSwap \/ CollectGarbage
ReceiverNext == \/ UpdateTakePrev \/ UpdateReinstall
                \/ UpdateTakeNext \/ UpdatePutPrev

Next == SenderNext \/ ReceiverNext

Spec == Init /\ [][Next]_vars

\* The real-time thread calls update() in every period, and a call of send()
\* or an iteration of ToRealTime::run, once begun, comes to its end.  Nothing
\* makes the sender begin another one.
FairSpec ==
    /\ Spec
    /\ WF_vars(ReceiverNext)
    /\ WF_vars(SendSwap)
    /\ WF_vars(sender = "collect" /\ CollectGarbage)

-----------------------------------------------------------------------------
(* Properties *)

Boxes == 0..sent

TypeOK ==
    /\ sent \in 0..MaxSends
    /\ curr \in Boxes
    /\ next \in Boxes \cup {NoBox}
    /\ prev \in Boxes \cup {NoBox}
    /\ held \in Boxes \cup {NoBox}
    /\ freed \subseteq Boxes
    /\ rtFreed \subseteq Boxes
    /\ sender \in {"idle", "swap", "collect"}
    /\ receiver \in {"idle", "reinstall", "takeNext", "putPrev"}

\* The debug_assert of both swaps of update(): "only this thread is allowed to
\* write Some(...) to prev", so the slot is vacant whenever a box is put back.
PutFindsVacantSlot ==
    receiver \in {"reinstall", "putPrev"} => prev = NoBox

\* The purpose of the module: no box is ever dropped by the real-time thread.
RealTimeNeverFrees == rtFreed = {}

\* No box that was handed to send() is leaked, freed while some thread can
\* still reach it, or reachable through two places at once: each box is in one
\* slot, in curr, in the receiver's hand, or freed.
SingleOwner ==
    /\ Boxes = freed \cup ({curr, next, prev, held} \ {NoBox})
    /\ {curr, next, prev, held} \cap freed = {}
    /\ curr \notin {next, prev, held}
    /\ next # NoBox => next \notin {prev, held}
    /\ prev # NoBox => prev # held

\* Whatever the interleaving, what waits in `next` is newer than what the
\* receiver uses, and what waits to be freed is older.
SlotsInOrder ==
    /\ next # NoBox => curr < next
    /\ prev < curr
    /\ held < curr

\* The receiver never goes back to an older box.
NewestWins == [][curr' > curr]_curr

\* The channel implements the mailbox: `next` is what waits.
Abstract == INSTANCE Mailbox WITH pending <- next, current <- curr, reclaimed <- freed
ImplementsMailbox == Abstract!Spec

\* Outside the window in which the receiver has a replaced box in its hand, a
\* box that waits behind a vacant `prev` is received, even if no command ever
\* follows.
SettledBoxIsReceived ==
    (next # NoBox /\ prev = NoBox /\ receiver \in {"idle", "takeNext"})
        ~> (next = NoBox)

\* real_time_box_channel.rs:44 says of a full `prev` that it "hasn't been
\* received by non-real-time thread yet, so we can't proceed": the refusal is
\* temporary, and a box that waits in `next` behind it is received in the end.
RefusalIsTemporary ==
    (next # NoBox /\ prev # NoBox) ~> (next = NoBox)
=============================================================================
