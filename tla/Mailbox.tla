------------------------------ MODULE Mailbox ------------------------------
(***************************************************************************)
(* What util/real_time_box_channel.rs promises to its two users, without   *)
(* the `prev` slot and without program counters.  A sender that is not     *)
(* real-time publishes boxes; only the newest published box waits; the     *)
(* real-time receiver swaps it in; a box is reclaimed once, and only when  *)
(* neither the mailbox nor the receiver can still reach it.                *)
(*                                                                         *)
(* Boxes are numbered in the order in which they are published; box 0 is   *)
(* the `initial` box the channel is created with.                          *)
(***************************************************************************)
EXTENDS Integers

CONSTANT MaxSends       \* bound on the number of boxes published

NoBox == -1

VARIABLES sent,         \* number of boxes published so far
          pending,      \* the published box that waits, or NoBox
          current,      \* the box the receiver reads
          reclaimed     \* boxes whose memory was given back

mailboxVars == <<sent, pending, current, reclaimed>>

Init ==
    /\ sent = 0
    /\ pending = NoBox
    /\ current = 0
    /\ reclaimed = {}

\* Publishing supersedes, and reclaims, a box that was never received.
Publish ==
    /\ sent < MaxSends
    /\ sent' = sent + 1
    /\ pending' = sent + 1
    /\ reclaimed' = reclaimed \cup ({pending} \ {NoBox})
    /\ UNCHANGED current

Receive ==
    /\ pending # NoBox
    /\ current' = pending
    /\ pending' = NoBox
    /\ UNCHANGED <<sent, reclaimed>>

Reclaim ==
    \E b \in (0..sent) \ reclaimed :
        /\ b \notin {current, pending}
        /\ reclaimed' = reclaimed \cup {b}
        /\ UNCHANGED <<sent, pending, current>>

Next == Publish \/ Receive \/ Reclaim

Spec == Init /\ [][Next]_mailboxVars
=============================================================================
