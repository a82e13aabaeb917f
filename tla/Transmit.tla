------------------------------ MODULE Transmit ------------------------------
(***************************************************************************)
(* aoip/src/device_server/flows_tx.rs: the "flows TX" thread against time. *)
(* Module FlowsTx follows its table of flows; this one follows when the    *)
(* thread sends, with which timestamps, and when it gives a flow up,       *)
(* together with what it talks to: the receivers, which keep their flows   *)
(* alive, the PTP clock, which may jump, and the ALSA application, which   *)
(* overwrites what it believes has been sent.                              *)
(*                                                                         *)
(* Time is counted in samples.  The thread has an overlay of its own,      *)
(* which it renews at the top of its loop only.  The tail of an iteration  *)
(* (the command) and the head of the next one (the overlay, the published  *)
(* timestamp, the choice of how to sleep) are one step: the thread runs at *)
(* real-time priority.  send_latency_samples is 0.                         *)
(***************************************************************************)
EXTENDS Integers, FiniteSets

CONSTANTS
    N,                  \* the thread's table has the flows 1..N
    Fpp,                \* flow.fpp of each
    MaxLag,             \* max_lag_samples
    Discontinuity,      \* DISCONTINUITY_THRESHOLD_SAMPLES
    KeepaliveTimeout,   \* KEEPALIVE_TIMEOUT_SECONDS
    EventsInterval,     \* PROCESS_EVENTS_INTERVAL
    SelectThreshold,    \* SELECT_THRESHOLD
    MaxAwake,           \* how long a flow that cannot be sent blocks the thread
    KeepaliveGap,       \* the longest time between two keepalives of a receiver
                        \* that arrive (KEEPALIVE_INTERVAL, or more by losses)
    MaxStall,           \* how late the thread may wake up
    Jumps,              \* by how much the clock may jump, once
    Breakable,          \* the flows whose packets the kernel may refuse to send
    MaxCommands,        \* bound on the commands
    MaxTime             \* bound on time

ASSUME TransmitAssumption ==
    /\ N \in Nat /\ Fpp \in [1 .. N -> Nat \ {0}]
    /\ {MaxLag, Discontinuity, KeepaliveTimeout, EventsInterval, SelectThreshold,
        MaxAwake, KeepaliveGap, MaxStall, MaxCommands, MaxTime} \subseteq Nat
    /\ Jumps \subseteq Int /\ Breakable \subseteq 1 .. N

Flows == 1 .. N
Unset == -1          \* current_timestamp is usize::MAX; a flow that has sent nothing
NoFlow == [next |-> Unset, expires |-> Unset, expired |-> TRUE]

VARIABLES
    time,           \* the system clock
    jump,           \* what the media clock is ahead of it
    overlay,        \* ... according to the thread
    flow,           \* the table: next_ts, expires, expired
    wait,           \* how long the thread still sleeps
    selects,        \* whether it sleeps in select!, where commands wake it
    nextEvents,     \* next_process_events
    current,        \* current_timestamp
    shown,          \* the highest position that plugin_pointer would have reported
    alive,          \* the flows whose receivers send keepalives
    pending,        \* the flows whose sockets have a keepalive to read
    silent,         \* how long ago the last keepalive, or the request, came
    quiet,          \* how long ago a flow sent a packet, or was begun
    last,           \* the timestamp of its last packet
    broken,         \* the flows that send() refuses
    commands        \* number of commands so far

txVars == <<overlay, flow, wait, selects, nextEvents, current>>
clockVars == <<time, jump>>
seen == <<shown, alive, pending, silent, quiet, last, broken, commands>>
vars == <<clockVars, txVars, seen>>

Now == time + overlay           \* self.now()
Active(f) == ~flow[f].expired
Exists(f) == flow[f] # NoFlow
Smallest(S) == CHOOSE x \in S : \A y \in S : x <= y
Greatest(a, b) == IF a > b THEN a ELSE b
Capped(n) == IF n < KeepaliveTimeout + 2 * Discontinuity THEN n + 1 ELSE n

Init ==
    /\ time = 1 /\ jump = 0 /\ overlay = 0
    /\ flow = [f \in Flows |-> NoFlow]
    /\ wait = 0 /\ selects = TRUE /\ nextEvents = 1 /\ current = Unset
    /\ shown = 0 /\ alive = {} /\ pending = {}
    /\ silent = [f \in Flows |-> 0] /\ quiet = [f \in Flows |-> 0]
    /\ last = [f \in Flows |-> Unset]
    /\ broken = {} /\ commands = 0

-----------------------------------------------------------------------------
(* The environment *)

\* plugin_pointer: the position that is played when `published` is what the
\* thread has stored.  The application then writes up to a whole buffer beyond
\* it, over what lies before it.  It is taken to look all the time; what a
\* jump of the clock does to it is left out.
Pointer(published, now) ==
    IF jump # 0 THEN shown
    ELSE Greatest(shown, IF published # Unset THEN published ELSE now)

\* The thread wakes up at most MaxStall late, and a receiver that lives sends
\* its keepalives once it has received a packet.
Tick ==
    /\ time < MaxTime
    /\ (\E f \in Flows : Active(f)) => wait > -MaxStall
    /\ \A f \in alive : Active(f) /\ last[f] # Unset => silent[f] < KeepaliveGap
    /\ time' = time + 1
    /\ wait' = IF wait > -MaxStall THEN wait - 1 ELSE wait
    /\ silent' = [f \in Flows |-> IF Exists(f) THEN Capped(silent[f]) ELSE 0]
    /\ quiet' = [f \in Flows |-> IF Active(f) THEN Capped(quiet[f]) ELSE 0]
    /\ shown' = Pointer(current, time' + jump)
    /\ UNCHANGED <<jump, overlay, flow, selects, nextEvents, current, alive, pending,
                   last, broken, commands>>

Jump ==
    /\ jump = 0
    /\ jump' \in {j \in Jumps : time + j > 0}
    /\ UNCHANGED <<time, txVars, seen>>

Keepalive(f) ==
    /\ f \in alive /\ last[f] # Unset /\ Exists(f) /\ silent[f] > 0
    /\ pending' = pending \cup {f}
    /\ silent' = [silent EXCEPT ![f] = 0]
    /\ UNCHANGED <<clockVars, txVars, shown, alive, quiet, last, broken, commands>>

\* The receiver goes without a word, or its stop request is lost.
Abandon(f) ==
    /\ f \in alive
    /\ alive' = alive \ {f}
    /\ UNCHANGED <<clockVars, txVars, shown, pending, silent, quiet, last, broken,
                   commands>>

Break(f) ==
    /\ f \in Breakable \ broken
    /\ broken' = broken \cup {f}
    /\ UNCHANGED <<clockVars, txVars, shown, alive, pending, silent, quiet, last,
                   commands>>

-----------------------------------------------------------------------------
(* The thread *)

\* bootstrap_next_ts: the next multiple of fpp.
Bootstrapped(f, now) == now + Fpp[f] - (now % Fpp[f])

\* A plausible bug: a clock that is set back a little starts a new timeline.
SynchronizedHastily(f, now) ==
    IF now - flow[f].next > MaxLag \/ now - flow[f].next < -Fpp[f]
    THEN Bootstrapped(f, now) ELSE flow[f].next

\* "tx lag detected, or media clock jumped": what transmit does to next_ts
\* before it sends.
Synchronized(f, now) ==
    IF now - flow[f].next > MaxLag \/ now - flow[f].next < -Discontinuity
    THEN Bootstrapped(f, now) ELSE flow[f].next

\* next_ts after the while loop: the first packet that is not due.
Drained(f, next) ==
    IF next > Now THEN next
    ELSE next + Fpp[f] * ((Now - next) \div Fpp[f] + 1)

HasDue(f) == Active(f) /\ Synchronized(f, Now) <= Now

\* The flow that blocks the thread: send() fails, next_ts does not advance, and
\* transmit returns after MaxAwake.
Blocking == {f \in broken : HasDue(f)}
\* A plausible bug: one flow that cannot be sent, and no other is served.
ReachedUnlessBlocked == {f \in Flows : Active(f) /\ Blocking = {}}

Reached == {f \in Flows : Active(f) /\ \A g \in Blocking : f <= g}
Served == Reached \ Blocking

ExpiresNow(f) == f \notin pending /\ flow[f].expires < Now

\* A plausible bug: whether recv() found a keepalive is not looked at.
TransmittedAnyway(events) ==
    [f \in Flows |->
        IF f \notin Reached THEN flow[f]
        ELSE IF f \in Blocking THEN [flow[f] EXCEPT !.next = Synchronized(f, Now)]
        ELSE [next |-> Drained(f, Synchronized(f, Now)),
              expires |-> IF events THEN Now + KeepaliveTimeout ELSE flow[f].expires,
              expired |-> FALSE]]

\* transmit, as a function from the table to the next one.
Transmitted(events) ==
    [f \in Flows |->
        IF f \notin Reached THEN flow[f]
        ELSE IF f \in Blocking THEN [flow[f] EXCEPT !.next = Synchronized(f, Now)]
        ELSE [next |-> Drained(f, Synchronized(f, Now)),
              expires |-> IF events /\ f \in pending
                          THEN Now + KeepaliveTimeout ELSE flow[f].expires,
              expired |-> events /\ ExpiresNow(f)]]

\* The top of the loop with the table `flows`: the new overlay, how long to
\* sleep, what the application is told.
LoopTop(flows, busy) ==
    LET now == time + jump
        dueAt == {flows[f].next : f \in {g \in Flows : ~flows[g].expired}}
        sleep == IF dueAt = {} THEN SelectThreshold
                 ELSE IF Smallest(dueAt) > now THEN Smallest(dueAt) - now ELSE 0
    IN
    /\ flow' = flows
    /\ overlay' = jump
    /\ wait' = sleep + busy
    /\ selects' = (sleep >= SelectThreshold)
    /\ current' = IF sleep >= SelectThreshold THEN Unset ELSE Smallest(dueAt)
    /\ shown' = Pointer(current', now)

-----------------------------------------------------------------------------
(* ... its commands, as functions from the table to the next one *)

Begun(f, next) == [next |-> next, expires |-> Now + KeepaliveTimeout, expired |-> FALSE]

\* A plausible bug: an expired flow goes on where it stopped.
ChangedInPlace(table, f) == Begun(f, table[f].next)

\* A plausible bug: ... or without time to send its next keepalive.
ChangedWithoutTime(table, f) ==
    [table[f] EXCEPT !.next = IF table[f].expired THEN Bootstrapped(f, Now) ELSE @,
                     !.expired = FALSE]

\* SetChannels: a receiver changes the channels of its flow, which may have
\* expired, and is given time to send its next keepalive.
Changed(table, f) ==
    Begun(f, IF table[f].expired THEN Bootstrapped(f, Now) ELSE table[f].next)

Commands == {"NoOp", "AddFlow", "RemoveFlow", "SetChannels"}

IsLegal(table, c, f) ==
    CASE c = "NoOp" -> f = 1
      [] c = "AddFlow" -> table[f] = NoFlow
      [] OTHER -> table[f] # NoFlow

Executed(table, c, f) ==
    CASE c = "NoOp" -> table
      [] c = "AddFlow" -> [table EXCEPT ![f] = Begun(f, Bootstrapped(f, Now))]
      [] c = "RemoveFlow" -> [table EXCEPT ![f] = NoFlow]
      [] c = "SetChannels" -> [table EXCEPT ![f] = Changed(table, f)]

-----------------------------------------------------------------------------
(* ... and its loop *)

\* The command of an iteration and the head of the next one, when `table` is
\* what transmit has left, `sent` the flows that sent a packet and `busy` for
\* how long the thread was blocked.
Iterate(table, sent, read, busy, allowed) ==
    \E c \in allowed, f \in Flows :
        /\ IsLegal(table, c, f)
        /\ c # "NoOp" => commands < MaxCommands
        /\ LoopTop(Executed(table, c, f), busy)
        /\ LET fresh == IF c \in {"AddFlow", "RemoveFlow"} THEN {f} ELSE {}
               asked == IF c \in {"AddFlow", "SetChannels"} THEN {f} ELSE {}
               begun == {g \in asked : table[g].expired}
           IN  /\ commands' = IF c = "NoOp" THEN commands ELSE commands + 1
               /\ alive' = (alive \ fresh) \cup asked
               /\ pending' = (pending \ read) \ fresh
               /\ silent' = [g \in Flows |-> IF g \in asked THEN 0 ELSE silent[g]]
               /\ quiet' = [g \in Flows |-> IF g \in sent \cup begun THEN 0 ELSE quiet[g]]
               /\ last' = [g \in Flows |->
                      IF g \in fresh \cup begun THEN Unset
                      ELSE IF g \in sent THEN table[g].next - Fpp[g] ELSE last[g]]
    /\ UNCHANGED <<clockVars, broken>>

TransmitThen(events, allowed) ==
    /\ wait <= 0
    /\ Iterate(Transmitted(events), {f \in Served : HasDue(f)},
               IF events THEN Served ELSE {},
               IF Blocking = {} THEN 0 ELSE MaxAwake, allowed)

\* Asleep for less than SELECT_THRESHOLD, the thread looks for a command when
\* it processes events.
Poll ==
    /\ ~selects
    /\ LET events == Now >= nextEvents
       IN  /\ TransmitThen(events, IF events THEN Commands ELSE {"NoOp"})
           /\ nextEvents' = IF events THEN Now + EventsInterval ELSE nextEvents

\* ... and otherwise a command wakes it up, or the time for a packet.
SelectTimer ==
    /\ selects /\ \E f \in Flows : Active(f)
    /\ TransmitThen(TRUE, {"NoOp"})
    /\ UNCHANGED nextEvents

SelectCommand ==
    /\ selects
    /\ Iterate(flow, {}, {}, 0, Commands \ {"NoOp"})
    /\ UNCHANGED nextEvents

Environment ==
    \/ Tick
    \/ Jump
    \/ \E f \in Flows : Keepalive(f) \/ Abandon(f) \/ Break(f)

TxThread == Poll \/ SelectTimer \/ SelectCommand

Next == Environment \/ TxThread

Spec == Init /\ [][Next]_vars

-----------------------------------------------------------------------------
(* Properties *)

\* A receiver that sends keepalives has a flow, and a flow that has not expired
\* has a time for its next packet (flows_tx.rs:49-68).
TypeOK ==
    /\ time \in 1 .. MaxTime /\ {jump, overlay, wait} \subseteq Int
    /\ flow \in [Flows -> [next : Int, expires : Int, expired : BOOLEAN]]
    /\ \A f \in Flows : Active(f) => flow[f].next # Unset
    /\ selects \in BOOLEAN /\ {nextEvents, current, shown} \subseteq Int
    /\ alive \subseteq {f \in Flows : Exists(f)}
    /\ pending \subseteq Flows /\ broken \subseteq Breakable
    /\ silent \in [Flows -> Nat] /\ quiet \in [Flows -> Nat]
    /\ last \in [Flows -> Int]
    /\ commands \in 0 .. MaxCommands

\* A receiver that goes on sending keepalives keeps its flow, whatever it
\* changes, and also across a jump of the clock that is short against the timeout
\* (flows_tx.rs:64-68, 220-226, 412-425).
KeptAlive == \A f \in alive \ broken : Exists(f) => Active(f)

\* How long the thread may take to see that a keepalive has come, or that none has.
Noticing(f) == EventsInterval + Fpp[f] + MaxAwake + 2 * MaxStall

\* A receiver that has gone costs the bandwidth of its flow for the keepalive
\* timeout, the time to notice its last keepalive and then that no other has come,
\* and what the clock was set back, when the flow can be sent
\* (flows_tx.rs:64-68, 220-226, 318-326).
AbandonedExpires ==
    \A f \in Flows \ (alive \cup broken) :
        Active(f) => silent[f] <= KeepaliveTimeout + 2 * Noticing(f)
                                  + (IF jump < 0 THEN -jump ELSE 0)

\* Whatever the clock does (up to DISCONTINUITY_THRESHOLD_SAMPLES) and whether or
\* not a flow that comes later in the table can be sent, a flow is never without
\* packets for longer than that threshold (flows_tx.rs:138-145, 205-216).
StreamResumes ==
    \A f \in Flows \ broken :
        Active(f) => quiet[f] <= Discontinuity + Fpp[f] + MaxAwake + 2 * MaxStall

\* No timestamp is sent twice in an uninterrupted flow while the clock does not
\* jump back farther than the code takes for a new timeline (flows_tx.rs:138-145).
NeverTwice == \A f \in Flows : Active(f) => flow[f].next > last[f]

\* "app may overwrite not-yet-sent samples" (alsa-plugin/src/lib.rs:198): the application is
\* never told of a position beyond the next sample of any flow.
ShownIsSent == jump = 0 => \A f \in Flows : Active(f) => flow[f].next >= shown
=============================================================================
