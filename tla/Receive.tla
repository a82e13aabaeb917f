------------------------------ MODULE Receive -------------------------------
(***************************************************************************)
(* aoip/src/device_server/flows_rx.rs: the "flows RX" thread against time. *)
(* Module FlowsRx follows its sockets and sinks; this one follows what the *)
(* thread does to the ring of one input channel, and so what the ALSA      *)
(* application hears, which reads the memory of the ring (unconditional_   *)
(* read) at the position of the media clock and looks at no other.         *)
(*                                                                         *)
(* Time is counted in samples of the media clock.  The sample that a       *)
(* transmitter takes at time t is t itself; it is to be heard at position  *)
(* t + latency - start, where start is the time the application started.   *)
(* The network loses, delays and reorders packets; the thread runs when it *)
(* gets the processor, at least every MaxStall samples while it has        *)
(* something to close.                                                     *)
(***************************************************************************)
EXTENDS Ring, FiniteSets

CONSTANTS
    Flows,          \* the flows that may carry the channel
    Latency,        \* latency_samples of each flow's socket
    Fpp,            \* samples of a packet
    MaxDelay,       \* how long a packet is on its way at most
    MaxStall,       \* ... and the time between two runs of the thread
    Period,         \* how far behind the clock the application still reads
    MaxTime,        \* bound on time
    Epoch,          \* the media clock when the receiver is started
    MaxStart,       \* the latest start of the application
    MaxConnects,    \* bound on how often the channel is connected
    ConnectEarly    \* whether a channel may be connected before the thread
                    \* has taken the start time

Unknown == -1
NoFlow == "none"

ASSUME ReceiveAssumption ==
    /\ NoFlow \notin Flows
    /\ Latency \in [Flows -> Nat]
    /\ {MaxDelay, MaxStall, MaxTime, MaxConnects, Epoch, MaxStart, Period} \subseteq Nat
    /\ \A f \in Flows : Latency[f] + Fpp + Period <= Size
    /\ Fpp \in 1 .. Size - 1
    /\ ConnectEarly \in BOOLEAN

VARIABLES
    now,            \* the media clock
    net,            \* the packets on their way: flow and first sample
    sent,           \* the flows that have sent at this time
    start,          \* the start time the application has sent
    startTimestamp, \* start_timestamp: the start time the thread has taken
    sockets,        \* the flows that have a socket
    sink,           \* the flow the channel is connected to
    shift,          \* Channel.timestamp_shift of that connection
    silenceEnd,     \* end_timestamp of the channel's SilenceWriter, or Unknown
    ring,           \* the ring, its RBInput included
    since,          \* how long ago close_items_until has run
    connects,       \* number of connections so far
    inTime          \* the positions that were written before their time, and
                    \* that the application has not finished with

vars == <<now, net, sent, start, startTimestamp, sockets, sink, shift, silenceEnd,
          ring, since, connects, inTime>>

Init ==
    /\ now = Epoch /\ net = {} /\ sent = {}
    /\ start = Unknown /\ startTimestamp = Unknown
    /\ sockets = {} /\ sink = NoFlow /\ shift = 0 /\ silenceEnd = Unknown
    /\ ring = NewRing(0)
    /\ since = 0 /\ connects = 0 /\ inTime = {}

IsWriting == sink # NoFlow \/ silenceEnd # Unknown

-----------------------------------------------------------------------------
(* The environment *)

\* Packets that are too late are lost: MaxDelay stands for the network.
Tick ==
    /\ now < MaxTime
    /\ IsWriting => since < MaxStall
    /\ now' = now + 1
    /\ since' = IF IsWriting THEN since + 1 ELSE 0
    /\ sent' = {}
    /\ net' = {p \in net : now' - p.ts <= MaxDelay}
    /\ inTime' = {q \in inTime : q >= now' - start - Period}
    /\ UNCHANGED <<start, startTimestamp, sockets, sink, shift, silenceEnd, ring,
                   connects>>

\* A transmitter sends at multiples of Fpp, with the timestamp of that time,
\* to a receiver that has a socket.
Transmit(f) ==
    /\ now % Fpp = 0 /\ f \in sockets \ sent
    /\ net' = net \cup {[flow |-> f, ts |-> now]}
    /\ sent' = sent \cup {f}
    /\ UNCHANGED <<now, start, startTimestamp, sockets, sink, shift, silenceEnd,
                   ring, since, connects, inTime>>

\* The application starts.  The subscriber awaits the same time before it
\* connects anything.
SendStartTime ==
    /\ start = Unknown /\ now <= MaxStart
    /\ start' = now
    /\ UNCHANGED <<now, net, sent, startTimestamp, sockets, sink, shift,
                   silenceEnd, ring, since, connects, inTime>>

-----------------------------------------------------------------------------
(* The thread: packets *)

\* try_recv of the start time, and the shift of the channels that are connected.
TakesStartTime ==
    IF startTimestamp = Unknown /\ start # Unknown
    THEN /\ startTimestamp' = start
         /\ shift' = IF sink = NoFlow THEN shift ELSE Latency[sink] - start
    ELSE UNCHANGED <<startTimestamp, shift>>

Samples(p) == [k \in 1 .. Fpp |-> p.ts + k - 1]

\* An event of a socket.  The packet is read in any case and written when the
\* start time is known.
Receive(p) ==
    /\ p \in net /\ p.flow \in sockets
    /\ net' = net \ {p}
    /\ TakesStartTime
    /\ LET written == sink = p.flow /\ startTimestamp' # Unknown
           at == p.ts + shift'
       IN  /\ ring' = IF written THEN WriteFromAt(ring, at, Samples(p)) ELSE ring
           /\ inTime' = IF written
                        THEN inTime \cup {q \in at .. at + Fpp - 1 : q >= now - start}
                        ELSE inTime
    /\ UNCHANGED <<now, sent, start, sockets, sink, silenceEnd, since, connects>>

-----------------------------------------------------------------------------
(* ... its commands *)

AddSocket(f) ==
    /\ start # Unknown /\ f \notin sockets
    /\ sockets' = sockets \cup {f}
    /\ UNCHANGED <<now, net, sent, start, startTimestamp, sink, shift, silenceEnd,
                   ring, since, connects, inTime>>

RemoveSocket(f) ==
    /\ f \in sockets /\ sink # f
    /\ sockets' = sockets \ {f}
    /\ net' = {p \in net : p.flow # f}
    /\ UNCHANGED <<now, sent, start, startTimestamp, sink, shift, silenceEnd, ring,
                   since, connects, inTime>>

StartOrZero == IF startTimestamp = Unknown THEN 0 ELSE startTimestamp

\* A plausible bug: the new sink is used although there is one.
ConnectedRingAnew(f) ==
    WithNewInput(Reset(ring, now + Latency[f] - StartOrZero))

\* "prefer existing sink - this ensures that buffer is erased properly but not
\* excessively": the sink of a silence writer goes on where it is, a new one
\* begins at the present position.
ConnectedRing(f) ==
    IF silenceEnd # Unknown THEN ring
    ELSE WithNewInput(Reset(ring, now + Latency[f] - StartOrZero))

ConnectChannel(f) ==
    /\ f \in sockets /\ sink = NoFlow
    /\ startTimestamp = Unknown => ConnectEarly
    /\ connects < MaxConnects
    /\ sink' = f
    /\ shift' = Latency[f] - StartOrZero
    /\ ring' = ConnectedRing(f)
    /\ silenceEnd' = Unknown
    /\ connects' = connects + 1
    /\ UNCHANGED <<now, net, sent, start, startTimestamp, sockets, since, inTime>>

\* A plausible bug: the sink is dropped, as it is when there is no clock.
EndOfSilenceNever == Unknown

\* The sink of a channel that is disconnected writes silence for one and a half
\* lengths of the ring.
EndOfSilence == now + Size + (Size \div 2) + shift

DisconnectChannel(f) ==
    /\ sink = f
    /\ sink' = NoFlow
    /\ silenceEnd' = EndOfSilence
    /\ UNCHANGED <<now, net, sent, start, startTimestamp, sockets, shift, ring,
                   since, connects, inTime>>

-----------------------------------------------------------------------------
(* ... and its ticks *)

\* The thread closes up to the position of the media clock.
CloseUntil == now - StartOrZero

CloseItems ==
    /\ IsWriting /\ since > 0
    /\ IF startTimestamp = Unknown THEN UNCHANGED <<ring, silenceEnd>>
       ELSE /\ ring' = CloseItemsUntil(ring, CloseUntil)
            /\ silenceEnd' = IF silenceEnd # Unknown /\ CloseUntil >= silenceEnd
                             THEN Unknown ELSE silenceEnd
    /\ since' = 0
    /\ UNCHANGED <<now, net, sent, start, startTimestamp, sockets, sink, shift,
                   connects, inTime>>

Environment == Tick \/ SendStartTime \/ \E f \in Flows : Transmit(f)

RxThread ==
    \/ \E p \in net : Receive(p)
    \/ \E f \in Flows : AddSocket(f) \/ RemoveSocket(f)
    \/ \E f \in Flows : ConnectChannel(f) \/ DisconnectChannel(f)
    \/ CloseItems

Next == Environment \/ RxThread

Spec == Init /\ [][Next]_vars

-----------------------------------------------------------------------------
(* Properties *)

\* A packet on its way belongs to a socket, a sink, too, and a channel has a sink
\* or a silence writer, not both (flows_rx.rs:301-346).
TypeOK ==
    /\ {now, since, connects} \subseteq Nat /\ connects <= MaxConnects
    /\ {start, startTimestamp} \subseteq Nat \cup {Unknown}
    /\ startTimestamp \in {Unknown, start}
    /\ sockets \subseteq Flows /\ sent \subseteq Flows
    /\ net \subseteq [flow : sockets, ts : Nat]
    /\ sink \in sockets \cup {NoFlow}
    /\ shift \in Int /\ silenceEnd \in Int
    /\ ~(sink # NoFlow /\ silenceEnd # Unknown)
    /\ {ring.w, ring.r} \subseteq Int /\ ring.ready \subseteq Slots
    /\ ring.slots \in [Slots -> Nat \cup {Silence}]
    /\ inTime \subseteq Int

\* What slot q may hold when the application hears it.
Due(q) == {q + start - Latency[f] : f \in Flows} \cup {Silence}

\* The positions that are behind the thread's last run and that the application
\* may still be reading; before the first packet the buffer is as the plugin
\* left it, all zero.
Passed == {q \in (now - start - Period) .. (now - start - MaxStall - 1) : q >= 0}

\* A position that passes holds the sample that is due there or silence: the
\* audio of a stream that broke, of a channel that was disconnected or of an
\* earlier connection does not come round again.
HeardIsDue ==
    start # Unknown => \A q \in Passed : ring.slots[q % Size] \in Due(q)

\* A sample that was written before its time is still there when its position
\* passes: neither the closing of holes, nor a switch to another flow, nor a
\* silence writer erases what has come.
ArrivedIsHeard ==
    start # Unknown =>
        \A q \in Passed \cap inTime : ring.slots[q % Size] # Silence
=============================================================================
