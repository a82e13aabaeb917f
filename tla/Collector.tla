------------------------------ MODULE Collector ------------------------------
(***************************************************************************)
(* device_server/samples_collector.rs: the PeriodicSamplesCollector, which *)
(* hands the samples of all connected channels to a callback, in pieces    *)
(* that are cut at the same timestamps for every channel.                  *)
(*                                                                         *)
(* A ring belongs to a channel of a flow (OwnedBuffering): the subscriber  *)
(* makes it, sends its sink to the RX thread and its source to the         *)
(* collector, in either order, and keeps it while the flow lasts.  What    *)
(* the rings hold is module Ring's; here a ring is its readable_pos.       *)
(*                                                                         *)
(* Positions are relative to the media clock, so that time has no bound;   *)
(* clocks wrap, and Word is the number of their values.                    *)
(***************************************************************************)
EXTENDS Integers, FiniteSetsExt

CONSTANTS
    Inputs,             \* the channels
    LatencyOf,          \* latency_samples of each channel's flow
    MaxStalled,         \* how far a ring may be behind the media clock: the
                        \* RX thread closes it, or takes over a new one
    Interval,           \* READ_INTERVAL
    MaxLag,             \* MAX_LAG_SAMPLES
    BufferSize,         \* BUFFER_SIZE
    SaneDiff,           \* SANE_CLOCK_DIFF
    Word                \* 2^64

ASSUME CollectorAssumption ==
    /\ {MaxStalled, Interval, MaxLag, BufferSize, SaneDiff, Word} \subseteq Nat
    /\ LatencyOf \in [Inputs -> Nat]
    /\ Interval < BufferSize /\ BufferSize < SaneDiff
    /\ \A c \in Inputs : MaxStalled + LatencyOf[c] + SaneDiff + Interval < Word \div 2

Unset == Word           \* no media clock has been taken

VARIABLES
    ring,               \* "none", "made", or "written" by the RX thread
    end,                \* readable_until, relative to now
    commands,           \* connections the collector has not handled yet
    connected,          \* channels: Some(Channel)
    clock,              \* `clock` of run(), relative to now, or Unset
    since,              \* time since the last tick
    delivery            \* the last delivery: where it began after `clock`,
                        \* and the connected channels it had nothing of

collectorVars == <<ring, end, commands, connected, clock, since, delivery>>

CollectorInit ==
    /\ ring = [c \in Inputs |-> "none"]
    /\ end = [c \in Inputs |-> 0]
    /\ commands = {}
    /\ connected = {}
    /\ clock = Unset
    /\ since = 0
    /\ delivery = [skipped |-> 0, silent |-> {}]

-----------------------------------------------------------------------------
(* The subscriber and the RX thread *)

\* OwnedBuffering::connect_channel: a ring that starts now, or the one there is.
Subscribe(c) ==
    /\ c \notin connected \cup commands
    /\ ring' = [ring EXCEPT ![c] = IF @ = "none" THEN "made" ELSE @]
    /\ end' = [end EXCEPT ![c] = IF ring[c] = "none" THEN 0 ELSE @]
    /\ commands' = commands \cup {c}
    /\ UNCHANGED <<connected, clock, since, delivery>>

\* flows_rx.rs ConnectChannel: the ring is reset to the present position.
TakeSink(c) ==
    /\ ring[c] = "made"
    /\ ring' = [ring EXCEPT ![c] = "written"]
    /\ end' = [end EXCEPT ![c] = LatencyOf[c]]
    /\ UNCHANGED <<commands, connected, clock, since, delivery>>

\* A packet, or a tick of the RX thread.
WriteRing(c) ==
    /\ ring[c] = "written"
    /\ \E e \in end[c] + 1 .. LatencyOf[c] : end' = [end EXCEPT ![c] = e]
    /\ UNCHANGED <<ring, commands, connected, clock, since, delivery>>

\* The flow is removed, after its last channel has left.
RemoveRing(c) ==
    /\ ring[c] = "written" /\ c \notin connected \cup commands
    /\ ring' = [ring EXCEPT ![c] = "none"]
    /\ end' = [end EXCEPT ![c] = 0]
    /\ UNCHANGED <<commands, connected, clock, since, delivery>>

-----------------------------------------------------------------------------
(* The collector *)

HandleConnect(c) ==
    /\ c \in commands
    /\ commands' = commands \ {c}
    /\ connected' = connected \cup {c}
    /\ UNCHANGED <<ring, end, clock, since, delivery>>

HandleDisconnect(c) ==
    /\ c \in connected
    /\ connected' = connected \ {c}
    /\ UNCHANGED <<ring, end, commands, clock, since, delivery>>

Ends == {end[c] : c \in connected}

\* A plausible bug: the lag prevention follows the fastest channel.
ReadableUntilFastest == Max(Ends)

\* "lag prevention logic to prevent abruptly disconnected transmitters from
\* causing buffer overrun in other audio channels".
ReadableUntil ==
    IF Max(Ends) - Min(Ends) > MaxLag THEN Max(Ends) - MaxLag ELSE Min(Ends)

\* wrapping_sub: a position that is behind is a huge difference.
Readable == (ReadableUntil - clock) % Word

\* "insane clock diff": the last samples instead.
StartTimestamp ==
    IF Readable > SaneDiff THEN ReadableUntil - SaneDiff ELSE clock

Count == Min({Readable, SaneDiff, BufferSize})

\* Channels that have less than the others, "if lag prevention logic triggers".
Behind == {c \in connected : end[c] < ReadableUntil}

TickWithoutChannels == connected = {} /\ UNCHANGED <<clock, delivery>>

\* "we don't have clock yet, bootstrap it using currently available timestamp"
FirstTick ==
    /\ connected # {} /\ clock = Unset
    /\ clock' = ReadableUntil
    /\ UNCHANGED delivery

Deliver ==
    /\ connected # {} /\ clock # Unset
    /\ delivery' = [skipped |-> StartTimestamp - clock, silent |-> Behind]
    /\ clock' = StartTimestamp + Count

\* A plausible bug: tokio's default, a late tick does not delay the next one.
CollectInBurst ==
    /\ since >= Interval
    /\ TickWithoutChannels \/ FirstTick \/ Deliver
    /\ since' = since - Interval
    /\ UNCHANGED <<ring, end, commands, connected>>

\* "MissedTickBehavior::Delay"
Collect ==
    /\ since >= Interval
    /\ TickWithoutChannels \/ FirstTick \/ Deliver
    /\ since' = 0
    /\ UNCHANGED <<ring, end, commands, connected>>

-----------------------------------------------------------------------------
(* Time *)

\* The tasks and the RX thread are served before a unit of time is over; a
\* clock older than any sane difference is as good as one just older.
Pass ==
    /\ since <= Interval
    /\ commands = {}
    /\ \A c \in Inputs : ring[c] # "none" => end[c] > -MaxStalled
    /\ end' = [c \in Inputs |-> IF ring[c] = "none" THEN 0 ELSE end[c] - 1]
    /\ clock' = IF clock = Unset THEN Unset
                ELSE Max({clock - 1, -(SaneDiff + MaxStalled + 1)})
    /\ since' = since + 1
    /\ UNCHANGED <<ring, commands, connected, delivery>>

CollectorNext ==
    \/ \E c \in Inputs :
           \/ Subscribe(c) \/ TakeSink(c) \/ WriteRing(c) \/ RemoveRing(c)
           \/ HandleConnect(c) \/ HandleDisconnect(c)
    \/ Collect
    \/ Pass

CollectorSpec == CollectorInit /\ [][CollectorNext]_collectorVars

-----------------------------------------------------------------------------
(* Properties *)

\* A ring is at most MaxStalled behind the media clock and its flow's latency
\* ahead of it (flows_rx.rs:282-346).
CollectorTypeOK ==
    /\ ring \in [Inputs -> {"none", "made", "written"}]
    /\ end \in [Inputs -> Int]
    /\ \A c \in Inputs : end[c] \in -MaxStalled .. LatencyOf[c]
    /\ commands \subseteq Inputs /\ connected \subseteq Inputs \ commands
    /\ clock \in -(SaneDiff + MaxStalled + 1) .. Word
    /\ since \in 0 .. Interval + 1
    /\ delivery \in [skipped : Int, silent : SUBSET Inputs]

\* No sample is handed to the callback twice: whatever connects, disconnects or
\* falls silent, a delivery begins where the last one ended, or later when
\* nothing was connected meanwhile.  A ring that is behind the clock would make
\* the unsigned difference wrap.
NeverReplays == delivery.skipped >= 0

\* A channel that is connected is in every delivery: neither the lag prevention
\* nor a ring that is younger than the others silences it.
ConnectedIsHeard == delivery.silent = {}
=============================================================================
