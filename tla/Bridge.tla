------------------------------ MODULE Bridge ------------------------------
(***************************************************************************)
(* sonusgrid-bridge/src/main.rs: one process with two real-time threads    *)
(* and the process callback of its JACK client.                            *)
(*                                                                         *)
(*   TX thread   PulseAudio monitor + txRing -> ALSA playback              *)
(*   RX thread   ALSA capture -> rxRing + FIFO                             *)
(*   callback    JACK input ports -> txRing, rxRing -> JACK output ports   *)
(*                                                                         *)
(* There is a lock-free ring per channel and direction, which one side     *)
(* pushes while the other one pops; samples are not told apart, so a ring  *)
(* is the number of them it holds.  main() waits for the stop flag and for *)
(* the threads, and systemd (sonusgrid-audio.service) for the process.     *)
(* The faders are in module Mixer.                                         *)
(***************************************************************************)
EXTENDS Integers

CONSTANTS
    Channels,         \* number of channels
    RingSize,         \* capacity of a ring (8 periods)
    Frames,           \* frames of one period, for ALSA and for JACK
    MaxPulseErrors    \* 2000: the TX thread gives up after so many failures

ASSUME ChannelsAssumption == Channels \in Nat \ {0}
ASSUME RingSizeAssumption == RingSize \in Nat \ {0}
ASSUME FramesAssumption == Frames \in Nat \ {0}
ASSUME MaxPulseErrorsAssumption == MaxPulseErrors \in Nat

Channel == 1 .. Channels
Threads == {"tx", "rx"}

VARIABLES
    service,      \* the unit: "running", "stopped", "exited" (status 0), "failed"
    stop,         \* the flag that the signal handler sets
    pulse,        \* does the PulseAudio connection work?
    playback,     \* the ALSA playback device: "ok", "xrun" or "gone"
    capture,      \* the ALSA capture device
    fifo,         \* the pipe-source's end of the FIFO: "reading", "full" (open,
                  \* but nobody reads) or "closed"
    pulseErrors,  \* pa_errors
    at,           \* where each thread is; at the end "refused" or "finished"
    channel,      \* the channel each of the threads and the callback is at ...
    frame,        \* ... and the frame
    jack,         \* where the callback is; "none" without a JACK server
    txRing,       \* tx_jack_rings: samples in the ring of each channel
    rxRing,       \* rx_jack_rings
    unblocked     \* passes of each thread's loop since it last waited

vars == <<service, stop, pulse, playback, capture, fifo, pulseErrors, at,
          channel, frame, jack, txRing, rxRing, unblocked>>

devices == <<pulse, playback, capture, fifo>>
process == <<service, stop>>
loops == <<at, unblocked, pulseErrors>>
rings == <<txRing, rxRing>>
cursors == <<channel, frame>>

EmptyRings == [c \in Channel |-> 0]

\* The rings and loops as a process has them when it starts, and leaves them.
Cleared ==
    /\ pulseErrors' = 0
    /\ channel' = [a \in Threads \cup {"jack"} |-> 1]
    /\ frame' = [a \in Threads \cup {"jack"} |-> 1]
    /\ txRing' = EmptyRings
    /\ rxRing' = EmptyRings
    /\ unblocked' = [t \in Threads |-> 0]

\* What a new process starts with: mixer, devices, rings and threads.  The FIFO
\* is opened for writing, which waits for a reader.
Started ==
    /\ fifo # "closed"
    /\ stop' = FALSE
    /\ at' = [t \in Threads |-> "start"]
    /\ jack' \in {"idle", "none"}
    /\ Cleared

Init ==
    /\ service = "running"
    /\ stop = FALSE
    /\ pulse = "ok"
    /\ playback = "ok"
    /\ capture = "ok"
    /\ fifo = "reading"
    /\ pulseErrors = 0
    /\ at = [t \in Threads |-> "start"]
    /\ channel = [a \in Threads \cup {"jack"} |-> 1]
    /\ frame = [a \in Threads \cup {"jack"} |-> 1]
    /\ jack \in {"idle", "none"}
    /\ txRing = EmptyRings
    /\ rxRing = EmptyRings
    /\ unblocked = [t \in Threads |-> 0]

Running == service = "running"

-----------------------------------------------------------------------------
(* The channels and frames that a loop goes through *)

\* The next frame of the same channel (the callback's order).
ByChannel(a) ==
    IF frame[a] < Frames
    THEN frame' = [frame EXCEPT ![a] = @ + 1] /\ UNCHANGED channel
    ELSE /\ frame' = [frame EXCEPT ![a] = 1]
         /\ channel' = [channel EXCEPT ![a] = IF @ < Channels THEN @ + 1 ELSE 1]

\* The next channel of the same frame (the threads' order).
ByFrame(a) ==
    IF channel[a] < Channels
    THEN channel' = [channel EXCEPT ![a] = @ + 1] /\ UNCHANGED frame
    ELSE /\ channel' = [channel EXCEPT ![a] = 1]
         /\ frame' = [frame EXCEPT ![a] = IF @ < Frames THEN @ + 1 ELSE 1]

IsLast(a) == channel[a] = Channels /\ frame[a] = Frames

\* ArrayQueue::pop: None if the ring is empty.
Popped(n) == IF n > 0 THEN n - 1 ELSE 0

\* A thread goes on at `place`, having waited or not.
Goes(t, place) == at' = [at EXCEPT ![t] = place]
Waits(t) == unblocked' = [unblocked EXCEPT ![t] = 0]

HasReturned(t) == at[t] \in {"refused", "finished"}

-----------------------------------------------------------------------------
(* The threads *)

\* io_i32 refuses a device that is not open for i32: the thread returns.
ThreadStart(t) ==
    /\ Running
    /\ at[t] = "start"
    /\ Goes(t, "head") \/ Goes(t, "refused")
    /\ UNCHANGED <<process, devices, pulseErrors, cursors, jack, rings, unblocked>>

\* The head of each loop: leave if stop is set.
LoopHead(t) ==
    /\ Running
    /\ at[t] = "head"
    /\ IF stop THEN Goes(t, "finished") /\ UNCHANGED unblocked
       ELSE Goes(t, "read") /\ unblocked' = [unblocked EXCEPT ![t] = @ + 1]
    /\ UNCHANGED <<process, devices, pulseErrors, cursors, jack, rings>>

\* pa_record.read blocks until there is a period.
TxRead ==
    /\ Running
    /\ at["tx"] = "read"
    /\ pulse = "ok"
    /\ pulseErrors' = 0
    /\ Waits("tx")
    /\ Goes("tx", "mix")
    /\ UNCHANGED <<process, devices, cursors, jack, rings>>

\* A dead connection fails at once: the thread sleeps one period, and gives up
\* after MaxPulseErrors failures in a row.
TxReadFails ==
    /\ Running
    /\ at["tx"] = "read"
    /\ pulse = "dead"
    /\ pulseErrors' = pulseErrors + 1
    /\ Waits("tx")
    /\ Goes("tx", IF pulseErrors + 1 > MaxPulseErrors THEN "finished" ELSE "mix")
    /\ UNCHANGED <<process, devices, cursors, jack, rings>>

\* One sample of one channel is mixed from PulseAudio and the JACK ring.
TxMix ==
    /\ Running
    /\ at["tx"] = "mix"
    /\ txRing' = [txRing EXCEPT ![channel["tx"]] = Popped(@)]
    /\ ByFrame("tx")
    /\ Goes("tx", IF IsLast("tx") THEN "write" ELSE "mix")
    /\ UNCHANGED <<process, devices, pulseErrors, jack, rxRing, unblocked>>

\* writei; on an xrun the device is recovered and gets a period of silence, and
\* if that fails, too, the thread sleeps.
TxWrite ==
    /\ Running
    /\ at["tx"] = "write"
    /\ Goes("tx", "head")
    /\ playback' = IF playback = "xrun" THEN "ok" ELSE playback
    /\ IF playback = "gone" THEN Waits("tx") ELSE UNCHANGED unblocked
    /\ UNCHANGED <<process, pulse, capture, fifo, pulseErrors, cursors, jack, rings>>

\* readi blocks until there is a period.
RxRead ==
    /\ Running
    /\ at["rx"] = "read"
    /\ capture = "ok"
    /\ Waits("rx")
    /\ Goes("rx", "push")
    /\ UNCHANGED <<process, devices, pulseErrors, cursors, jack, rings>>

\* try_recover restarts the device after an xrun; the next readi waits again.
RxRecover ==
    /\ Running
    /\ at["rx"] = "read"
    /\ capture = "xrun"
    /\ capture' = "ok"
    /\ Goes("rx", "head")
    /\ UNCHANGED <<process, pulse, playback, fifo, pulseErrors, cursors, jack, rings,
                   unblocked>>

\* A plausible bug: the loop is continued whether the device was recovered.
RxGoneHot ==
    /\ Running
    /\ at["rx"] = "read"
    /\ capture = "gone"
    /\ Goes("rx", "head")
    /\ UNCHANGED <<process, devices, pulseErrors, cursors, jack, rings, unblocked>>

\* A device that cannot be recovered: the thread sleeps 5 ms.
RxGone ==
    /\ Running
    /\ at["rx"] = "read"
    /\ capture = "gone"
    /\ Waits("rx")
    /\ Goes("rx", "head")
    /\ UNCHANGED <<process, devices, pulseErrors, cursors, jack, rings>>

\* A sample has been pushed; after the last one of the period the FIFO is next.
RxPushed ==
    /\ ByFrame("rx")
    /\ Goes("rx", IF IsLast("rx") THEN "fifo" ELSE "push")

RxPush ==
    /\ Running
    /\ at["rx"] = "push"
    /\ IF rxRing[channel["rx"]] < RingSize
       THEN /\ rxRing' = [rxRing EXCEPT ![channel["rx"]] = @ + 1]
            /\ RxPushed
       ELSE Goes("rx", "drop") /\ UNCHANGED <<rxRing, cursors>>
    /\ UNCHANGED <<process, devices, pulseErrors, jack, txRing, unblocked>>

\* A plausible bug: the full ring is pushed again without a pop.
RxDropNothing ==
    /\ Running
    /\ at["rx"] = "drop"
    /\ Goes("rx", "again")
    /\ UNCHANGED <<process, devices, pulseErrors, cursors, jack, rings, unblocked>>

\* The ring is full: the oldest sample is popped ...
RxDrop ==
    /\ Running
    /\ at["rx"] = "drop"
    /\ rxRing' = [rxRing EXCEPT ![channel["rx"]] = Popped(@)]
    /\ Goes("rx", "again")
    /\ UNCHANGED <<process, devices, pulseErrors, cursors, jack, txRing, unblocked>>

\* ... and the new one pushed again; a second failure would be ignored.
RxAgain ==
    /\ Running
    /\ at["rx"] = "again"
    /\ rxRing' = [rxRing EXCEPT ![channel["rx"]] = IF @ < RingSize THEN @ + 1 ELSE @]
    /\ RxPushed
    /\ UNCHANGED <<process, devices, pulseErrors, jack, txRing, unblocked>>

\* A plausible bug: the thread leaves when the pipe-source has closed its end.
RxWriteFifoReturns ==
    /\ Running
    /\ at["rx"] = "fifo"
    /\ fifo # "full"
    /\ Goes("rx", IF fifo = "closed" THEN "finished" ELSE "head")
    /\ UNCHANGED <<process, devices, pulseErrors, cursors, jack, rings, unblocked>>

\* write_all on a FIFO that was opened blocking: the thread waits for as long as
\* the FIFO is full.  Without a reader the write fails, which makes no
\* difference to the loop.
RxWriteFifo ==
    /\ Running
    /\ at["rx"] = "fifo"
    /\ fifo # "full"
    /\ Goes("rx", "head")
    /\ UNCHANGED <<process, devices, pulseErrors, cursors, jack, rings, unblocked>>

-----------------------------------------------------------------------------
(* The process callback: first all input ports, then all output ports *)

\* The JACK server calls it once per period.
JackBegin ==
    /\ Running
    /\ jack = "idle"
    /\ jack' = "push"
    /\ UNCHANGED <<process, devices, loops, cursors, rings>>

JackPushed ==
    /\ ByChannel("jack")
    /\ jack' = IF IsLast("jack") THEN "pull" ELSE "push"

JackPush ==
    /\ Running
    /\ jack = "push"
    /\ IF txRing[channel["jack"]] < RingSize
       THEN /\ txRing' = [txRing EXCEPT ![channel["jack"]] = @ + 1]
            /\ JackPushed
       ELSE jack' = "drop" /\ UNCHANGED <<txRing, cursors>>
    /\ UNCHANGED <<process, devices, loops, rxRing>>

\* The ring is full: the callback pops what the TX thread has not taken ...
JackDrop ==
    /\ Running
    /\ jack = "drop"
    /\ txRing' = [txRing EXCEPT ![channel["jack"]] = Popped(@)]
    /\ jack' = "again"
    /\ UNCHANGED <<process, devices, loops, cursors, rxRing>>

\* ... and pushes again.
JackAgain ==
    /\ Running
    /\ jack = "again"
    /\ txRing' = [txRing EXCEPT ![channel["jack"]] = IF @ < RingSize THEN @ + 1 ELSE @]
    /\ JackPushed
    /\ UNCHANGED <<process, devices, loops, rxRing>>

JackPull ==
    /\ Running
    /\ jack = "pull"
    /\ rxRing' = [rxRing EXCEPT ![channel["jack"]] = Popped(@)]
    /\ ByChannel("jack")
    /\ jack' = IF IsLast("jack") THEN "idle" ELSE "pull"
    /\ UNCHANGED <<process, devices, loops, txRing>>

-----------------------------------------------------------------------------
(* The process and its unit *)

\* systemctl stop: SIGTERM reaches the handler.
Signal ==
    /\ Running
    /\ ~stop
    /\ stop' = TRUE
    /\ UNCHANGED <<service, devices, loops, cursors, jack, rings>>

\* The process ends, with all that was in its memory.
Ends(status) ==
    /\ service' = status
    /\ jack' = "none"
    /\ Cleared
    /\ UNCHANGED <<stop, devices, at>>

\* main() sees the flag within a second and returns; the threads end with it.
MainStops ==
    /\ Running
    /\ stop
    /\ Ends("stopped")

\* main() finds both threads finished and returns Ok: exit status 0.
MainGivesUp ==
    /\ Running
    /\ ~stop
    /\ \A t \in Threads : HasReturned(t)
    /\ Ends("exited")

\* Restart=on-failure: a process that was killed, or could not open what it
\* needs (main returns an error), is started again after 3 s.
Fails ==
    /\ Running
    /\ ~stop
    /\ Ends("failed")

ServiceRestarts ==
    /\ service = "failed"
    /\ service' = "running"
    /\ Started
    /\ UNCHANGED devices

\* sonusgrid start, after a stop or an exit.
ServiceStarts ==
    /\ service \in {"stopped", "exited"}
    /\ service' = "running"
    /\ Started
    /\ UNCHANGED devices

-----------------------------------------------------------------------------
(* The environment *)

\* A Simple connection that has failed stays dead; the sound server itself may
\* be back for the next process.
PulseDies ==
    /\ pulse = "ok"
    /\ pulse' = "dead"
    /\ UNCHANGED <<process, playback, capture, fifo, loops, cursors, jack, rings>>

PulseReturns ==
    /\ pulse = "dead"
    /\ ~Running
    /\ pulse' = "ok"
    /\ UNCHANGED <<process, playback, capture, fifo, loops, cursors, jack, rings>>

\* An xrun takes a thread that was late: it has been waiting for the processor.
PlaybackFails ==
    /\ playback = "ok"
    /\ playback' \in {"xrun", "gone"}
    /\ Waits("tx")
    /\ UNCHANGED <<process, pulse, capture, fifo, at, pulseErrors, cursors, jack, rings>>

CaptureFails ==
    /\ capture = "ok"
    /\ capture' \in {"xrun", "gone"}
    /\ Waits("rx")
    /\ UNCHANGED <<process, pulse, playback, fifo, at, pulseErrors, cursors, jack, rings>>

\* The pipe-source stops reading, reads again, goes away or comes back.
PipeSource ==
    /\ fifo' \in {"reading", "full", "closed"} \ {fifo}
    /\ UNCHANGED <<process, pulse, playback, capture, loops, cursors, jack, rings>>

TxNext == ThreadStart("tx") \/ LoopHead("tx") \/ TxRead \/ TxReadFails \/ TxMix \/ TxWrite
RxNext == ThreadStart("rx") \/ LoopHead("rx") \/ RxRead \/ RxRecover \/ RxGone
          \/ RxPush \/ RxDrop \/ RxAgain \/ RxWriteFifo
JackNext == JackBegin \/ JackPush \/ JackDrop \/ JackAgain \/ JackPull
MainNext == MainStops \/ MainGivesUp

Next ==
    \/ TxNext
    \/ RxNext
    \/ JackNext
    \/ MainNext
    \/ Signal
    \/ Fails
    \/ ServiceRestarts
    \/ ServiceStarts
    \/ PulseDies
    \/ PulseReturns
    \/ PlaybackFails
    \/ CaptureFails
    \/ PipeSource

Spec == Init /\ [][Next]_vars

\* Threads are scheduled, and systemd restarts what has failed.
FairSpec ==
    /\ Spec
    /\ WF_vars(TxNext)
    /\ WF_vars(RxNext)
    /\ WF_vars(JackNext)
    /\ WF_vars(MainNext)
    /\ WF_vars(ServiceRestarts)

-----------------------------------------------------------------------------
(* Properties *)

TypeOK ==
    /\ service \in {"running", "stopped", "exited", "failed"}
    /\ stop \in BOOLEAN
    /\ pulse \in {"ok", "dead"}
    /\ playback \in {"ok", "xrun", "gone"}
    /\ capture \in {"ok", "xrun", "gone"}
    /\ fifo \in {"reading", "full", "closed"}
    /\ pulseErrors \in 0 .. MaxPulseErrors + 1
    /\ pulseErrors > MaxPulseErrors => at["tx"] = "finished"
    /\ at \in [Threads -> {"start", "refused", "head", "read", "mix", "write", "push",
                           "drop", "again", "fifo", "finished"}]
    /\ at["tx"] \notin {"push", "drop", "again", "fifo"}
    /\ at["rx"] \notin {"mix", "write"}
    /\ channel \in [Threads \cup {"jack"} -> Channel]
    /\ frame \in [Threads \cup {"jack"} -> 1 .. Frames]
    /\ jack \in {"none", "idle", "push", "drop", "again", "pull"}
    /\ txRing \in [Channel -> 0 .. RingSize]
    /\ rxRing \in [Channel -> 0 .. RingSize]
    /\ unblocked \in [Threads -> Nat]

\* main.rs:408: "Drop oldest and try again so the latest sample wins."  The
\* second push of either writer finds room, wherever the reader is.
LatestSampleWins ==
    /\ at["rx"] = "again" => rxRing[channel["rx"]] < RingSize
    /\ jack = "again" => txRing[channel["jack"]] < RingSize

\* main.rs:291: a SCHED_FIFO thread that loops without blocking gets the process
\* killed by the RTTIME watchdog.  Whatever fails, neither thread passes the head
\* of its loop twice more without having waited for something.
RealTimeThreadsWait == \A t \in Threads : unblocked[t] <= 2

\* The JACK leg goes on without the others.  main.rs:421: "keep feeding JACK
\* rings even if pipe-source closed its end of the FIFO": as long as the capture
\* device works and the FIFO is not full for good, the callback finds samples for
\* its output ports for ever.  And the TX thread finds those of its input ports
\* until it returns, whatever becomes of the playback device and the RX thread.
JackServed == Running /\ ~stop /\ jack # "none"

JackLegGoesOn ==
    /\ <>[](JackServed /\ at["rx"] # "refused" /\ capture = "ok" /\ fifo # "full")
          => []<>(jack = "pull" /\ \E c \in Channel : rxRing[c] > 0)
    /\ <>[](JackServed /\ ~HasReturned("tx"))
          => []<>(at["tx"] = "mix" /\ \E c \in Channel : txRing[c] > 0)

\* main.rs:302: the TX thread gives up "so systemd restarts the bridge", and
\* main.rs:452: main ends "so systemd can restart cleanly".
GivingUpRestarts == (at["tx"] = "finished" /\ ~stop) ~> ~(at["tx"] = "finished" /\ ~stop)

=============================================================================
