# Verification of the SonusGrid audio engine

TLA+ models of the engine in `crates/sonusgrid-engine/aoip` and of what runs
around it (the ALSA plug-in, the bridge, the clock socket, the systemd units and
the CLI that starts them), their TLC configurations, and TLAPS proofs. Paths
below are relative to `src/crates/sonusgrid-engine/aoip/src` unless they begin
with `crates/`.

## The system

SonusGrid makes a Linux machine an AES67/Dante-like audio device. The engine
(`aoip`) is a set of tokio tasks and two real-time threads; an ALSA plug-in, a
C library and a pipe program embed it, and `sonusgrid-bridge` feeds the plug-in
from PulseAudio and JACK. All the programs run the tasks on a *current-thread*
runtime: tasks interleave only where they await, and the real-time threads run
in parallel with them. Two user units run the PTP daemon (Statime, which also
serves the clock socket) and the bridge; `sonusgrid start` and `stop` drive them.

| Component (source) | State | Operations | Who calls it | What is hard |
|---|---|---|---|---|
| real-time box channel (`util/real_time_box_channel.rs`) | two atomic slots, the receiver's box | `send`, `collect_garbage`, `update` | samples collector, clock task → real-time reader | lock-free; nobody may free in the real-time thread |
| ring buffer (`ring_buffer.rs`) | slots, `writing_pos`, `readable_pos`, `item_ready` | `write_from_at`, `close_items_until`, `read_at`, `reset` | RX thread writes; collector or ALSA application reads | lock-free, late and lost packets, wrap-around, weak memory order |
| transmitter (`device_server/flows_tx.rs`) | three tables, the TX thread's table, a queue of commands, `expired` flags | `add_flow`, `remove_flow`, `set_channels`, `scan_expired`, the thread's commands | flows control server, multicasts | two tables joined by a queue; flows that expire at any time |
| flows control server (`device_server/flows_control_server.rs`) | none | request, update, stop flow | other devices | duplicated requests |
| multicasts (`device_server/tx_multicasts.rs`) | bundles, their tasks, the file `tx_multicasts` | `add_flow`, `remove_flow`, `load_state`, `save_state`, `shutdown` | ARC server, start and stop | a task that waits for seconds and then acts by index |
| receiver (`device_server/flows_rx.rs`) | `flows_info`, a queue, the RX thread's sockets, sinks, silence writers | `add_socket`, `remove_socket`, `connect_channel`, `disconnect_channel`; the thread's commands and ticks | channels subscriber | handlers that assert; a lock that can be poisoned |
| channels subscriber (`device_server/channels_subscriber.rs`) | subscriptions, flows with reference counts, `subscriptions_info`, the file `rx_subscriptions` | `subscribe`, `unsubscribe`; `resolve_subscriptions`, `scan_flows` | ARC server | spawned tasks, requests that fail or time out, slots that are shared and reused |
| samples collector (`device_server/samples_collector.rs`) | connected channels, the reading clock | connect, disconnect, periodic or real-time read | subscriber, application | lagging transmitters, clock jumps |
| media clock (`media_clock.rs`), `crates/sonusgrid-engine/usrvclock-rs` | the last overlay; clients of the clock socket | update, now; send, receive | PTP daemon → everything | reconnection, a clock that is missing |
| device server (`device_server/mod.rs`) | which parts run, and what is to be shut down | `receive`, `transmit`, `stop` | embedding program | order of the shutdown, joining threads from the runtime |
| ALSA plug-in (`crates/sonusgrid-engine/alsa-plugin`) | PCM state, engine handle | start, stop, pointer, transfer | ALSA application | restarts while the engine starts |
| names of the channels (`device_server/mdns_server.rs`, `saved_settings.rs`, `settings.rs`) | mDNS records, friendly names, the file `tx_channels` | add, remove and refresh a record; rename; load and save | device server, ARC server, multicasts | records removed by a name that has changed meanwhile |
| bridge (`crates/sonusgrid-bridge`) | two threads, the JACK callback, rings | playback and capture loops | systemd, PulseAudio, JACK | errors of one leg while the other goes on |
| mixer (`crates/sonusgrid-bridge/src/mixer.rs`) | gains and mutes, `dirty`, the file | set, save (two threads), load | GUI over a socket, audio threads | a change that falls into a save |
| CLI and units (`crates/sonus-cli`, `src/systemd`) | unit states, start jobs, sockets' files | `start`, `stop`, the checks and waits of the units | user, systemd | files and processes that outlive each other |
| CMC and info servers; protocol; other settings; GUI | configuration and formatting | queries | controllers, users | not concurrent in themselves |

`PROJECT.json` lists every component with its status, and under `hazards` what
is hard to test, at its line.

How they interact. The subscriber owns the receiver's front, which sends
commands over a queue to the RX thread; the thread writes the rings; the
collector or the ALSA application reads them. The flows control server and the
multicasts share the transmitter under a mutex; its commands go over another
queue to the TX thread, which reads the rings the application writes. The clock
task sends overlays to both threads through box channels. The ALSA plug-in sends
`start` and `stop` over a channel to the thread that runs the device server.

## The modules

| Module | Models | A step is |
|---|---|---|
| `Mailbox` | what the box channel promises (abstract specification) | a whole call |
| `RealTimeBox` | the box channel; implements `Mailbox` | one atomic operation |
| `RingBuffer` | one writer and one reader of a ring | a store or load of a position, or the items of a call |
| `Ring` | the same ring as functions from ring to ring | (no behaviour of its own) |
| `FlowsTx` | the transmitter's tables, its queue, the flows control server | a call under the mutex, a command, a flag |
| `Transmit`, `MCTransmit` | the TX thread against time | an iteration of its loop, or a wait that ends |
| `TxMulticasts` (extends `FlowsTx`), `MCTxMulticasts` | bundles and their tasks, saving, loading, stopping, crashing | what a task does between two awaits |
| `FlowsRx` | the receiver's front and its thread's commands | a front function, a command |
| `Receive`, `MCReceive` (over `Ring`) | the RX thread against time, and what is heard | a run of the thread, a command, a sample of time |
| `Subscriber` (extends `FlowsRx`), `MCSubscriber` | the subscriber's worker, its spawned tasks and requests, the user, the other devices | what a task does between two awaits |
| `Collector` | the periodic samples collector | a tick, a command, a write of the RX thread |
| `Names` | the names under which channels are found | what a task does between two awaits |
| `Engine` | the plug-in's handles, the shared instances, their device servers and stream threads | a call of the plug-in, a command, a thread's step |
| `UsrvClock` | the clock socket's server and blocking clients | a system call |
| `Session` (extends `UsrvClock`) | the two units, `start` and `stop` | a process' step, systemd's step |
| `Bridge` | the bridge's threads, callback and rings | a push, a pop, a device call |
| `Mixer` | the faders, their file, the two savers | a store, a line read, a file operation |
| `ServerProofs` (over `RealTimeBox` and `Collector`), `RingBufferProofs`, `MulticastProofs` (over `TxMulticasts` and `FlowsTx`), `SubscriberProofs` (over `Subscriber` and `FlowsRx`), `ReceiveProofs`, `TransmitProofs`, `HostProofs` (over `Bridge`, `Mixer` and `Session`), `EngineProofs` | the theorems about the modules they extend | |
| `MCServer` | `RealTimeBox`, `Collector`, `Names` side by side | |
| `MCHost` | `Bridge`, `Mixer`, `Session` side by side | |

`TxMulticasts` and `Subscriber` are compositions: the first interleaves the
bundles' tasks with everybody else who uses the transmitter, the second sends
its commands through `FlowsRx` to the RX thread. `Session` composes the units
with the protocol of the clock. `MCServer` and `MCHost` compose nothing: a
behaviour of theirs is one of three parts that have no state in common, chosen
at the start, so that a run explores the sum of their state spaces.

### RealTimeBox

`next` and `prev` are the two `AtomicOptionBox`; `curr` is the receiver's box,
`held` the one that `update` has in a local variable. `receiver` and `sender`
say where each is inside its call. Boxes are numbered in the order of `send`.
`CollectAfterSend` tells the two users apart: `ToRealTime::run`, which collects
after each command, and the clock's forwarder, which does not.

### RingBuffer and Ring

A sample is its timestamp; slot `t % Size` holds the timestamp stored there, or
`Silence`. `write_from_at` is `WriteBegin` (the test for a hole and the marking
of missing items), `WriteAnnounce` (`writing_pos`), `WriteStore`,
`WritePublish` (`readable_pos`) or `WriteClose…` (the closing of old holes) and
`WriteAdvance`. `read_at` is `ReadBegin`, `ReadCopy`, `ReadVerify`; `useful` is
what it reported. All the stores of a call are one step because every property
speaks of one timestamp, for which only the order of its slot's store relative
to the positions counts. With `StoresInOrder = FALSE` the stores of the items
may be seen before the store of `writing_pos`, as on AArch64.

`Ring` is the same code as seen by its only writer: `Reset`, `WithNewInput`,
the write and the closing of a tick as functions. It serves `Receive`, whose
reader (the ALSA application, `unconditional_read`) looks at no position.

### FlowsTx and TxMulticasts

`control` is `FlowsTransmitter` (`flows`, `ipPortToId`, `info`) with its end of
the queue; `txFlows` is the thread's table; `expired` the flags. Flows are
numbered when they are created, so that a command or a flag that belongs to an
old flow at the same index can be told from one for the new flow.
`TxMulticasts` adds `bundles`, one `task` per bundle (`spawn`, `query`,
`queryAgain`, `decide`, `done`), what mDNS advertises and has reserved, and the
file. A controller's request for a bundle holds the mutex twice: the ARC server
finds the index free and unlocks the transmitter (`CreateMulticast`), then
`add_flow_internal` draws an address and adds the flow (`AddChecked`); `request`
is what it has found possible in between. An error of the second call is only
logged, so that the bundle, its task and its line in the file exist whether or
not it has a flow. A bundle that is loaded uses the address it was saved with
unchecked (`LoadNext`), and one that finds another bundle at its index ends the
server's task by an assertion (`AddPanics`). `Races` says what may happen at an
inconvenient time: a deletion during the grace period, a stop, a crash, a
receiver that is given the index found free (`takenIndex`), a saved address
that is in use (`usedAddress`), a socket that cannot be made (`noSocket`). The
flows control server is started when the saved bundles have been loaded
(`Loaded`).

### Transmit

`flow` is the TX thread's table, each entry with `next_ts`, `expires` and
`expired`; `wait` is how long the thread still sleeps, `selects` whether a
command wakes it up (the next packet is far away), `overlay` the clock it has.
`Transmitted` is one call of `transmit`: a flow that lags by more than
`max_lag_samples`, or is ahead by more than the threshold, starts anew at the
present, otherwise it goes on where it was; packets go out until nothing is due
or a flow that the kernel refuses has blocked the thread for too long. The receivers' keepalives, the clock and its
one jump, and the kernel are the environment; `Pointer` is the ALSA
application, which asks `plugin_pointer` at any time and overwrites up to the
answer.

`AbandonedExpires` is about flows that can be sent. The iteration that is blocked by
a flow returns before it looks at that flow's keepalives (flows_tx.rs:209), and it may
be each time the one that processes events: an unsendable flow expires only when events
fall on an iteration in which it has just been given a new timeline. TLC finds
instances in which they never do (one flow, `Fpp = 2`, `EventsInterval = 3`, `MaxAwake =
MaxLag = 1`); with 33 ms against 5 + 2 ms the code bounds it no better.

### FlowsRx and Subscriber

`front` is `FlowsReceiver`: `info`, the queue, and whether a panic has poisoned
the lock. `sockets` maps a flow and a slot to the sinks the thread writes, and
`silence` is the set of the silence writers.

`Subscriber`'s worker is the single task `run`. `at` is its place; it waits at
`idle`, `query`, `waiting` and `stopping`, and between them no other task runs.
What it spawns (`connect_channel`, `disconnect_channel`, `remove_socket` of a
bundle) is queued in `tasks`; the runtime polls the ready tasks in the order in
which they became ready, and the worker is woken by a timer or a socket after
they were queued, so it resumes behind them (`Resumes`). The exception is a
request that fails without a wait, `StopFlows(unreachable)`. The RX thread
executes its commands at any time. The user's commands arrive whenever the
worker waits. A device answers an update or a request for a flow, or the
request fails; `flows[f].heard` is what the transmitter really puts in each
slot, next to `flows[f].tx`, what the subscriber believes (`tx_channels`).

The order in which servers are asked and the order of hash maps is fixed by
`CHOOSE`-like choices (`SetToSeq`); within a server it is the code's.

### Receive

Time is counted in samples, and the sample taken at `t` is `t` itself, so that
what a position ought to hold is known. `net` holds packets on their way; the
thread takes the start time, receives, and closes what is late in its tick; a
disconnected channel gets a silence writer until the latency is over. Time
moves the application's position over the ring; the properties compare
what passes with what was due.

### Collector

A ring is its `readable_pos`, relative to the media clock, so that time needs
no bound; the numbers wrap at `Word`. `Subscribe` makes a ring and sends its two
ends off, in either order; `Collect` is a tick of `run`, with the minimum and
maximum of the ends, the lag prevention, the clock it keeps, and the subtraction
without a sign.

### Names

`services` is the set of records that the broadcaster holds, `friendly` and
`savedName` the names in memory and in the file, `given` what the user last
asked for. A save is taken to succeed: an error is logged and forgotten
(saved_settings.rs:73) and leaves the names of the last save. The main task runs on from the clock's first overlay until it finds
no command in its channel, which decides whether the channels are advertised
before the ARC server's task has loaded the saved names (`EarlyCommand`).

### Engine

`app` is where each PCM handle is, `stream` what each `prepare` has started,
`queue` the instance's commands, `engine` and `thread` the places of its thread
and of the threads of its streams, `joining` what is being shut down. libasound
guarantees the order of calls of one handle, nothing between handles.
`get_or_create_instance` locks the table of instances and then the instance
(lib.rs:394-396) in one step; between the two locks a call of another handle could
only make `prepare` fail. A
`buffers` number stands for the memory of a handle, `valid` for its
`buffers_valid` flag.

### UsrvClock and Session

Sockets are the kernel's: files outlive their sockets (`path`, `reply`), a
datagram to a full queue is refused, a connected socket does not notice that
its peer is gone. `Session` adds the states of the two units with their start
jobs, what `ExecStartPre` checks, which exit prevents a restart, and the
commands `start` and `stop` step by step; `nic` is the interface's address,
`config` what is in the file.

### Bridge and Mixer

`Bridge` has the TX thread (PulseAudio and JACK's ring to ALSA), the RX thread
(ALSA to the FIFO and JACK's ring), the callback, `main` and the restart by
systemd; each push and pop of a sample is a step. The FIFO is opened and written
blocking: `fifo` says whether the pipe-source reads, keeps it open without
reading ("full"), or has closed it. While it is full `RxWriteFifo` waits
(`main.rs:415`), and with it the RX thread and JACK's output ports; `JackLegGoesOn`
therefore promises these only while the FIFO is not full for good, and JACK's
input ports whatever becomes of the RX thread. When the process ends, its rings
and loops are gone (`Ends`).

`Mixer` has the control and the meters thread, which save through the same
temporary file: `handle` is the file a saver has open, which another one's
rename may have unlinked or made the real one. A save may fail at each of its
system calls, and a write that fails leaves the file that it has truncated empty
or cut at any line (`Torn`), where the other saver may rename it with success.
`load_state` takes what a cut file has and defaults for the rest (`Loaded`).
`failed` is set by a save that failed, and reset by one that was renamed and had
created its temporary file later (`crossed` are those that had not): the code
does not try again, so `SavedWhenClean` and `ChangesAreSaved` speak of what is
in the file when `failed` is reset. The faders and the mark are relaxed atomics,
which the model has sequentially consistent: it does not show a machine that
lets the meters thread see the clearing of the mark and a touch of the same
moment in another order than the faders.

## The runs

| Run | Bounds | What it shows |
|---|---|---|
| `server` | 6 sends; channels of latency 1 and 3, a stall of 1, `READ_INTERVAL` 4, `MAX_LAG_SAMPLES` 16, a buffer of 20, words of 1024; 2 channels, 2 more names, a bundle, 2 restarts | every interleaving of the box channel's atomic operations: nothing is leaked or freed twice, `Mailbox` is implemented, a box that waits is received; the collector hands out no sample twice and cuts no channel off; channels are found under the names they were given |
| `ring` | ring of 4, packets of up to 2, up to 4 late, gaps of 2, timestamps to 9 | reads are faithful, a broken stream is silent, samples that arrived are kept |
| `ring_no_order` | packets of 1, 3 late, gaps of 1 | what remains true when a weak memory model reorders the stores |
| `multicasts` | 2 indices, 1 receiver, 2 addresses, a queue of 1, 6 flows, 2 bundles, 1 conflict | bundles go on the air at an address that was reserved, what is advertised is on the air, and every bundle gets there |
| `multicasts_restart` | 2 indices, 1 receiver that asks once, 2 addresses, a queue of 1, 3 flows, 2 bundles, 1 conflict, all `Races` but a crash while the list is loaded or saved | the tables agree and commands find what they expect, also with bundles that have no flow; the saved bundles come back |
| `subscriber` | 2 channels, 2 unicast sources and a bundle, 2 flows of 2 slots; a command, a failure, a silent flow | the ring buffers follow the subscriptions; no panic, no double writer, no wrong source |
| `subscriber_live` | a unicast source and a bundle, a failure, a silent flow | every subscription ends up with its audio |
| `receive` | ring of 8, `hole_fix_wait` 3, flows of latency 2 and 3, packets of 2, delays of up to 2, a stall of 1, a period of 3, time 11 to 31, 2 connections | what is heard is what is due, and what came in time is heard |
| `transmit` | 2 flows of packets of 2, jumps by 1 and -3 against thresholds of 1 and 5, a keepalive timeout of 7, 3 commands, time to 17; the kernel refuses flow 2 from some time on | flows live as long as their receivers, no timestamp is sent twice, streams resume, the application overwrites nothing that is still to be sent |
| `engine` | a capture and a playback handle, 2 instances, 2 streams, 1 change of buffers | streams that others need survive, no stale buffers, `prepare` returns |
| `host` | bridge: 2 channels, rings of 1, 1 PulseAudio error before giving up, any two of PulseAudio, FIFO, playback and capture failing at once; faders: 2 lines of 2 levels, saves that fail at any call; units: every kind of config, 2 crashes | the latest sample wins, real-time threads wait, the JACK leg goes on; a restart finds the faders as the last save left them; the session comes up and the bridge follows its clock |
| `session_broken` | the units with a config that cannot be parsed | a violation, see *Findings* |

Why the bounds are enough. A ring of four has every relation of a packet to the
positions (before, across, after, one lap apart), and timestamps go twice
around it; the ring of eight of `receive` holds the longer latency, a packet and
the application's period, and goes round twice after the start. Two indices,
two bundles and a receiver make every pair compete for an index, and six flows
let an index be given away several times. Two slots and three sources force a
slot to be given away while another is in use; two channels make aliases, and a
command while a request is out meets every place where the worker waits. The
jumps of `transmit`, together with a packet of two samples and a lag while a
flow is blocked, fall on both sides of `max_lag_samples`; a jump back is waited
for (farther ones are `MCTransmitBack`), and a flow comes before the one that
is blocked. Two streams on two instances let a stream end while its successor
starts in the same instance and in another one. In the host, a ring of one
sample makes every push meet a full ring and every pop an empty one, and two
lines of the file let a change fall before and after the line that is read. Two
crashes are enough for the clock to die while the bridge that lost it restarts.
In the collector `Word` is far beyond all differences, as 2^64 is.

Counters (`MaxFlows`, `MaxRequested`, `MaxAsked`, `MaxFailures`, `MaxTimeouts`, `MaxConflicts`,
`MaxBundles`, `MaxSends`, `MaxTime`, `MaxConnects`, `MaxCommands`, `MaxStreams`,
`MaxInstances`, `MaxBuffers`, `MaxCrashes`, `MaxRestarts`, `MaxPulseErrors`, `MaxBroken`) bound the behaviours and
appear in the guards; without `MaxBroken`, which keeps the run short, `Bridge` alone passes, too; `MaxBacklog` bounds how far the RX thread is behind when
the worker starts a round (its queue is emptied every few milliseconds, a round
takes two seconds or a command). `MaxPulseErrors` stands for
the code's own 2000.

Deadlock is checked in `server`, `ring`, `ring_no_order` and the `subscriber`
runs. The others stop by right: time or the streams are used up, nobody asks
the multicasts anything more, a device is gone for good, or `stop` has ended
the bridge.

### What the passing runs assume of the environment

Each of these is an assumption because the code fails without it; the
configurations under *Findings* show how.

- `ring`: packets are at most one length of the ring late and a tick extends it
  by less than that (`MaxLate <= Size`, `MaxGap + MaxPacket <= Size`).
- `multicasts`: nobody deletes a bundle in its grace period; an index that was
  found free is not given to a receiver before the bundle is added; nothing is
  loaded, so that no saved address is in use; every flow gets its socket.
- `multicasts_restart`: the process does not die while the list is loaded or saved.
- `subscriber`, `subscriber_live`: hosts do not fail without a wait, an update
  whose reply is lost was not carried out, and nobody subscribes a channel whose
  unsubscription is still in the queue (`Races`).
- `receive`: a channel is connected after the RX thread has taken the start time.
- `transmit`: the clock jumps by less than the threshold of a new timeline and
  less than the keepalive timeout.
- `server`: latency and stall are together at most `READ_INTERVAL`; the
  transmitter starts when the ARC server serves; no two channels share a name.
- `engine`: the clock has an overlay in the end.
- `host`: `stop` and `start` do not overlap; the properties of the faders hold
  once a save has succeeded after the last one that failed, those of JACK's
  output ports while the FIFO is not full for good.

## Findings

The run `session_broken`: `config.rs` says that the units list the exit status
of a refused config so that "a broken/empty config doesn't turn into an endless
3-second restart loop", but a file that cannot be parsed makes `load` fail with
status 1, which does not prevent the restart.

The following configurations are kept beside the runs. Each violates the
property it names, by what the code does (where no module is named, run it with the `MC` module whose name its own begins with):

| Configuration | Property | What happens |
|---|---|---|
| `MCRealTimeBoxStale` (`RealTimeBox`) | `RefusalIsTemporary` | `update` refuses for as long as nobody sends, because the collector collects right after sending, before the receiver replaces its box |
| `MCTxMulticastsGrace` | `GracePeriodRespected` | a bundle deleted in its grace period and added again is transmitted to an address that was not checked |
| `MCTxMulticastsGhost` | `DeletedIsNotAdvertised` | the task of a deleted bundle advertises it |
| `MCSubscriberUnreachable` | `NoLockIsPoisoned` | a device that cannot be reached makes the disconnects of its flow panic with a lock held |
| `MCSubscriberLostReply` | `HearsItsSource` | an update that was carried out, but whose reply is lost, makes a later subscription hear the wrong source |
| `MCReceiveEarly` | `HeardIsDue` | a sink connected before the start time is reset to positions for which its silence is never written |
| `MCTransmitBack` | `StreamResumes` | a clock set back by more than the threshold makes the thread sleep until the old time comes again |
| `MCServerEarly` | `GivenNamesAreFound` | channels are advertised before the saved names are loaded, and not again |
| `MCServerLatency` | `NeverReplays` | a ring behind the collector's clock makes the unsigned difference wrap: samples are handed out again |
| `MCEngineBuffers` (`Engine`) | `NoStaleBuffersAtAll` | an instance that is still shutting down uses buffers that libasound has freed |
| `MCEngineInstances` (`Engine`) | `OneInstanceAtATime` | a handle that is opened again at once gets a second device server for the same device id |
| `MCBridgeExit` (`Bridge`) | `GivingUpRestarts` | the playback thread gives up "so systemd restarts the bridge"; main waits for the other thread, too, and then ends with status 0, which systemd takes for intended |
| `MCMixerLouder` (`Mixer`) | `NeverLouder` | a change less than half a second before the end is not saved |
| `MCUsrvClockRestart` (`UsrvClock`) | `ClientReconnects` | a client does not notice that its server was replaced |
| `MCSessionOverlap` (`Session`) | `ComesUp` | a `stop` removes the sockets' files under a `start` |

More can be had by changing constants of a configuration:

| Take | Set | Check | What happens |
|---|---|---|---|
| `MCRingBuffer` | `MaxTime = 12, MaxPacket = 1, MaxLate = 0, MaxGap = 5` | `BrokenStreamIsSilent` | an extension by more than one lap leaves old samples in slots it makes readable (`flows_rx.rs:389` promises zeros) |
| `MCRingBuffer` | `MaxTime = 10, MaxLate = 6, MaxGap = 1` | `ReadsAreFaithful` | a packet later than one lap overwrites newer samples (the TODO at `ring_buffer.rs:671`) |
| `MCRingBuffer` | `MaxLate = 1, MaxGap = 1, StoresInOrder = FALSE` | `ReadsAreFaithful` | the items are overwritten before `writing_pos` says so |
| `MCSubscriber` | `MaxTimeouts = 0` | `ListedIsWanted` | a result for the old source overwrites the entry of the new one |
| `MCSubscriber` | `MaxAsked = 2, MaxTimeouts = 0, Races = {"resubscribe"}` | `SubscribedIsListed` | an older Unsubscribe clears the entry of a newer Subscribe |
| `MCTxMulticastsRestart` | `QueueSize = 2, MaxFlows = 3, MaxRequested = 3, MaxConflicts = 0, Races = {"crash"}` | `SavedBundlesSurvive` | the file is rewritten after each bundle that is loaded |
| `MCTxMulticasts` | `Races = {"takenIndex"}` | `AdvertisedIsOnAir` | a receiver is given the index between the check (`arc_server.rs:424`) and the add, whose error is only logged (`tx_multicasts.rs:154`): the bundle is advertised without a flow |
| `MCTxMulticasts` | `Races = {"noSocket"}` | `AdvertisedIsOnAir` | the same, when no socket can be made for the flow |
| `MCTxMulticastsRestart` | `Races = {"usedAddress", "crashIdle"}` | `AdvertisedIsOnAir`, `GracePeriodRespected` | a bundle is loaded to the address that one before it has drawn, gets no flow of its own (`flows_tx.rs:614`), is advertised all the same, and releases the address of the other one's flow |
| `MCTxMulticasts` | specification `Spec`, `Races = {"stop"}` | `StoppedIsNotAdvertised` | `shutdown` clears `should_work` first, and the removal then refuses |
| `MCTransmit` | `Forward = 8` | `KeptAlive` | a jump forward by more than the keepalive timeout expires every flow |
| `MCTransmit` | `Breakable = {1}` | `StreamResumes` | a flow that cannot be sent holds up those that come later in the table |
| `MCServer` | `SharedLabels = TRUE` | `GivenNamesAreFound` | two channels of one name remove each other's records |
| `MCServer` | latencies 1 and 18 | `ConnectedIsHeard` | a latency beyond `MAX_LAG_SAMPLES` is taken for a transmitter that is gone |
| `MCEngine` | `Captures = {}`, `Playbacks = {tx, tx2}` | `PrepareReturns` | two playback handles of a process: the stop of one joins the thread that waits for the other's start time |
| `MCEngine` | specification `NoClockSpec`, `MaxStreams = 3`, `MaxBuffers = 0` | `PrepareReturns` | without a clock the TX thread never looks at its commands and is joined for ever |
| `MCSessionOverlap` | `Overlap = FALSE` | `StartedHasOpened` | `start` declares victory over a bridge that still waits for its device |
| `MCMixerLouder` | | `FileIsComplete` | the two savers share a temporary file: one renames it while the other has just emptied it |
| `MCMixerLouder` | | `RestIsComplete` | ... and when the other one's write then fails, the file stays cut until the next change is saved |

And more passes than the runs check. `MCSubscriber` with `Sources = {x1, x2, x3}`,
`Bundles = {}`, `MaxAsked = 2`, `MaxTimeouts = 0` (slots that are reused) keeps
`HearsItsSource` and `RefcountsAreExact`; `FlowsTx` alone (`FlowsSpec`, two
receivers, 3 flows, a queue of 3) keeps `TablesAgree`, `CommandsApply` and
`ThreadCatchesUp`. `PutFindsVacantSlot`, `NewestWins`, `NothingReadableUnannounced`,
`PositionsNeverGoBack`, `HolesAreBounded`, `WriteLeavesNothingBehind`,
`AddressesAreOwn`, `AdvertisedChannelIsCarried` and `SavedIsCurrent` (with `MCTxMulticasts`),
`RxCommandsApply`, `SubscribedIsListed`, `FailureIsOfThisStart` (a theorem, too) and each module's
`TypeOK` hold in the runs' configurations too; they are
weaker than, or helped to find, what the runs check.

## Fairness

Nothing is assumed that a scheduler or a time-out does not give: no request, no
failure and no recovery is ever assumed to come.

- `RealTimeBox`: the real-time thread calls `update` in every period, and a call
  of the sender that has begun ends; nothing makes it begin another.
- `TxMulticasts`: the runtime polls every ready task, queries end by their
  time-out, the TX thread polls its queue; the retry of a bundle waits for a
  mutex and a queue that tokio hands out in order, which is strong fairness.
- `Subscriber`: the worker, the requests and the spawned tasks are weakly fair
  (devices answer or the request times out), the nine seconds between two
  attempts to resolve are over again and again (strong fairness of `Resolve`,
  which the worker passes every two seconds), the RX thread executes commands,
  and the clock gets its time. Failures are finite by `MaxFailures` and
  `MaxTimeouts`; without that no subscription could be served.
- `Engine`: a `prepare` that has begun, the instance's thread and the streams'
  threads go on; the clock comes (`ClockFairness`). The application need not
  call `start`, `stop` or anything else.
- `Session`, `UsrvClock`: systemd works off its jobs and timers, processes go on,
  Statime sends its overlays, clients go round their loops. Addresses need not
  come, crashes are finite by `MaxCrashes`; `ComesUp` speaks of an address that
  stays.
- `Bridge`: the threads, JACK's server (while there is one), `main` and systemd's
  restart go on; the write to a FIFO that is full is not enabled. Devices and the
  pipe-source need not recover.
- `Mixer`: half a second passes, a fader that was set is marked, the meters
  thread goes round, a save that has begun ends, well or badly.
- `RingBuffer`, `Receive`, `Transmit`, `Collector`, `Names`: safety only, and in
  `Receive` and `Transmit` a bound on how late the thread may be (`MaxStall`,
  `MaxAwake`): that time does not pass it over is the deadline of real-time
  priority, stated as a guard on the passage of time.

## Proofs

All are for every value of the constants that satisfies the named assumptions of
the modules. What a theorem assumes beyond these is a hypothesis of its own,
stated with it. Most of them are the assumptions on the environment above, and
where a configuration under *Findings* drops one, it shows the failure.

| Module | Theorem | States | Hypotheses |
|---|---|---|---|
| `ServerProofs` (box channel) | `NeverFrees`, `Ownership`, `NeverBackwards` | `RealTimeNeverFrees`, `SingleOwner`, `NewestWins` | |
| | `Refinement` | `ImplementsMailbox` | |
| `RingBufferProofs` | `Announced`, `NeverBackwards` | nothing is readable before it is announced; positions do not go back | |
| | `ReadsGetTheirSamples` | `ReadsAreFaithful` | `InReach`, `StoresInOrder` |
| | `ReadsWithMarginGetTheirSamples` | `ReadsWithMarginAreFaithful` | `InReach` |
| | `BrokenStreamsAreSilent` | `BrokenStreamIsSilent` | `InReach` |
| | `ArrivedSamplesStay` | `ArrivedSamplesSurvive` | `InReach`, `StoresInOrder` |
| `MulticastProofs` | `TablesAgreeAlways`, `TablesAgreeForBundles` | `TablesAgree` | |
| | `CommandsAlwaysApply`, `CommandsApplyForBundles` | `CommandsApply` | |
| | `ThreadAgrees` | with an empty queue the thread has the control half's flows | |
| | `BundlesUseFlows` | `TxMulticasts` implements `FlowsTx` | |
| | `SavedSurvive` | `SavedBundlesSurvive` | no crash |
| | `GraceIsRespected` | `GracePeriodRespected` | no flow is lost: no deletion in the grace period, no index taken between check and add, no saved address in use, every flow has its socket (`FlowsAreLost`) |
| | `AdvertisedIsTransmitted` | `AdvertisedIsOnAir` | the same, and no stop |
| `SubscriberProofs` | `CountsAreExact` | `RefcountsAreExact` | `FlowsSuffice` |
| | `CommandsApply` | `RxCommandsApply` | the same, and no control socket that fails at once (`"unreachable" \notin Races`) |
| | `SinksFollow`, `OneWriterEach` | `SinksFollowSubscriptions`, `SingleWriter` | the same |
| | `LocksAreSound` | `NoLockIsPoisoned` | the same, and nobody subscribes a channel whose unsubscription is queued (`"resubscribe" \notin Races`) |
| | `SourcesAreHeard` | `HearsItsSource` | `FlowsSuffice`, and no update whose reply is lost (`"lostReply" \notin Races`) |
| | `FlowsDoSuffice` | `FlowsSuffice` | twice as many flow indices as channels |
| `ReceiveProofs` | `StaleAudioIsNotHeard` | `HeardIsDue` | `NotTooEarly`, `LatePacketsFit`, `LatenciesAreNear` |
| | `NothingIsErased` | `ArrivedIsHeard` | the same |
| `TransmitProofs` | `TimestampsGoForward` | `NeverTwice` | `JumpsAreShort` |
| | `ToldPositionsAreSent` | `ShownIsSent` | `PacketsAreShort` |
| | `PacketsKeepComing` | `StreamResumes` | `JumpsAreShort`, `OnlyTheLastFails`, `StallsAreShort` |
| | `ReceiversAreKept` | `KeptAlive` | the same and `TimelyKeepalives` |
| | `AbandonedFlowsExpire` | `AbandonedExpires` | `OnlyTheLastFails`, `SelectThreshold > 0` |
| `ServerProofs` (collector) | `NoReplay` | `NeverReplays` | `FitsInterval` |
| | `NobodySilenced` | `ConnectedIsHeard` | `FitsLag` |
| `EngineProofs` | `StreamsKept`, `BuffersAreCurrent` | `StreamsAreKept`, `NoStaleBuffers` | |
| `HostProofs` | `LatestSample`, `ThreadsWait` | `LatestSampleWins`, `RealTimeThreadsWait` | |
| | `SavedFaders` | `SavedWhenClean` | |
| | `ClientsAreKept`, `SessionClientsAreKept` | `NobodyIsForgotten` | |
| | `FailureIsRecent` | a failure that `start` reports is of this start | |

Type correctness is proved of `FlowsTx`, `TxMulticasts`, `Subscriber`, `Collector`,
`Session` and `Bridge`. The inductive invariants, and why they are needed:

- `ServerProofs`, the box channel. `BoxInv` strengthens the invariants of the run with
  `ControlInv`, which ties the slots to the program counters: while `update` is
  under way `prev` is vacant, and `held` is a box exactly when it is to be put
  back. `Refinement` maps initial states to initial states and each action to
  `Publish`, `Receive`, `Reclaim` or a stutter.
- `RingBufferProofs`. `PosInv` adds to `readablePos <= writingPos` what the place
  of the writer in its call says about the positions. For the contents that is
  not enough: what the reader has copied depends on stores between its copy and
  its look at `writing_pos`. `RingInv` adds three parts. `WriterInv` says,
  for each place of the writer in its call, where the items of the call are next to
  the positions (`AnnounceInv`, `StoreInv`, `ReachInv`), that an item of the ring
  which is readable or marked as ready is right (`ContentInv`), and that what is
  about to be published has its contents (`PublishInv`); `CopyInv` says that an
  item that has been copied is right, or so old that the look at `writing_pos`
  will drop it, and `UsefulInv` is what that look leaves. `InReach` is
  `MaxLate <= Size`, `MaxGap + MaxPacket <= Size` and `HoleFixWait <= Size`; in
  the code a hole is fixed after 4800 samples in a ring of 524288.
  `ArrivedSamplesStay` needs `ArrivedInv`: a sample beyond `readable_pos` is marked
  as ready, so that closing a hole spares it, and no slot holds one beyond
  `writing_pos`.
- `MulticastProofs`. `TablesInv` is a predicate of the transmitter's three tables,
  with one lemma per operation. `QueueInv` speaks of the commands on their way:
  executed in order on the thread's table they yield the control half's, and each
  finds what it expects; flows have increasing numbers, so that a flag or a
  command of an old flow at the same index is never taken for one of the new
  flow. The tasks of bundles change the tables only through the operations of
  `FlowsTx` (`BundlesUseFlows`), so everything carries over, with bundles that
  have no flow, too. `OwnershipInv` ties a
  bundle's place in its task to the address it has reserved and the flow at its
  index, which is what a task that waited two seconds relies on. It is not true in
  general: a bundle whose flow was not added, or whose address is another one's,
  acts on what is not its own. Under `Races \cap FlowsAreLost = {}`,
  `IndicesVacant` says that no receiver has a flow at an index that a bundle is
  about to get, so that it is vacant when the bundle is added (`IndexIsVacant`) and
  the add succeeds.
- `SubscriberProofs`. The proof is in four parts. `PlanInv` is about the worker's
  tables: `RefcountsAreExact` is not inductive, since a result that is applied after
  the worker has waited could count a channel twice or count one of a flow that is
  gone. `ResultsInv` and `RequestsInv` say that all the assignments on their way are
  of different channels, which still need them, that all requests are of
  different flows, and that no flow that they are about is given up meanwhile;
  `StopsInv` that a flow is stopped once. Most of the work is in the answer to a
  query: a plan that shares free slots, fills bundles and creates flows gives no
  channel and no flow twice (`QueryPlan`). `RxInv` speaks of the commands: those in
  the RX thread's queue and those in tasks still to be polled, in their order, lead
  from its sockets to `Outcome`, the sockets and sinks that the worker's tables stand
  for, and each applies when it is its turn; the set of infos is that of the sockets
  in between (`CommandsInv`). While requests are pending only connects are queued
  (`TasksInv`), so that the socket of a new flow does not overtake the removal of the
  one it replaces. `FedOnce` adds that no ring buffer is fed in two places. `InfoInv` says that a
  channel is listed while it is subscribed or its subscription is queued, which is
  what a failed request unwraps. `HeardInv` adds what the transmitters put in the
  slots, which `HearsItsSource` needs because the worker decides by what it has noted
  (`tx_channels`) and not by what is sent. `HeardFrom` says that a slot carries a
  source now and still will when every request for that flow is answered, whatever
  else the request fills: it holds of the slots of connected channels
  (`ConnectedHear`) and of all that assignments on their way name (`ResultsHear`).
  `FlowsHear` says that a flow's note is what it carries, or the assignment that
  brings the note is among the results: then an update, which repeats the note for
  the slots it does not fill (`RequestsKeep`), changes nothing that is heard, and a
  source that is looked up in the notes is where they say. A slot that a query hands
  out anew is free, and the count of a connected one is not zero (`RefcountsAreExact`),
  so no source is put over another that is heard (`ConnectedSettles`,
  `CarriedSettles`, `BundledSettles`). A request that fails leaves note and slot as
  they were or the flow gone; one that was carried out and is taken for failed breaks
  `FlowsHear`, which is the finding of `MCSubscriberLostReply`. Bundles are
  taken from `BundlesAssumption`: one slot, one channel (`tx_multicasts.rs` numbers
  the slots by their place in the list of the channels).
  `FlowsSuffice` says that a plan finds an index for each new flow. The code does
  not see to it: its vector of flows grows, but `flows_info` has `MAX_FLOWS` (32)
  entries, and what follows beyond is not modelled. `FlowsDoSuffice` proves it where
  `2 * Cardinality(Channels) <= Cardinality(FlowIds)`, which holds of the 16 channels of
  the default configuration: `scan_flows` leaves each flow a channel of its own, and a
  plan has at most one new flow for each channel that needs one (`FewFlows`).
- `ReceiveProofs`. The properties speak of the positions that pass, and a position
  gets what it holds long before, so `ReceiveInv` speaks of the whole ring. `Sound`:
  behind `readable_pos` each slot holds what is due there or silence, and ahead of it
  a slot whose flag is set holds what is due; the four calls of `Ring` keep it
  (`WriteSound`, `CloseSound`), for ranges that fit into the ring. That they fit is `Ahead`:
  `writing_pos` is ahead of the clock by a latency and a packet at most, and
  `readable_pos` behind it by the time since the last tick at most. `Holds` says of a
  sample that came in time that its flag protects it. `Silencing` says that a silence
  writer has silenced all that it has passed and that what came in time lies before
  the silence, so that nothing is left in the ring when it ends (`Quiet`), where the
  next connection resets the positions and leaves the items.
  The hypotheses: no channel is connected before the start time is known
  (`NotTooEarly`; what happens otherwise is `MCReceiveEarly`). The latest packet is not
  older than the ring when another flow has written further ahead (`LatePacketsFit`),
  and latencies differ by less than half a ring (`LatenciesAreNear`): the end of
  silence is counted with the latency of the flow that is disconnected, and a flow of a
  larger one may have written beyond it. The plug-in asks for a ring longer than the
  largest latency and a period (`ReceiveAssumption`; alsa-plugin/src/lib.rs:829), and every
  flow has the latency configured here unless its sender asks for more
  (channels_subscriber.rs:807). The run of `MCReceive` satisfies both; in instances that
  satisfy only the other one TLC finds `HeardIsDue` violated. How late the thread runs
  needs no hypothesis: if that is more than a period, `Passed` is empty.
- `TransmitProofs`. `TimeInv` bounds every `next_ts` by a packet ahead of the
  clock as the thread has seen it (`AheadInv`; the thread may not have noticed a
  jump). With `JumpsAreShort` (a packet and the jump back are within
  `DISCONTINUITY_THRESHOLD_SAMPLES`, 192000) no flow is ever so far ahead that
  `transmit` starts a new timeline below what it has sent (`NobodyIsFarAhead`). For
  the position told to the application, `ToldInv` says that the thread sleeps in
  `select!` without flows only, because a packet is shorter than
  `SELECT_THRESHOLD` (`PacketsAreShort`; 256 samples and 100 ms), and that what it
  has made known is due when it wakes up.
  `StreamInv` ties `Wake`, the time when the thread means to go on, to what is due and
  to how long ago each flow has sent. That a flow is on the timeline of its last packet
  (`First`) is not inductive by itself: a clock that jumps ahead makes `transmit` start a
  timeline without sending, and the flow then waits for a packet once more (`Second`).
  `StallsAreShort` says that a late thread stays below `max_lag_samples`, so that only a
  jump starts a timeline; the jumps back are those of `JumpsAreShort`. `OnlyTheLastFails`
  is needed because `transmit` returns at the flow that cannot be sent.
  `AliveInv` gives each receiver's flow a deadline counted from its last keepalive, as
  read or as still in the socket, and room for the jump that the thread has not noticed;
  a flow that has sent nothing yet, whose receiver is therefore silent, has that room
  by `StreamInv`. `TimelyKeepalives` says that the timeout (4 s) exceeds two packets, the
  stalls and the jump, and the gap between keepalives and the jump.
  `ExpiryInv` is the other side. A keepalive in a socket has to be read, and a flow none of
  whose keepalives is left has to be looked at again once `expires` has passed; each
  takes the thread `Noticing` at most, whatever the interval of its events. `DueBy` is the
  time of the last keepalive while that is still in the socket, and a timeout and `Noticing`
  later once it is read; `IsTimed` bounds by it when events are processed next, when the
  flow expires, when its next packet is due and for when the thread sleeps. All four are
  needed: the thread that sleeps wakes up for a packet, not for events, and a packet's time
  moves with the iterations that process none. A keepalive may arrive at any moment and
  brings `DueBy` forward to the present, where the bounds hold because the thread never
  plans farther ahead than `EventsAreNear`, `IsAwakeSoon` and `AheadInv` say. The run of
  `MCTransmit` satisfies all these hypotheses.
- `ServerProofs`, the collector. `BehindWhenDue`: when a tick is due, the clock kept is behind
  the slowest ring, so the unsigned difference does not wrap; it is inductive
  under `FitsInterval` (latency and stall fit into `READ_INTERVAL`). `Max` and `Min`
  of the ends are taken out of the well-foundedness of the naturals.
- `EngineProofs`. The handles set the flags of an instance long before its thread
  gets to the commands. `EngineInv` says of the commands that wait that, in their
  order, they lead from what the thread has started to what the flags say, and
  start or stop no direction twice; `BuffersInv` relates the streams on freed
  buffers to the instance in use.
- `HostProofs`, the bridge. `RingsInv` has the room that a writer has made by dropping a
  sample: only the reader moves the ring meanwhile. `ThreadsInv` bounds, for each
  place in a loop, how often its head can have been passed since the last wait.
  `SavesInv` says what each saver has read and what the temporary file holds while
  nothing is marked: the thread that moves the faders is never behind, and the
  other one only while the mixer is marked. A write that fails leaves anything in
  the temporary file until it is truncated again; a saver that was under way at that
  time is not `Trusted`, and of all the others the file is as they have written it.
- `HostProofs`, the clock and the units. `ProtocolInv` ties a client's place in the protocol to the queue
  and the list of the server, `UnitsInv` the units' states to the processes that
  serve and wait, and by `RefusalInv` a `start` forgets a refusal only together with
  the failed state it left.

Of the properties of the passing runs, all safety properties of `RealTimeBox`,
`RingBuffer`, `FlowsTx`, `TxMulticasts`, `Collector`, `Engine`, `Bridge`, `Mixer`
(`SavedWhenClean`), `Subscriber`, `Receive`, `Transmit` and `UsrvClock` are theorems.

Checked by TLC only:

- `Names` (`GivenNamesAreFound`) and the length of an engine's queue: both are about
  folds over data, that is, induction, whose theorems take an operator as their
  parameter, which none of the provers can instantiate.
- Liveness under fairness, and `ENABLED`, which are out of the prover's reach.

## Plan

1. Done: box channel, ring buffer, transmitter with its thread, multicasts,
   receiver with its thread, subscriber, collector, names, plug-in and device
   server, bridge, mixer, clock socket, units; the proofs above.
2. Models that are left, in this order: the matching of replies in the flows
   control client (as a refinement of what `Subscriber` assumes); the decoding of
   flow requests in the flows control server; the mDNS client's queries and its
   cache; `plugin_pointer` at libasound's boundary and `plugin_transfer`;
   `SafeClock` and the async client of the clock; the async start of
   `receive_with_callback` and `receive_realtime`.
3. When a flow that cannot be sent expires: nothing in the code bounds it (see
   "Transmit" above), so there is nothing to state until the loop treats it.

## Not modelled, and why

- Third-party, generated and vendored code: `searchfire` (only what removing a
  service by name does), `alsa-sys-all`, `statime` (its process is in `Session`,
  its socket in `UsrvClock`).
- Data: the contents of packets, the conversion of samples, the formatting and
  parsing of requests, replies and records, the CMC and info servers, which keep
  no state; the mixing of samples and the meters.
- Front ends that start other programs: the GUI, and `status`, `logs`, `doctor`,
  `devices` and installation in the CLI; `sonusgrid-pipe` and the C bindings.
- In the parts that are modelled: what follows after a poisoned lock or a panic
  of a thread (the properties say that there is none), more flows than
  `MAX_FLOWS`, a save of names or bundles that fails,
  `send_latency_samples` other than 0, the wake-ups of `on_transfer`, a channel
  with two sinks in `Receive`, the units' relation to PipeWire, macOS.
