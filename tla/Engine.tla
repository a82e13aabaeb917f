------------------------------- MODULE Engine -------------------------------
(***************************************************************************)
(* The ALSA plugin (alsa-plugin/src/lib.rs) and the engine behind it: the  *)
(* PCM handles of a process share one instance per device id, a thread     *)
(* with a DeviceServer (device_server/mod.rs) that runs their commands in  *)
(* order.  Every prepare starts a stream: a receiver or a transmitter with *)
(* a thread of its own, on the buffers of the handle.                      *)
(*                                                                         *)
(* libasound's part: it calls stop before it frees buffers (hw_params) and *)
(* before close, and start after a prepare that succeeded only.  The       *)
(* commands channel (16) never fills: a handle has two commands in it at   *)
(* most, and blocks for the answer to the second.                          *)
(***************************************************************************)
EXTENDS Integers, Sequences, FiniteSets

CONSTANTS
    Captures, Playbacks,   \* the PCM handles of each direction
    MaxInstances,          \* the instances the process may create
    MaxStreams,            \* how often the handles are prepared
    MaxBuffers             \* how often a handle gets other buffers

Handles == Captures \cup Playbacks
Dirs == {"capture", "playback"}
Streams == 1 .. MaxStreams
Instances == 1 .. MaxInstances
Dir(h) == IF h \in Captures THEN "capture" ELSE "playback"

ASSUME EngineAssumption ==
    /\ Captures \cap Playbacks = {}
    /\ {MaxInstances, MaxStreams, MaxBuffers} \subseteq Nat
    /\ IsFiniteSet(Handles)

NoInstance == 0

VARIABLES
    app,           \* where each handle is
    buffers,       \* generation of the handle's buffers
    valid,         \* MyIOPlug.buffers_valid
    media,         \* MyIOPlug.media_clock is ready
    current,       \* the stream of the handle's last prepare
    stream,        \* per stream: its handle, instance and buffers
    startTx,       \* the start time channel of a stream
    instance,      \* global_instances, for the one device id
    flags,         \* InfernoInstance.capturing, playing
    queue,         \* the commands channel of an instance
    engine,        \* where the thread of an instance is
    started,       \* rx_shutdown_todo, tx_shutdown_todo: the stream, or 0
    joining,       \* the streams that are being shut down
    thread,        \* where the thread of a stream is
    overlay        \* the clock receiver of the instance has an overlay

appVars == <<app, buffers, valid, media, current>>
streamVars == <<stream, startTx, thread>>
engineVars == <<queue, engine, started, joining, overlay>>
vars == <<appVars, streamVars, engineVars, instance, flags>>

Init ==
    /\ app = [h \in Handles |-> "closed"]
    /\ buffers = [h \in Handles |-> 0]
    /\ valid = [h \in Handles |-> FALSE]
    /\ media = [h \in Handles |-> FALSE]
    /\ current = [h \in Handles |-> 0]
    /\ stream = <<>>
    /\ startTx = [s \in Streams |-> "none"]
    /\ instance = NoInstance
    /\ flags = [i \in Instances |-> {}]
    /\ queue = [i \in Instances |-> <<>>]
    /\ engine = [i \in Instances |-> "unused"]
    /\ started = [i \in Instances |-> [d \in Dirs |-> 0]]
    /\ joining = [i \in Instances |-> {}]
    /\ thread = [s \in Streams |-> "none"]
    /\ overlay = [i \in Instances |-> FALSE]

Command(op, d, s) == [op |-> op, dir |-> d, stream |-> s]

\* start_time_tx is dropped, which the stream sees if no time was sent.
Dropped(h) ==
    [s \in Streams |-> IF s = current[h] /\ startTx[s] = "pending"
                       THEN "dropped" ELSE startTx[s]]

-----------------------------------------------------------------------------
(* The plugin *)

\* plugin_define: a new handle.
Open(h) ==
    /\ app[h] = "closed"
    /\ app' = [app EXCEPT ![h] = "open"]
    /\ media' = [media EXCEPT ![h] = FALSE]
    /\ UNCHANGED <<buffers, valid, current, streamVars, engineVars, instance, flags>>

\* libasound allocates other buffers.
HwParams(h) ==
    /\ app[h] = "open"
    /\ buffers[h] < MaxBuffers
    /\ \E s \in 1 .. Len(stream) : stream[s].handle = h
    /\ buffers' = [buffers EXCEPT ![h] = @ + 1]
    /\ UNCHANGED <<app, valid, media, current, streamVars, engineVars, instance, flags>>

\* get_or_create_instance, then Stop if the direction is in use, then Start.
Instance ==
    IF instance # NoInstance THEN instance
    ELSE Cardinality({i \in Instances : engine[i] # "unused"}) + 1

Prepares(h, sent) ==
    LET s == Len(stream) + 1
        d == Dir(h)
        i == Instance
    IN /\ app[h] \in {"open", "prepared", "running"}
       /\ s \in Streams
       /\ i \in Instances
       /\ engine' = [engine EXCEPT ![i] = IF @ = "unused" THEN "starting" ELSE @]
       /\ instance' = i
       /\ app' = [app EXCEPT ![h] = "blocked"]
       /\ current' = [current EXCEPT ![h] = s]
       /\ stream' = Append(stream, [handle |-> h, instance |-> i, buffers |-> buffers[h]])
       /\ startTx' = [Dropped(h) EXCEPT ![s] = "pending"]
       /\ queue' = [queue EXCEPT ![i] = @ \o sent \o <<Command("start", d, s)>>]
       /\ flags' = [flags EXCEPT ![i] = @ \cup {d}]
       /\ UNCHANGED <<buffers, media, thread, started, joining, overlay>>

StopIfUsed(h) ==
    IF Dir(h) \in flags[Instance] THEN <<Command("stop", Dir(h), 0)>> ELSE <<>>

\* Plausible bugs: the buffers are declared valid before the engine has
\* answered; the stream that is there is not stopped.
PrepareValidEarly(h) ==
    Prepares(h, StopIfUsed(h)) /\ valid' = [valid EXCEPT ![h] = TRUE]

PrepareWithoutStop(h) == Prepares(h, <<>>) /\ UNCHANGED valid

\* plugin_prepare up to the wait for the answer.
Prepare(h) == Prepares(h, StopIfUsed(h)) /\ UNCHANGED valid

\* The engine has sent its clock receiver, or will never do so.
Answered(h) ==
    LET s == current[h]
    IN /\ app[h] = "blocked"
       /\ thread[s] # "none" \/ engine[stream[s].instance] \in {"gone", "panicked"}
       /\ app' = [app EXCEPT ![h] = IF thread[s] # "none" THEN "waiting" ELSE "failed"]
       /\ UNCHANGED <<buffers, valid, media, current, streamVars, engineVars, instance, flags>>

\* media_clock keeps the overlay of an earlier prepare.
Ready(h) == media[h] \/ overlay[stream[current[h]].instance]

Prepared(h) ==
    /\ app[h] = "waiting"
    /\ Ready(h)
    /\ app' = [app EXCEPT ![h] = "prepared"]
    /\ media' = [media EXCEPT ![h] = TRUE]
    /\ valid' = [valid EXCEPT ![h] = TRUE]
    /\ UNCHANGED <<buffers, current, streamVars, engineVars, instance, flags>>

\* 20 times 250 ms without an overlay: -ETIMEDOUT, the stream stays started.
PrepareTimesOut(h) ==
    /\ app[h] = "waiting"
    /\ ~Ready(h)
    /\ app' = [app EXCEPT ![h] = "failed"]
    /\ UNCHANGED <<buffers, valid, media, current, streamVars, engineVars, instance, flags>>

\* plugin_start
Start(h) ==
    /\ app[h] = "prepared"
    /\ app' = [app EXCEPT ![h] = "running"]
    /\ startTx' = [startTx EXCEPT ![current[h]] = "sent"]
    /\ UNCHANGED <<buffers, valid, media, current, stream, thread,
                   engineVars, instance, flags>>

Stops(h) ==
    /\ app[h] \in {"failed", "prepared", "running"}
    /\ app' = [app EXCEPT ![h] = "open"]
    /\ IF instance # NoInstance /\ Dir(h) \in flags[instance]
       THEN /\ queue' = [queue EXCEPT ![instance] = Append(@, Command("stop", Dir(h), 0))]
            /\ flags' = [flags EXCEPT ![instance] = @ \ {Dir(h)}]
       ELSE UNCHANGED <<queue, flags>>
    /\ current' = [current EXCEPT ![h] = 0]
    /\ UNCHANGED <<buffers, media, stream, thread, engine, started, joining, overlay,
                   instance>>

\* A plausible bug: the start time is kept.
StopKeepsStart(h) ==
    Stops(h) /\ valid' = [valid EXCEPT ![h] = FALSE] /\ UNCHANGED startTx

\* plugin_stop
Stop(h) ==
    /\ Stops(h)
    /\ valid' = [valid EXCEPT ![h] = FALSE]
    /\ startTx' = Dropped(h)

\* plugin_close: the last handle that is not in use takes the instance away.
Close(h) ==
    /\ app[h] = "open"
    /\ app' = [app EXCEPT ![h] = "closed"]
    /\ IF instance # NoInstance /\ flags[instance] = {}
       THEN /\ queue' = [queue EXCEPT ![instance] = Append(@, Command("shutdown", Dir(h), 0))]
            /\ instance' = NoInstance
       ELSE UNCHANGED <<queue, instance>>
    /\ UNCHANGED <<buffers, valid, media, current, streamVars, engine, started, joining,
                   overlay, flags>>

-----------------------------------------------------------------------------
(* The engine *)

\* DeviceServer::start; its clock is not waited for.
EngineStarts(i) ==
    /\ engine[i] = "starting"
    /\ engine' = [engine EXCEPT ![i] = "idle"]
    /\ UNCHANGED <<appVars, streamVars, queue, started, joining, overlay, instance, flags>>

Next1(i, op) == engine[i] = "idle" /\ queue[i] # <<>> /\ Head(queue[i]).op = op

\* The clock receiver is sent, then receive or transmit starts the thread: a
\* transmitter waits for its start time before it polls its commands.
StartStream(i) ==
    LET c == Head(queue[i])
    IN /\ Next1(i, "start")
       /\ queue' = [queue EXCEPT ![i] = Tail(@)]
       /\ started' = [started EXCEPT ![i][c.dir] = c.stream]
       /\ thread' = [thread EXCEPT ![c.stream] =
                        IF c.dir = "capture" THEN "run" ELSE "waitStart"]
       /\ UNCHANGED <<appVars, stream, startTx, engine, joining, overlay, instance, flags>>

\* stop_receiver, stop_transmitter: take().unwrap() of what is to be shut
\* down; the thread is joined by the engine's own thread.
StopStream(i) ==
    LET c == Head(queue[i])
        s == started[i][c.dir]
    IN /\ Next1(i, "stop")
       /\ queue' = [queue EXCEPT ![i] = Tail(@)]
       /\ started' = [started EXCEPT ![i][c.dir] = 0]
       /\ IF s = 0
          THEN engine' = [engine EXCEPT ![i] = "panicked"] /\ UNCHANGED joining
          ELSE /\ engine' = [engine EXCEPT ![i] = "joining"]
               /\ joining' = [joining EXCEPT ![i] = {s}]
       /\ UNCHANGED <<appVars, streamVars, overlay, instance, flags>>

\* Shutdown shuts down what is still started.
ShutDown(i) ==
    /\ Next1(i, "shutdown")
    /\ queue' = [queue EXCEPT ![i] = Tail(@)]
    /\ engine' = [engine EXCEPT ![i] = "closing"]
    /\ joining' = [joining EXCEPT ![i] = {started[i][d] : d \in Dirs} \ {0}]
    /\ started' = [started EXCEPT ![i] = [d \in Dirs |-> 0]]
    /\ UNCHANGED <<appVars, streamVars, overlay, instance, flags>>

Joined(i) ==
    /\ engine[i] \in {"joining", "closing"}
    /\ \A s \in joining[i] : thread[s] = "gone"
    /\ engine' = [engine EXCEPT ![i] = IF @ = "joining" THEN "idle" ELSE "gone"]
    /\ joining' = [joining EXCEPT ![i] = {}]
    /\ UNCHANGED <<appVars, streamVars, queue, started, overlay, instance, flags>>

\* The AsyncClient of an instance gets its first overlay; the watch keeps it.
OverlayComes(i) ==
    /\ engine[i] \in {"starting", "idle", "joining", "closing"}
    /\ ~overlay[i]
    /\ overlay' = [overlay EXCEPT ![i] = TRUE]
    /\ UNCHANGED <<appVars, streamVars, queue, engine, started, joining, instance, flags>>

\* The thread of a stream.  Only one that runs sees that it has to shut down.
ThreadStep(s) ==
    /\ s \in 1 .. Len(stream)
    /\ LET i == stream[s].instance
       IN \/ /\ thread[s] = "waitStart"
             /\ startTx[s] = "sent"
             /\ thread' = [thread EXCEPT ![s] = "waitClock"]
          \/ /\ thread[s] = "waitStart"
             /\ startTx[s] = "dropped"
             /\ thread' = [thread EXCEPT ![s] = "gone"]
          \/ /\ thread[s] = "waitClock"
             /\ overlay[i]
             /\ thread' = [thread EXCEPT ![s] = "run"]
          \/ /\ thread[s] = "run"
             /\ s \in joining[i]
             /\ thread' = [thread EXCEPT ![s] = "gone"]
    /\ UNCHANGED <<appVars, stream, startTx, engineVars, instance, flags>>

EngineStep(i) ==
    EngineStarts(i) \/ StartStream(i) \/ StopStream(i) \/ ShutDown(i) \/ Joined(i)

PrepareStep(h) == Answered(h) \/ Prepared(h) \/ PrepareTimesOut(h)

Next ==
    \/ \E h \in Handles :
        \/ Open(h) \/ HwParams(h) \/ Prepare(h) \/ PrepareStep(h)
        \/ Start(h) \/ Stop(h) \/ Close(h)
    \/ \E i \in Instances : EngineStep(i) \/ OverlayComes(i)
    \/ \E s \in Streams : ThreadStep(s)

Fairness ==
    /\ \A h \in Handles : WF_vars(PrepareStep(h))
    /\ \A i \in Instances : WF_vars(EngineStep(i))
    /\ \A s \in Streams : WF_vars(ThreadStep(s))

ClockFairness == \A i \in Instances : WF_vars(OverlayComes(i))

Spec == Init /\ [][Next]_vars
FairSpec == Spec /\ Fairness /\ ClockFairness
NoClockSpec == Spec /\ Fairness

-----------------------------------------------------------------------------
(* Properties *)

StreamRecord == [handle : Handles, instance : Instances, buffers : 0 .. MaxBuffers]

\* The type invariant: among others, a handle that is open but not in use has
\* neither valid buffers nor a stream that waits for its start.
TypeOK ==
    /\ app \in [Handles -> {"closed", "open", "blocked", "waiting", "prepared",
                            "running", "failed"}]
    /\ buffers \in [Handles -> 0 .. MaxBuffers]
    /\ valid \in [Handles -> BOOLEAN]
    /\ media \in [Handles -> BOOLEAN]
    /\ current \in [Handles -> 0 .. MaxStreams]
    /\ stream \in Seq(StreamRecord) /\ Len(stream) <= MaxStreams
    /\ startTx \in [Streams -> {"none", "pending", "sent", "dropped"}]
    /\ instance \in Instances \cup {NoInstance}
    /\ flags \in [Instances -> SUBSET Dirs]
    /\ \A i \in Instances : Len(queue[i]) <= 2 * Cardinality(Handles) + 1
    /\ engine \in [Instances -> {"unused", "starting", "idle", "joining", "closing",
                                 "gone", "panicked"}]
    /\ started \in [Instances -> [Dirs -> 0 .. MaxStreams]]
    /\ joining \in [Instances -> SUBSET Streams]
    /\ thread \in [Streams -> {"none", "waitStart", "waitClock", "run", "gone"}]
    /\ overlay \in [Instances -> BOOLEAN]
    /\ \A h \in Handles :
        app[h] \in {"open", "closed"} =>
            /\ ~valid[h]
            /\ \A s \in 1 .. Len(stream) :
                stream[s].handle = h => startTx[s] # "pending"

Alive(s) == thread[s] \in {"waitStart", "waitClock", "run"}

\* Whatever order the handles' calls come in, a Stop finds its stream (no
\* unwrap of None ends the engine), and a Start leaves no stream behind that
\* nobody can stop any more.
StreamsAreKept ==
    /\ \A i \in Instances : engine[i] # "panicked"
    /\ \A s \in 1 .. Len(stream) :
        LET i == stream[s].instance
        IN Alive(s) => s \in joining[i] \/ \E d \in Dirs : started[i][d] = s

\* Streams of a handle share its buffers_valid: it is true only when none of
\* them is left that uses buffers libasound has freed, in the instance that
\* the handle uses now.
StaleStream(s) ==
    LET h == stream[s].handle
    IN Alive(s) /\ valid[h] /\ stream[s].buffers # buffers[h]

NoStaleBuffers ==
    \A s \in 1 .. Len(stream) :
        StaleStream(s) => stream[s].instance # stream[Len(stream)].instance

\* Departure: another instance, which was left to shut down, may still do so.
NoStaleBuffersAtAll == \A s \in 1 .. Len(stream) : ~StaleStream(s)

\* prepare comes back: the engine is never left joining a transmitter that
\* waits for a start time.
PrepareReturns ==
    \A h \in Handles : app[h] = "blocked" ~> app[h] # "blocked"

\* Departure: a handle that is opened again at once gets a new instance while
\* the old one still has the ports.
OneInstanceAtATime ==
    \A i, j \in Instances :
        engine[i] \notin {"unused", "gone"} /\ engine[j] \notin {"unused", "gone"} => i = j

=============================================================================
