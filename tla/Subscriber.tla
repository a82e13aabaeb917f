----------------------------- MODULE Subscriber -----------------------------
(***************************************************************************)
(* aoip/src/device_server/channels_subscriber.rs: which channels of other  *)
(* devices this one receives, as the ALSA plugin runs it (current-thread   *)
(* tokio runtime, ExternalBuffering).                                      *)
(*                                                                         *)
(* The worker is one task, `run`.  `at` says where it stands:              *)
(*   parked   idle      waits (2 s) for a command                          *)
(*            query     waits for the mDNS answers                         *)
(*            waiting   waits for the results of the requests              *)
(*            stopping  waits for the answers to its stop requests         *)
(*   running  batch, decide, results, scan, stop                           *)
(* While it runs nothing else of the runtime does.  What it spawns joins   *)
(* the run queue `tasks`, behind which the worker itself is queued when    *)
(* what it waits for arrives: so it resumes only after those tasks.        *)
(*                                                                         *)
(* The other devices: the channels are Sources, on the air in the unicast  *)
(* flows a device is asked for (its control address is the Origin of its   *)
(* channels) or in a multicast bundle (the Origin is the bundle).          *)
(***************************************************************************)
EXTENDS FlowsRx

CONSTANTS
    Sources, Origin,     \* the transmitters' channels, and where they are found
    Bundles,             \* the origins that are multicast bundles
    SlotInBundle,        \* the slot of a bundle that a source is in
    NoSource,
    MaxAsked,            \* bound: commands of the user
    MaxFailures,         \* bound: queries and requests that fail
    MaxTimeouts,         \* bound: flows that fall silent
    MaxBacklog,          \* bound: commands the RX thread is behind when a round starts
    Races                \* the races considered, a subset of RaceNames

\* unreachable  a control socket fails at once, without a wait
\* lostReply    an update is carried out but its reply is late by more than 3 s
\* resubscribe  the user subscribes a channel whose unsubscription is queued
RaceNames == {"unreachable", "lostReply", "resubscribe"}

ASSUME OriginsAssumption ==
    /\ Bundles \subseteq {Origin[s] : s \in Sources}
    /\ \A s \in Sources : Origin[s] \in Bundles => SlotInBundle[s] \in Slots
    /\ NoSource \notin Sources
\* A slot of a bundle holds one of the transmitter's channels: TransmitMulticasts
\* numbers the slots by their position in the list of the channels.  The two names
\* that a renamed channel is advertised under are one source.
ASSUME BundlesAssumption ==
    \A x, y \in Sources :
        Origin[x] = Origin[y] /\ Origin[x] \in Bundles /\ SlotInBundle[x] = SlotInBundle[y] => x = y
ASSUME BoundsAssumption ==
    /\ {MaxAsked, MaxFailures, MaxTimeouts, MaxBacklog} \subseteq Nat
    /\ Races \subseteq RaceNames

Origins == {Origin[s] : s \in Sources}

VARIABLES
    info,           \* subscriptions_info, what the device tells controllers
    infoPoisoned,   \* a task has panicked with it locked
    queue,          \* the user's commands on their way to the worker
    channels,       \* the worker's subscriptions
    flows,          \* its flows; .heard: what the transmitter puts in each slot
    needsResolving, resolveNow,
    saved,          \* the file rx_subscriptions
    clockReady,     \* the media clock has a time; it never loses it again
    at, tasks,
    queried,        \* query: the sources asked for, reused: the ones found locally
    reused,
    requests,       \* waiting: what is still to be asked of each origin
    results,        \* assignments on their way back to the worker
    stops,          \* stopping: the flows still to be stopped, per origin
    asked, failures, timeouts

environment == <<asked, failures, timeouts, clockReady>>
subVars == <<info, infoPoisoned, queue, channels, flows, needsResolving, resolveNow, saved,
             at, tasks, queried, reused, requests, results, stops, environment>>
vars == <<subVars, rxVars>>

Status == {"Unresolved", "InProgress", "TxFail", "Receiving"}
NoInfo == [source |-> NoSource, status |-> "none"]
Info(source, status) == [source |-> source, status |-> status]

Remote(f, s) == [flow |-> f, slot |-> s]
NoRemote == Remote(-1, NoSlot)
Subscription(source, remote) == [source |-> source, remote |-> remote]
NoSub == Subscription(NoSource, NoRemote)

NoFlow == [origin |-> NoSource]
Blank == [s \in Slots |-> NoSource]
NewFlow(origin, tx) ==
    [origin |-> origin, refcount |-> [s \in Slots |-> 0], tx |-> tx, heard |-> Blank]

\* ChannelSourceUpdate, one for each alias
Assignment(c, f, s) == [chan |-> c, flow |-> f, slot |-> s, source |-> channels[c].source]

Request(kind, f, tx, updates) == [kind |-> kind, flow |-> f, tx |-> tx, updates |-> updates]

Subscribed == {c \in Channels : channels[c] # NoSub}
Connected == {c \in Subscribed : channels[c].remote # NoRemote}
Needed == Subscribed \ Connected

\* The elements of a set in the order of `before`, a strict order on them.
InOrder(S, before(_, _)) ==
    [i \in 1..Cardinality(S) |->
        CHOOSE x \in S : Cardinality({y \in S : before(y, x)}) = i - 1]
Ascending(S) == InOrder(S, <)
IsBundle(f) == flows[f].origin \in Bundles
IsUsed(f) == \E s \in Slots : flows[f].refcount[s] > 0
CanFail == failures < MaxFailures

NothingPending == [o \in Origins |-> << >>]
IsParked == at \in {"idle", "query", "waiting", "stopping"}
Resumes == tasks = << >>
Poisoned == front.poisoned \/ infoPoisoned

\* What a runtime with a poisoned lock does is not modelled: every check that
\* passes shows that none is (NoLockIsPoisoned).

\* What the loop of run does next: the next commands are there, or it waits.
Pause == IF queue = << >> THEN "idle" ELSE "batch"

\* load_state has restored the saved subscriptions.
Init ==
    /\ RxInit
    /\ \E loaded \in [Channels -> Sources \cup {NoSource}] :
          /\ channels = [c \in Channels |-> Subscription(loaded[c], NoRemote)]
          /\ info = [c \in Channels |->
                 IF loaded[c] = NoSource THEN NoInfo ELSE Info(loaded[c], "Unresolved")]
          /\ saved = loaded
    /\ needsResolving = (Subscribed # {}) /\ resolveNow = (Subscribed # {})
    /\ infoPoisoned = FALSE
    /\ flows = [f \in FlowIds |-> NoFlow]
    /\ queue = << >> /\ tasks = << >> /\ results = << >>
    /\ at = "idle"
    /\ queried = {} /\ reused = {}
    /\ requests = NothingPending /\ stops = NothingPending
    /\ asked = 0 /\ failures = 0 /\ timeouts = 0 /\ clockReady = FALSE

-----------------------------------------------------------------------------
(* The callers: ChannelsSubscriber, used by the ARC server's task *)

UserCommand(op, c, source) == [op |-> op, chan |-> c, source |-> source]

ShownAtOnce(c, source) == Info(source, "Unresolved")

UserSubscribe(c, source) ==
    /\ IsParked /\ asked < MaxAsked
    /\ "resubscribe" \in Races \/ \A i \in DOMAIN queue : queue[i] # UserCommand("Unsubscribe", c, NoSource)
    /\ info' = [info EXCEPT ![c] = ShownAtOnce(c, source)]
    /\ queue' = Append(queue, UserCommand("Subscribe", c, source))
    /\ asked' = asked + 1
    /\ UNCHANGED <<rxVars, infoPoisoned, channels, flows, needsResolving, resolveNow, saved, at,
                   tasks, queried, reused, requests, results, stops, failures, timeouts, clockReady>>

UserUnsubscribe(c) ==
    /\ IsParked /\ asked < MaxAsked
    /\ queue' = Append(queue, UserCommand("Unsubscribe", c, NoSource))
    /\ asked' = asked + 1
    /\ UNCHANGED <<rxVars, info, infoPoisoned, channels, flows, needsResolving, resolveNow, saved, at,
                   tasks, queried, reused, requests, results, stops, failures, timeouts, clockReady>>

-----------------------------------------------------------------------------
(* The worker between its waits: commands *)

Disconnect(c, remote) == RxCommand("DisconnectChannel", remote.flow, remote.slot, c)
Connect(a) == RxCommand("ConnectChannel", a.flow, a.slot, a.chan)

\* Plausible bug: a channel that replaces its subscription is not counted out.
ReleasedOnUnsubscribeOnly(command) ==
    IF command.op = "Subscribe" THEN {} ELSE {command.chan} \cap Connected

\* Both commands leave the slot that the channel was connected to.
Released(command) == {command.chan} \cap Connected

Stored(subscriptions) == [c \in Channels |-> subscriptions[c].source]

HandleCommand ==
    LET command == Head(queue)
        c == command.chan
        released == Released(command)
    IN
    /\ at = "batch"
    /\ channels' = [channels EXCEPT ![c] =
           IF command.op = "Subscribe" THEN Subscription(command.source, NoRemote) ELSE NoSub]
    /\ flows' = [f \in FlowIds |->
           IF \E d \in released : channels[d].remote.flow = f
           THEN [flows[f] EXCEPT !.refcount[channels[c].remote.slot] = @ - 1] ELSE flows[f]]
    /\ tasks' = IF released = {} THEN tasks ELSE Append(tasks, Disconnect(c, channels[c].remote))
    /\ IF command.op = "Subscribe"
       THEN needsResolving' = TRUE /\ resolveNow' = TRUE /\ info' = info
       ELSE /\ info' = [info EXCEPT ![c] = IF channels[c] = NoSub THEN @ ELSE NoInfo]
            /\ UNCHANGED <<needsResolving, resolveNow>>
    /\ queue' = Tail(queue)
    \* the last one of a batch is followed by save_state
    /\ IF queue' = << >>
       THEN /\ at' = "decide"
            /\ saved' = Stored(channels')
       ELSE UNCHANGED <<at, saved>>
    /\ UNCHANGED <<rxVars, infoPoisoned, queried, reused, requests, results, stops, environment>>

\* recv returns a command, or 2 s are over.
WakeUp ==
    /\ at = "idle" /\ Resumes
    /\ Len(front.commands) <= MaxBacklog
    /\ at' = IF queue = << >> THEN "decide" ELSE "batch"
    /\ UNCHANGED <<rxVars, info, infoPoisoned, queue, channels, flows, needsResolving, resolveNow,
                   saved, tasks, queried, reused, requests, results, stops, environment>>

-----------------------------------------------------------------------------
(* Resolving *)

SourcesOf(C) == {channels[c].source : c \in C}
NeededAs(source) == {c \in Needed : channels[c].source = source}

Assignments(source, f, s) == {Assignment(c, f, s) : c \in NeededAs(source)}

\* The channels that receive a source already: no query and no request then.
Peers(source) == {c \in Connected : channels[c].source = source}
Reused ==
    {LET remote == channels[Min(Peers(channels[c].source))].remote
     IN  Assignment(c, remote.flow, remote.slot) :
        c \in {d \in Needed : Peers(channels[d].source) # {}}}

\* Plausible bug: one attempt, and the resolver is suspended.
StillNeededOnce == FALSE

StillNeeded == needsResolving /\ Needed # {}

\* With nothing to ask for, the worker goes on to the results without a wait.
Resolve ==
    LET missing == {source \in SourcesOf(Needed) : Peers(source) = {}}
    IN
    /\ at = "decide"
    /\ needsResolving \/ resolveNow
    /\ resolveNow' = FALSE
    /\ needsResolving' = StillNeeded
    /\ IF missing = {}
       THEN at' = "results" /\ results' = <<Reused>> /\ UNCHANGED <<queried, reused>>
       ELSE at' = "query" /\ queried' = missing /\ reused' = Reused /\ UNCHANGED results
    /\ UNCHANGED <<rxVars, info, infoPoisoned, queue, channels, flows, saved, tasks, requests, stops,
                   environment>>

\* 9 s have not passed since the last time.
SkipResolve ==
    /\ at = "decide" /\ ~resolveNow
    /\ at' = "scan"
    /\ UNCHANGED <<rxVars, info, infoPoisoned, queue, channels, flows, needsResolving, resolveNow,
                   saved, tasks, queried, reused, requests, results, stops, environment>>

\* The first slot of a flow that carries a source already, whoever used it.
CarriedAt(f, source) == {s \in Slots : flows[f].tx[s] = source}
Carrying(source) ==
    {f \in FlowIds : flows[f] # NoFlow /\ flows[f].origin = Origin[source] /\ CarriedAt(f, source) # {}}

\* Unicast sources that a flow carries already.
Flowing(found) == {source \in found : Origin[source] \notin Bundles /\ Carrying(source) # {}}
\* Multicast sources of a bundle that a flow receives already.
Joined(found) ==
    {source \in found : Origin[source] \in Bundles
                     /\ \E f \in FlowIds : flows[f] # NoFlow /\ flows[f].origin = Origin[source]}
FlowOfBundle(origin) == CHOOSE f \in FlowIds : flows[f] # NoFlow /\ flows[f].origin = origin

UsedSlots(f, found) == {Min(CarriedAt(f, source)) : source \in {x \in Flowing(found) : Min(Carrying(x)) = f}}

FreeSlots(f, found) == {s \in Slots : flows[f].refcount[s] <= 0} \ UsedSlots(f, found)

\* The free slots of an origin's flows, as <<flow, slot>>, in the order they are
\* given away, and the sources still without a slot, by their first channel.
Before(x, y) == x[1] < y[1] \/ (x[1] = y[1] /\ x[2] < y[2])
FreeSlotsOf(origin, found) ==
    InOrder({p \in FlowIds \X Slots : /\ flows[p[1]] # NoFlow
                                      /\ flows[p[1]].origin = origin
                                      /\ p[2] \in FreeSlots(p[1], found)}, Before)
Remaining(origin, found) ==
    InOrder({x \in found \ Flowing(found) : Origin[x] = origin},
            LAMBDA x, y : Min(NeededAs(x)) < Min(NeededAs(y)))

\* Sources matched with free slots: a function from <<flow, slot>> to a source.
Matched(origin, found) ==
    LET free == FreeSlotsOf(origin, found)
        rest == Remaining(origin, found)
        n == Min({Len(free), Len(rest)})
    IN  [p \in {free[i] : i \in 1..n} |-> rest[CHOOSE i \in 1..n : free[i] = p]]

Updates(origin, found) ==
    LET matched == Matched(origin, found)
        slotsOf(f) == {s \in Slots : <<f, s>> \in DOMAIN matched}
    IN  [i \in DOMAIN Ascending({p[1] : p \in DOMAIN matched}) |->
           LET f == Ascending({p[1] : p \in DOMAIN matched})[i]
           IN  Request("update", f,
                   [s \in Slots |-> IF s \in slotsOf(f) THEN matched[<<f, s>>] ELSE flows[f].tx[s]],
                   UNION {Assignments(matched[<<f, s>>], f, s) : s \in slotsOf(f)})]

\* The sources that need new flows, in chunks of the size of a flow.
Chunks(origin, found) ==
    LET rest == Remaining(origin, found)
        unmatched == SubSeq(rest, Cardinality(DOMAIN Matched(origin, found)) + 1, Len(rest))
        n == Cardinality(Slots)
    IN  [k \in 1..((Len(unmatched) + n - 1) \div n) |->
           SubSeq(unmatched, (k - 1) * n + 1, Min({k * n, Len(unmatched)}))]

FreeFlowIds == Ascending({f \in FlowIds : flows[f] = NoFlow})

\* The new flows of a plan, <<origin, chunk>>: the bundles' first.
NewFlows(found) ==
    LET bundles == {Origin[x] : x \in found \ Joined(found)} \cap Bundles
        servers == {Origin[x] : x \in found} \ Bundles
    IN  SetToSeq({<<b, << >>>> : b \in bundles})
        \o FlattenSeq(LET order == SetToSeq(servers) IN
               [i \in DOMAIN order |->
                  LET chunks == Chunks(order[i], found)
                  IN  [k \in DOMAIN chunks |-> <<order[i], chunks[k]>>]])

TxOfChunk(chunk) == [s \in Slots |-> IF s + 1 \in DOMAIN chunk THEN chunk[s + 1] ELSE NoSource]

\* The places that a bundle received at index f has for the sources found.
InBundle(origin, f, found) ==
    UNION {Assignments(x, f, SlotInBundle[x]) : x \in {y \in found : Origin[y] = origin}}

\* Plausible bug: slots numbered from the end.
SlotInChunkReversed(i) == Cardinality(Slots) - i

SlotInChunk(i) == i - 1

\* What is planned for a new flow at index f.
Creation(new, f, found) ==
    IF new[1] \in Bundles
    THEN Request("join", f, Blank, InBundle(new[1], f, found))
    ELSE Request("create", f, TxOfChunk(new[2]),
             UNION {Assignments(new[2][i], f, SlotInChunk(i)) : i \in DOMAIN new[2]})

\* The sources found and not found; what is already there is assigned at once,
\* and the rest is requested.  `new`: the new flows of the plan.
QueryAnswered(found) == \E new \in {NewFlows(found)} :
    LET id(k) == FreeFlowIds[k]
        newFor(o) == Ascending({k \in DOMAIN new : new[k][1] = o})
        locally == reused
            \cup (UNION {Assignments(x, Min(Carrying(x)), Min(CarriedAt(Min(Carrying(x)), x))) : x \in Flowing(found)})
            \cup (UNION {InBundle(o, FlowOfBundle(o), found) : o \in {Origin[x] : x \in Joined(found)}})
    IN
    /\ at = "query" /\ Resumes
    /\ found # queried => CanFail
    /\ failures' = IF found = queried THEN failures ELSE failures + 1
    /\ flows' = [f \in FlowIds |->
           IF \E k \in DOMAIN new : id(k) = f
           THEN LET k == CHOOSE k \in DOMAIN new : id(k) = f
                IN  NewFlow(new[k][1], Creation(new[k], f, found).tx)
           ELSE flows[f]]
    /\ requests' = [o \in Origins |->
           (IF o \in Bundles THEN << >> ELSE Updates(o, found))
           \o [j \in DOMAIN newFor(o) |-> Creation(new[newFor(o)[j]], id(newFor(o)[j]), found)]]
    /\ results' = <<locally>>
    /\ at' = "results"
    /\ queried' = {} /\ reused' = {}
    /\ UNCHANGED <<rxVars, info, infoPoisoned, queue, channels, needsResolving, resolveNow, saved,
                   tasks, stops, asked, timeouts, clockReady>>

-----------------------------------------------------------------------------
(* The requests: one executor per origin, one request after another *)

Outstanding(reqs) == {o \in Origins : reqs[o] # << >>}
Asking(o) == at = "waiting" /\ requests[o] # << >>
Answered(o) == requests' = [requests EXCEPT ![o] = Tail(@)]

\* update_flow: carried out, or refused; or carried out with the reply lost.
RequestUpdate(o) ==
    LET request == Head(requests[o])
        f == request.flow
    IN
    /\ Asking(o) /\ request.kind = "update"
    /\ \/ /\ flows' = [flows EXCEPT ![f].heard = request.tx]
          /\ results' = Append(results, request.updates)
          /\ failures' = failures
       \/ /\ CanFail /\ failures' = failures + 1
          /\ \E carriedOut \in {FALSE} \cup {"lostReply" \in Races} :
                flows' = IF carriedOut THEN [flows EXCEPT ![f].heard = request.tx] ELSE flows
          /\ results' = results
    /\ Answered(o)
    /\ UNCHANGED <<rxVars, info, infoPoisoned, queue, channels, needsResolving, resolveNow, saved, at,
                   tasks, queried, reused, stops, asked, timeouts, clockReady>>

\* request_flow.  When it fails the subscriptions are marked: their infos are
\* unwrapped while the lock is held for writing.
RequestCreate(o) ==
    LET request == Head(requests[o])
        f == request.flow
        failed == {a.chan : a \in request.updates}
    IN
    /\ Asking(o) /\ request.kind = "create"
    /\ \/ /\ flows' = [flows EXCEPT ![f].heard = request.tx]
          /\ front' = AddSocket(front, f)
          /\ results' = Append(results, request.updates)
          /\ UNCHANGED <<info, infoPoisoned, failures>>
       \/ /\ CanFail /\ failures' = failures + 1
          /\ infoPoisoned' = (\E c \in failed : info[c] = NoInfo)
          /\ info' = [c \in Channels |-> IF c \in failed /\ info[c] # NoInfo
                                         THEN [info[c] EXCEPT !.status = "TxFail"] ELSE info[c]]
          /\ flows' = [flows EXCEPT ![f] = NoFlow]
          /\ UNCHANGED <<front, results>>
    /\ Answered(o)
    /\ UNCHANGED <<sockets, silence, queue, channels, needsResolving, resolveNow, saved, at, tasks,
                   queried, reused, stops, asked, timeouts, clockReady>>

\* The socket of a bundle was bound when the plan was made.
RequestJoin(o) ==
    LET request == Head(requests[o])
        f == request.flow
    IN
    /\ Asking(o) /\ request.kind = "join"
    /\ front' = AddSocket(front, f)
    /\ flows' = [flows EXCEPT ![f].heard = [s \in Slots |->
           IF \E x \in Sources : Origin[x] = o /\ SlotInBundle[x] = s
           THEN CHOOSE x \in Sources : Origin[x] = o /\ SlotInBundle[x] = s ELSE NoSource]]
    /\ results' = Append(results, request.updates)
    /\ Answered(o)
    /\ UNCHANGED <<sockets, silence, info, infoPoisoned, queue, channels, needsResolving, resolveNow,
                   saved, at, tasks, queried, reused, stops, environment>>

-----------------------------------------------------------------------------
(* The worker takes the results *)

Counted(result, f, s) == Cardinality({a \in result : a.flow = f /\ a.slot = s})

AssignedIn(result) == [c \in {a.chan : a \in result} |-> CHOOSE a \in result : a.chan = c]

\* A result is dropped while the media clock has no time.
TakeResult ==
    LET result == IF clockReady THEN Head(results) ELSE {}
        of == AssignedIn(result)
        order == Ascending(DOMAIN of)
    IN
    /\ results # << >>
    /\ at = "results" \/ (at = "waiting" /\ Resumes)
    /\ flows' = [f \in FlowIds |->
           IF flows[f] = NoFlow THEN NoFlow
           ELSE [flows[f] EXCEPT
                    !.refcount = [s \in Slots |-> @[s] + Counted(result, f, s)],
                    !.tx = [s \in Slots |-> IF Counted(result, f, s) = 0 THEN @[s]
                                ELSE (CHOOSE a \in result : a.flow = f /\ a.slot = s).source]]]
    /\ channels' = [c \in Channels |->
           IF c \in DOMAIN of THEN Subscription(of[c].source, Remote(of[c].flow, of[c].slot))
           ELSE channels[c]]
    /\ info' = [c \in Channels |->
           IF c \in DOMAIN of THEN Info(of[c].source, "InProgress") ELSE info[c]]
    /\ tasks' = tasks \o [i \in DOMAIN order |-> Connect(of[order[i]])]
    /\ results' = Tail(results)
    /\ at' = IF results' # << >> THEN "results"
             ELSE IF Outstanding(requests) # {} THEN "waiting" ELSE "scan"
    /\ UNCHANGED <<rxVars, infoPoisoned, queue, needsResolving, resolveNow, saved, queried, reused,
                   requests, stops, environment>>

\* The executors are done and gave nothing more.
ResolveEnds ==
    /\ at = "waiting" /\ Resumes
    /\ results = << >> /\ Outstanding(requests) = {}
    /\ at' = "scan"
    /\ UNCHANGED <<rxVars, info, infoPoisoned, queue, channels, flows, needsResolving, resolveNow,
                   saved, tasks, queried, reused, requests, results, stops, environment>>

-----------------------------------------------------------------------------
(* scan_flows *)

DisconnectsOf(f, orphans) ==
    LET leaving == Ascending({c \in orphans : channels[c].remote.flow = f})
    IN  [i \in DOMAIN leaving |-> Disconnect(leaving[i], channels[leaving[i]].remote)]
BundleRemoval(f) ==
    IF IsBundle(f) THEN <<RxCommand("RemoveSocket", f, NoSlot, NoChannel)>> ELSE << >>

\* Plausible bug: a bundle's socket is removed before its orphans are disconnected.
DepartureSwapped(f, orphans) == BundleRemoval(f) \o DisconnectsOf(f, orphans)

\* What is spawned for a silent or removed flow.
Departure(f, orphans) == DisconnectsOf(f, orphans) \o BundleRemoval(f)

\* Which used flows have been silent for 2 s and are older than 6 s, and which
\* ones receive, is up to the network.  The channels of a silent flow are
\* orphans; silent and unused flows are removed.
Scan(silent, receiving) ==
    LET there == {f \in FlowIds : flows[f] # NoFlow}
        removed == silent \cup {f \in there : ~IsUsed(f)}
        orphans == {c \in Connected : channels[c].remote.flow \in silent}
        receivers == {c \in Connected : channels[c].remote.flow \in receiving}
        bundles == {f \in removed : IsBundle(f)}
        order == Ascending(silent \cup bundles)
    IN
    /\ at = "scan"
    /\ silent \subseteq there /\ receiving \subseteq there \ silent
    /\ \A f \in silent \cup receiving : IsUsed(f)
    /\ timeouts + Cardinality(silent) <= MaxTimeouts
    /\ timeouts' = timeouts + Cardinality(silent)
    /\ channels' = [c \in Channels |->
           IF c \in orphans THEN [channels[c] EXCEPT !.remote = NoRemote] ELSE channels[c]]
    /\ info' = [c \in Channels |->
           IF info[c] = NoInfo THEN NoInfo
           ELSE IF c \in orphans THEN [info[c] EXCEPT !.status = "Unresolved"]
           ELSE IF c \in receivers THEN [info[c] EXCEPT !.status = "Receiving"]
           ELSE info[c]]
    /\ needsResolving' = (needsResolving \/ orphans # {})
    /\ resolveNow' = (resolveNow \/ orphans # {})
    /\ tasks' = tasks \o FlattenSeq([i \in DOMAIN order |-> Departure(order[i], orphans)])
    /\ flows' = [f \in FlowIds |-> IF f \in removed THEN NoFlow ELSE flows[f]]
    /\ stops' = [o \in Origins |->
           Ascending({f \in removed \ bundles : flows[f].origin = o})]
    /\ at' = IF removed \subseteq bundles THEN Pause ELSE "stop"
    /\ UNCHANGED <<rxVars, infoPoisoned, queue, saved, queried, reused, requests, results, asked,
                   failures, clockReady>>

RemoveSockets(r, fs) == FoldLeft(RemoveSocket, r, fs)

\* The stop requests are sent, origin by origin.  To an unreachable one they
\* fail at once, and the sockets are removed without a wait.
StopFlows(unreachable) ==
    LET failing == SetToSeq(unreachable)
    IN
    /\ at = "stop"
    /\ unreachable \subseteq {o \in Origins : stops[o] # << >>}
    /\ unreachable # {} => "unreachable" \in Races
    /\ front' = RemoveSockets(front, FlattenSeq([i \in DOMAIN failing |-> stops[failing[i]]]))
    /\ stops' = [o \in Origins |-> IF o \in unreachable THEN << >> ELSE stops[o]]
    /\ at' = IF stops' = NothingPending THEN Pause ELSE "stopping"
    /\ UNCHANGED <<sockets, silence, info, infoPoisoned, queue, channels, flows, needsResolving,
                   resolveNow, saved, tasks, queried, reused, requests, results, environment>>

\* Answered or not, the flow's socket is removed.
StopReply(o) ==
    /\ at = "stopping" /\ Resumes
    /\ stops[o] # << >>
    /\ front' = RemoveSocket(front, Head(stops[o]))
    /\ stops' = [stops EXCEPT ![o] = Tail(@)]
    /\ at' = IF stops' = NothingPending THEN Pause ELSE "stopping"
    /\ UNCHANGED <<sockets, silence, info, infoPoisoned, queue, channels, flows, needsResolving,
                   resolveNow, saved, tasks, queried, reused, requests, results, environment>>

-----------------------------------------------------------------------------
(* The spawned tasks and the clock *)

RunTask ==
    LET command == Head(tasks)
    IN
    /\ IsParked /\ tasks # << >>
    /\ front' = IF command.op = "RemoveSocket" THEN RemoveSocket(front, command.flow)
                ELSE ConnectOrDisconnect(front, command)
    /\ tasks' = Tail(tasks)
    /\ UNCHANGED <<sockets, silence, info, infoPoisoned, queue, channels, flows, needsResolving,
                   resolveNow, saved, at, queried, reused, requests, results, stops, environment>>

ClockReady ==
    /\ ~clockReady
    /\ clockReady' = TRUE
    /\ UNCHANGED <<rxVars, info, infoPoisoned, queue, channels, flows, needsResolving, resolveNow,
                   saved, at, tasks, queried, reused, requests, results, stops, asked, failures, timeouts>>

-----------------------------------------------------------------------------

User == \E c \in Channels : UserUnsubscribe(c) \/ \E source \in Sources : UserSubscribe(c, source)
Worker ==
    \/ HandleCommand \/ WakeUp \/ Resolve \/ SkipResolve \/ TakeResult \/ ResolveEnds
    \/ \E found \in SUBSET queried : QueryAnswered(found)
    \/ at = "scan" /\ \E silent, receiving \in SUBSET FlowIds : Scan(silent, receiving)
    \/ at = "stop" /\ \E unreachable \in SUBSET Origins : StopFlows(unreachable)
    \/ \E o \in Origins : StopReply(o)
Executor == \E o \in Origins : RequestUpdate(o) \/ RequestCreate(o) \/ RequestJoin(o)
Thread == RxThread /\ UNCHANGED subVars

Next == User \/ Worker \/ Executor \/ RunTask \/ ClockReady \/ Thread

Spec == Init /\ [][Next]_vars

-----------------------------------------------------------------------------
(* Properties *)

Commands == UNION {[op : {"AddSocket", "RemoveSocket"}, flow : FlowIds, slot : {NoSlot}, chan : {NoChannel}],
                   [op : {"ConnectChannel", "DisconnectChannel"}, flow : FlowIds, slot : Slots, chan : Channels]}

\* Everything has its type, and the sinks of a slot are known channels.
TypeOK ==
    /\ info \in [Channels -> {NoInfo} \cup [source : Sources, status : Status]]
    /\ channels \in [Channels ->
           [source : Sources, remote : {NoRemote} \cup [flow : FlowIds, slot : Slots]] \cup {NoSub}]
    /\ \A f \in FlowIds : flows[f] # NoFlow =>
           /\ flows[f].origin \in Origins
           /\ flows[f].refcount \in [Slots -> Int]
           /\ flows[f].tx \in [Slots -> Sources \cup {NoSource}]
           /\ flows[f].heard \in [Slots -> Sources \cup {NoSource}]
    /\ saved \in [Channels -> Sources \cup {NoSource}]
    /\ at \in {"idle", "batch", "decide", "query", "waiting", "results", "scan", "stop", "stopping"}
    /\ \A i \in DOMAIN tasks : tasks[i] \in Commands
    /\ \A i \in DOMAIN front.commands : front.commands[i] \in Commands
    /\ front.info \subseteq FlowIds
    /\ \A f \in FlowIds : sockets[f] = NoSocket \/ sockets[f] \in [Slots -> SUBSET Channels]
    /\ silence \subseteq Channels

\* The count of a slot (channels_refcount) is the number of channels connected
\* to it, and a channel is connected to a flow that exists: scan_flows would
\* otherwise stop a flow that is heard, or keep one that nobody hears.
RefcountsAreExact ==
    \A f \in FlowIds : \A s \in Slots :
        LET connected == {c \in Connected : channels[c].remote = Remote(f, s)}
        IN  IF flows[f] = NoFlow THEN connected = {}
            ELSE flows[f].refcount[s] = Cardinality(connected)

\* Where the sinks will be once the RX thread has caught up with the commands
\* sent and still to be sent.
Settled == FoldLeft(Executed, sockets, front.commands \o tasks)

\* A channel's ring buffer is fed by the slot that its subscription says, and by
\* no other: connects and disconnects are neither lost nor swapped on their way
\* through the run queue and the RX thread's queue.
SinksFollowSubscriptions ==
    \A c \in Channels :
        {p \in FlowIds \X Slots : p[2] \in DOMAIN Settled[p[1]] /\ c \in Settled[p[1]][p[2]]}
            = IF c \in Connected THEN {<<channels[c].remote.flow, channels[c].remote.slot>>} ELSE {}

\* No command reaches the RX thread that its handler asserts or unwraps away:
\* a socket is added at a vacant index and removed when no sink is left.
RxCommandsApply == front.commands # << >> => Applicable(sockets, Head(front.commands))

\* A ring buffer has one writer: never a silence writer while a flow feeds it.
SingleWriter ==
    \A f \in FlowIds : SinksOf(sockets, f) \cap silence = {}

\* No task panics with flows_info or subscriptions_info locked, which would
\* make every later caller panic and end the reception of audio.
NoLockIsPoisoned == ~Poisoned

\* A connected channel hears the source it is subscribed to: what the
\* transmitter puts in its slot.
HearsItsSource ==
    \A c \in Connected :
        flows[channels[c].remote.flow].heard[channels[c].remote.slot] = channels[c].source

\* What the user asked of c last.
Wanted(c) ==
    LET ofC == SelectSeq(queue, LAMBDA command : command.chan = c)
    IN  IF ofC # << >> THEN Last(ofC).source ELSE channels[c].source

\* A subscribed channel is listed to controllers as subscribed, from the
\* moment it is asked for.
SubscribedIsListed == \A c \in Channels : Wanted(c) # NoSource => info[c] # NoInfo

\* ... and with the source that was asked for last.
ListedIsWanted ==
    \A c \in Channels : Wanted(c) # NoSource /\ info[c] # NoInfo => info[c].source = Wanted(c)

\* When the worker has no command left the file has the subscriptions it serves.
SavedIsCurrent ==
    at # "batch" => \A c \in Channels : saved[c] = channels[c].source

\* A channel that carries audio: its ring buffer is written from a slot of an
\* open socket in which the transmitter puts the source subscribed to.
Served(c) ==
    \E f \in FlowIds : \E s \in DOMAIN sockets[f] :
        /\ c \in sockets[f][s]
        /\ flows[f] # NoFlow /\ flows[f].heard[s] = channels[c].source

\* The runtime runs every task that is ready, devices answer or the request
\* times out, timers expire, and the resolver's nine seconds are over again and
\* again; the media clock gets its time.
Fairness ==
    /\ WF_vars(Worker) /\ SF_vars(Resolve)
    /\ WF_vars(Executor) /\ WF_vars(RunTask) /\ WF_vars(ClockReady)
    /\ WF_vars(ExecuteRx /\ UNCHANGED subVars)

FairSpec == Spec /\ Fairness

\* Failures being finite, a subscribed channel ends up with its audio, unless it
\* is unsubscribed: whatever was lost on the way is asked for again.
SubscriptionIsServed ==
    \A c \in Channels : channels[c] # NoSub ~> (channels[c] = NoSub \/ Served(c))
=============================================================================
