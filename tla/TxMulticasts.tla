---------------------------- MODULE TxMulticasts ----------------------------
(***************************************************************************)
(* aoip/src/device_server/tx_multicasts.rs: the multicast bundles this     *)
(* device transmits.  Creating one takes two steps that are seconds apart: *)
(* the request of a controller, which is checked and carried out under two *)
(* acquisitions of the mutex, adds a flow that does not transmit yet, and  *)
(* a task of its own ("grace period") asks over mDNS whether the address   *)
(* is in use, reserves it, asks again, and only then advertises the bundle *)
(* and activates the flow.  The list of bundles is saved on disk.          *)
(*                                                                         *)
(* Every other user of the transmitter interleaves with these tasks: their *)
(* steps are those of FlowsTx.  A step is what a task does between two     *)
(* points at which it waits: an mDNS query, a mutex, a file.               *)
(***************************************************************************)
EXTENDS FlowsTx

CONSTANTS
    Channels,           \* the local channels
    MaxBundles,         \* bound on the number of bundles ever added by a process
    MaxConflicts,       \* bound on the number of queries that find a conflict,
                        \* or fail, which counts as one
    Races               \* what may happen at an inconvenient time:
                        \*   "deleteInGrace"  a bundle is deleted before it is
                        \*                    on the air
                        \*   "stop"           the transmitter is stopped (and
                        \*                    started again)
                        \*   "crash"          the process dies at any time
                        \*                    (and is started again)
                        \*   "crashIdle"      the same, but not while the list
                        \*                    is being loaded or saved
                        \*   "takenIndex"     a receiver is given the index that
                        \*                    was found free for a bundle
                        \*   "usedAddress"    a saved address is in use when its
                        \*                    bundle is loaded
                        \*   "noSocket"       no socket can be made for the flow
                        \*                    of a bundle

ASSUME BundlesAssumption == MaxBundles \in Nat /\ MaxConflicts \in Nat
ASSUME RacesAssumption ==
    Races \subseteq {"deleteInGrace", "stop", "crash", "crashIdle",
                     "takenIndex", "usedAddress", "noSocket"}

Bundle == 1..MaxBundles     \* the bundles in the order of their addition
NoBundle == 0

\* SavedMulticastTXFlow; an address that was not activated is saved as 0.0.0.0.
NotSaved == [channels |-> {}, addr |-> NoAddr]

\* The request for a bundle that the ARC server has found possible and has yet
\* to carry out.
NoRequest == [pc |-> "none", index |-> NoIndex, channels |-> {}]

VARIABLES
    bundles,        \* TransmitMulticasts.bundles: the bundle at each index
    channelsOf,     \* Bundle.local_channel_indices
    dstAddr,        \* Bundle.dst_addr, an atomic shared with its task
    task,           \* the task of each bundle: .pc, .index, .addr, .ok
    conflicts,      \* number of queries that found a conflict
    server,         \* what happens to the bundles: nothing, or the ARC server
                    \* or transmit(), which loads them, saves the list
    request,        \* the ARC server between the check of a request and its
                    \* execution; .pc is "dead" when it has panicked
    toLoad,         \* the saved bundles that transmit() still has to add
    aborted,        \* the bundles of a TransmitMulticasts whose should_work is
                    \* false
    mcasts,         \* multicasts_by_channel
    advertised,     \* mDNS: the address each bundle is advertised with
    reserved,       \* mDNS: the addresses reserved by this device
    saved           \* the state file "tx_multicasts"

bundleVars == <<bundles, channelsOf, dstAddr>>
mdnsVars == <<mcasts, advertised, reserved>>
serverVars == <<server, request>>
multicastVars == <<bundleVars, mdnsVars, task, conflicts, serverVars, toLoad, aborted, saved>>
vars == <<flowsVars, multicastVars>>

NoTask == [pc |-> "none", index |-> NoIndex, addr |-> NoAddr, ok |-> FALSE]

Init ==
    /\ FlowsInit
    /\ bundles = [i \in Indices |-> NoBundle]
    /\ channelsOf = [b \in Bundle |-> {}]
    /\ dstAddr = [b \in Bundle |-> NoAddr]
    /\ task = [b \in Bundle |-> NoTask]
    /\ conflicts = 0
    /\ server = "idle"
    /\ request = NoRequest
    /\ toLoad = [i \in Indices |-> NotSaved]
    /\ aborted = {}
    /\ mcasts = [c \in Channels |-> NoIndex]
    /\ advertised = [i \in Indices |-> NoAddr]
    /\ reserved = {}
    /\ saved = [i \in Indices |-> NotSaved]

\* Every flow of the transmitter is created under another number.
NewFlow(a) == [id |-> created + 1, remote |-> a]

-----------------------------------------------------------------------------
(* add_flow_internal, up to save_state *)

\* The bundle, its entry in the list and its task exist whether or not the
\* transmitter has added the flow: an error is only logged.
AddBundle(i, channels, a) ==
    \E b \in Bundle :
        /\ task[b] = NoTask /\ \A lower \in 1..(b - 1) : task[lower] # NoTask
        /\ bundles[i] = NoBundle
        /\ \/ AddMulticastFlow(i, a)
           \/ "noSocket" \in Races /\ a \in RandomDestination(control)
              /\ AddMulticastUnbound(control)
        /\ Fits
        /\ bundles' = [bundles EXCEPT ![i] = b]
        /\ channelsOf' = [channelsOf EXCEPT ![b] = channels]
        /\ task' = [task EXCEPT ![b] =
               [pc |-> "spawn", index |-> i, addr |-> a, ok |-> TRUE]]
        /\ server' = "saving"
        /\ UNCHANGED <<dstAddr, mdnsVars, conflicts, aborted, saved>>

\* The flows control server is started when the bundles are loaded.
Loaded == server \in {"idle", "saving"} /\ \A i \in Indices : toLoad[i] = NotSaved

\* create_multicast_tx_flow of the ARC server: the flow id must not be busy.
\* The server takes one request at a time, so it is not saving the list for
\* another one; transmit() may be.
CreateMulticast(i, channels) ==
    /\ request = NoRequest
    /\ server = "idle" \/ (server # "stopped" /\ ~Loaded)
    /\ control.info[i] = NoAddr
    /\ channels # {}
    /\ request' = [pc |-> "checked", index |-> i, channels |-> channels]
    /\ UNCHANGED <<flowsVars, bundleVars, mdnsVars, task, conflicts, server, toLoad, aborted, saved>>

\* The mutexes were unlocked since the check.
AddChecked ==
    /\ request.pc = "checked"
    /\ server = "idle"
    /\ \E a \in RandomDestination(control) : AddBundle(request.index, request.channels, a)
    /\ request' = NoRequest
    /\ UNCHANGED toLoad

\* "tx_multicasts None but got add multicast request": there are none before
\* they are loaded.
AddRefused ==
    /\ request.pc = "checked"
    /\ ~Loaded
    /\ request' = NoRequest
    /\ UNCHANGED <<flowsVars, bundleVars, mdnsVars, task, conflicts, server, toLoad, aborted, saved>>

\* assert!(bundles[flow_index].is_none()) fails when another bundle is there,
\* one that has no flow or was loaded since the check: the server's task ends.
AddPanics ==
    /\ request.pc = "checked"
    /\ server = "idle"
    /\ bundles[request.index] # NoBundle
    /\ request' = [NoRequest EXCEPT !.pc = "dead"]
    /\ UNCHANGED <<flowsVars, bundleVars, mdnsVars, task, conflicts, server, toLoad, aborted, saved>>

\* load_state adds one bundle after the other, to the address it had if that
\* was saved, whether or not it is in use.
LoadNext(i) ==
    /\ server = "loading"
    /\ toLoad[i] # NotSaved /\ \A j \in Indices : j < i => toLoad[j] = NotSaved
    /\ \E a \in MulticastAddrs :
           /\ \/ a = toLoad[i].addr
              \/ toLoad[i].addr = NoAddr /\ a \in RandomDestination(control)
           /\ a \in RandomDestination(control) \/ "usedAddress" \in Races
           /\ AddBundle(i, toLoad[i].channels, a)
    /\ UNCHANGED <<request, toLoad>>

LoadEnds ==
    /\ server = "loading"
    /\ \A i \in Indices : toLoad[i] = NotSaved
    /\ server' = "idle"
    /\ UNCHANGED <<flowsVars, bundleVars, mdnsVars, task, conflicts, request, toLoad, aborted, saved>>

\* A plausible bug: a bundle is not saved before it has an address.
SavedBundlesActivated ==
    [i \in Indices |->
        IF bundles[i] = NoBundle THEN NotSaved
        ELSE IF dstAddr[bundles[i]] = NoAddr THEN NotSaved
        ELSE [channels |-> channelsOf[bundles[i]], addr |-> dstAddr[bundles[i]]]]

SavedBundles ==
    [i \in Indices |->
        IF bundles[i] = NoBundle THEN NotSaved
        ELSE [channels |-> channelsOf[bundles[i]], addr |-> dstAddr[bundles[i]]]]

\* save_state, then the spawn of the new bundle's task; load_state goes on with
\* the next bundle.
Save ==
    /\ server = "saving"
    /\ saved' = SavedBundles
    /\ toLoad' = [i \in Indices |-> IF bundles[i] = NoBundle THEN toLoad[i] ELSE NotSaved]
    /\ task' = [b \in Bundle |->
           IF task[b].pc = "spawn" THEN [task[b] EXCEPT !.pc = "query"] ELSE task[b]]
    /\ server' = IF \A i \in Indices : toLoad'[i] = NotSaved THEN "idle" ELSE "loading"
    /\ UNCHANGED <<flowsVars, bundleVars, mdnsVars, conflicts, request, aborted>>

-----------------------------------------------------------------------------
(* The task of a bundle *)

\* is_multicast_ip_already_used twice, with the reservation in between; this
\* device's own records are not counted.
Reservation(b) == task[b].addr

FirstQuery(b) ==
    /\ task[b].pc = "query"
    /\ \/ /\ task' = [task EXCEPT ![b].pc = "queryAgain"]
          /\ reserved' = reserved \cup {Reservation(b)}
          /\ UNCHANGED conflicts
       \/ /\ conflicts < MaxConflicts
          /\ conflicts' = conflicts + 1
          /\ task' = [task EXCEPT ![b].pc = "decide", ![b].ok = FALSE]
          /\ UNCHANGED reserved
    /\ UNCHANGED <<flowsVars, bundleVars, mcasts, advertised, serverVars, toLoad, aborted, saved>>

SecondQuery(b) ==
    /\ task[b].pc = "queryAgain"
    /\ \/ /\ task' = [task EXCEPT ![b].pc = "decide"]
          /\ UNCHANGED conflicts
       \/ /\ conflicts < MaxConflicts
          /\ conflicts' = conflicts + 1
          /\ task' = [task EXCEPT ![b].pc = "decide", ![b].ok = FALSE]
    /\ UNCHANGED <<flowsVars, bundleVars, mdnsVars, serverVars, toLoad, aborted, saved>>

Done(b) == task' = [task EXCEPT ![b].pc = "done"]

\* The mutex is locked and the transmitter is about to be destroyed, or gone.
Abort(b) ==
    /\ task[b].pc = "decide"
    /\ b \in aborted
    /\ Done(b)
    /\ UNCHANGED <<flowsVars, bundleVars, mdnsVars, conflicts, serverVars, toLoad, aborted, saved>>

\* The bundle is advertised and the flow that is now at its index activated;
\* if there is none the unwrap ends the task when everything else is done.
Activate(b) ==
    LET i == task[b].index
    IN
    /\ task[b].pc = "decide" /\ task[b].ok
    /\ b \notin aborted
    /\ Unlocked
    /\ dstAddr' = [dstAddr EXCEPT ![b] = task[b].addr]
    /\ mcasts' = [c \in Channels |-> IF c \in channelsOf[b] THEN i ELSE mcasts[c]]
    /\ advertised' = [advertised EXCEPT ![i] = task[b].addr]
    /\ \/ ActivateMulticastFlow(i)
       \/ control.flows[i] = NoFlow /\ UNCHANGED flowsVars
    /\ Done(b)
    /\ UNCHANGED <<bundles, channelsOf, reserved, conflicts, serverVars, toLoad, aborted, saved>>

\* A plausible bug: a conflict ends the task instead of starting it over.
RetryGivesUp(b) ==
    /\ task[b].pc = "decide" /\ ~task[b].ok
    /\ b \notin aborted
    /\ RemoveMulticastFlow(task[b].index) /\ Fits
    /\ Done(b)
    /\ UNCHANGED <<bundleVars, mdnsVars, conflicts, serverVars, toLoad, aborted, saved>>

\* "multicast address conflict detected, retrying"
Retry(b) ==
    /\ task[b].pc = "decide" /\ ~task[b].ok
    /\ b \notin aborted
    /\ \E a \in MulticastAddrs :
           /\ \/ ReplaceMulticastFlow(task[b].index, a)
              \/ "noSocket" \in Races
                 /\ a \in RandomDestination(RemoveMulticast(control, task[b].index))
                 /\ AddMulticastUnbound(RemoveMulticast(control, task[b].index))
           /\ Fits
           /\ task' = [task EXCEPT ![b] =
                  [@ EXCEPT !.pc = "query", !.addr = a, !.ok = TRUE]]
    /\ UNCHANGED <<bundleVars, mdnsVars, conflicts, serverVars, toLoad, aborted, saved>>

-----------------------------------------------------------------------------
(* remove_flow, for delete_multicast_tx_flow of the ARC server *)

TakeBack(i, addr) ==
    /\ advertised' = IF addr = NoAddr THEN advertised
                     ELSE [advertised EXCEPT ![i] = NoAddr]
    /\ reserved' = reserved \ {addr}

ForgetChannels(b) ==
    mcasts' = [c \in Channels |-> IF c \in channelsOf[b] THEN NoIndex ELSE mcasts[c]]

\* A bundle that was never on the air has nothing to take back from mDNS.  If
\* the transmitter refuses, the list is not saved.
DeleteMulticast(i) ==
    LET b == bundles[i]
        addr == dstAddr[b]
    IN
    /\ server = "idle" /\ request = NoRequest
    /\ b # NoBundle
    /\ addr = NoAddr => "deleteInGrace" \in Races
    /\ RemoveMulticastFlow(i) /\ Fits
    /\ bundles' = [bundles EXCEPT ![i] = NoBundle]
    /\ TakeBack(i, addr)
    /\ ForgetChannels(b)
    /\ server' = IF IsMulticast(control, i) THEN "saving" ELSE "idle"
    /\ UNCHANGED <<channelsOf, dstAddr, task, conflicts, request, toLoad, aborted, saved>>

-----------------------------------------------------------------------------
(* Stopping the transmitter, losing the process, and starting again *)

\* shutdown() clears should_work under the mutex, so each remove_flow_internal
\* that follows takes its bundle and returns Interrupted.  Then the transmitter
\* is destroyed.  mDNS and multicasts_by_channel outlive it.
Stop ==
    /\ "stop" \in Races
    /\ server = "idle"
    /\ server' = "stopped"
    /\ aborted' = {b \in Bundle : task[b] # NoTask}
    /\ bundles' = [i \in Indices |-> NoBundle]
    /\ ResetFlows
    /\ UNCHANGED <<channelsOf, dstAddr, mdnsVars, task, conflicts, request, toLoad, saved>>

\* The tasks die with the process, so their numbers are free again, and its
\* mDNS records are forgotten.
Crash ==
    /\ \/ "crash" \in Races /\ server # "stopped"
       \/ "crashIdle" \in Races /\ server = "idle"
    /\ server' = "stopped"
    /\ request' = NoRequest
    /\ aborted' = {}
    /\ bundles' = [i \in Indices |-> NoBundle]
    /\ channelsOf' = [b \in Bundle |-> {}]
    /\ dstAddr' = [b \in Bundle |-> NoAddr]
    /\ task' = [b \in Bundle |-> NoTask]
    /\ mcasts' = [c \in Channels |-> NoIndex]
    /\ advertised' = [i \in Indices |-> NoAddr]
    /\ reserved' = {}
    /\ toLoad' = [i \in Indices |-> NotSaved]
    /\ ResetFlows
    /\ UNCHANGED <<conflicts, saved>>

\* transmit()
Start ==
    /\ server = "stopped"
    /\ server' = "loading"
    /\ toLoad' = saved
    /\ UNCHANGED <<flowsVars, bundleVars, mdnsVars, task, conflicts, request, aborted, saved>>

-----------------------------------------------------------------------------
\* The index that was found free is left alone.
RequestedIndexFree ==
    request.pc = "checked" => control'.info[request.index] = control.info[request.index]

OtherUsers ==
    /\ \/ server # "stopped" /\ TxThread
       \/ /\ Loaded /\ FlowsControlServer
          /\ "takenIndex" \in Races \/ RequestedIndexFree
    /\ UNCHANGED multicastVars

BundleTask(b) == FirstQuery(b) \/ SecondQuery(b) \/ Abort(b) \/ Activate(b) \/ Retry(b)

Next ==
    \/ \E i \in Indices, channels \in SUBSET Channels : CreateMulticast(i, channels)
    \/ \E i \in Indices : LoadNext(i) \/ DeleteMulticast(i)
    \/ AddChecked \/ AddRefused \/ AddPanics
    \/ LoadEnds \/ Save \/ Stop \/ Crash \/ Start
    \/ \E b \in Bundle : BundleTask(b)
    \/ OtherUsers

Spec == Init /\ [][Next]_vars

\* The tasks of the runtime are all polled, the queries time out, and the TX
\* thread polls its commands.  Retry waits for the mutex and for room in the
\* channel, and tokio serves those who wait for either in their order.  No
\* controller has to send anything.
FairSpec ==
    /\ Spec
    /\ \A b \in Bundle : WF_vars(BundleTask(b)) /\ SF_vars(Retry(b))
    /\ WF_vars(Save)
    /\ WF_vars(server # "stopped" /\ TxThread /\ UNCHANGED multicastVars)

-----------------------------------------------------------------------------
(* Properties *)

BundlesTypeOK ==
    /\ bundles \in [Indices -> Bundle \cup {NoBundle}]
    /\ channelsOf \in [Bundle -> SUBSET Channels]
    /\ dstAddr \in [Bundle -> MulticastAddrs \cup {NoAddr}]
    /\ task \in [Bundle ->
           [pc : {"none", "spawn", "query", "queryAgain", "decide", "done"},
            index : Indices \cup {NoIndex},
            addr : MulticastAddrs \cup {NoAddr}, ok : BOOLEAN]]
    /\ conflicts \in 0..MaxConflicts
    /\ server \in {"idle", "saving", "loading", "stopped"}
    /\ request \in [pc : {"none", "checked", "dead"}, index : Indices \cup {NoIndex},
                    channels : SUBSET Channels]
    /\ {toLoad, saved} \subseteq
           [Indices -> [channels : SUBSET Channels, addr : MulticastAddrs \cup {NoAddr}]]
    /\ aborted \subseteq Bundle
    /\ mcasts \in [Channels -> Indices \cup {NoIndex}]
    /\ advertised \in [Indices -> MulticastAddrs \cup {NoAddr}]
    /\ reserved \subseteq MulticastAddrs

TypeOK == FlowsTypeOK /\ BundlesTypeOK

\* flows_tx.rs:587, "we're adding multicast flow as 'expired' to give it grace
\* period for multicast address collission detection", and :640, activation "is
\* called for multicast flows after grace period": no flow transmits to an
\* address that this device did not query and reserve.
GracePeriodRespected ==
    \A i \in Indices :
        control.flows[i].remote \in MulticastAddrs /\ control.flows[i].id \notin expired
            => control.flows[i].remote \in reserved

\* A bundle is advertised over mDNS with the address its flow transmits to.
AdvertisedIsOnAir ==
    \A i \in Indices : advertised[i] # NoAddr =>
        /\ control.flows[i].remote = advertised[i]
        /\ control.flows[i].id \notin expired

\* tx_multicasts.rs:292, "so that multicast will no longer be advertised": what
\* is advertised is a bundle that exists, whatever was deleted and when.
DeletedIsNotAdvertised ==
    server # "stopped" =>
        \A i \in Indices : advertised[i] # NoAddr => bundles[i] # NoBundle

\* The same comment, for the bundles that shutdown() removes: when the
\* transmitter is gone nothing is advertised.
StoppedIsNotAdvertised ==
    server = "stopped" => \A i \in Indices : advertised[i] = NoAddr

\* A channel that is advertised in a bundle is carried by that bundle.
AdvertisedChannelIsCarried ==
    \A c \in Channels : mcasts[c] # NoIndex =>
        /\ bundles[mcasts[c]] # NoBundle
        /\ c \in channelsOf[bundles[mcasts[c]]]

\* The address a bundle is known by, saved with and advertised with is the one
\* its flow is found by: it is neither another bundle's nor one that was given
\* up after a conflict.
AddressesAreOwn ==
    \A b \in Bundle : dstAddr[b] # NoAddr /\ task[b].index # NoIndex
                       /\ bundles[task[b].index] = b
        => control.ipPortToId[dstAddr[b]] = task[b].index

\* Between two requests the file lists the bundles that exist.
SavedIsCurrent ==
    server = "idle" =>
        \A i \in Indices : (saved[i] = NotSaved) <=> (bundles[i] = NoBundle)

\* load_state brings back every saved bundle, across any number of restarts: a
\* bundle on the list, or still to be loaded from it, is struck off only when
\* the list is saved and the bundle no longer exists.
Listed(i) == saved[i] # NotSaved \/ toLoad[i] # NotSaved

SavedBundlesSurvive ==
    [][\A i \in Indices :
          Listed(i) /\ ~Listed(i)' => Save /\ bundles[i] = NoBundle]_vars

\* A bundle that is not deleted goes on the air, if conflicts end.
BundleGoesOnAir ==
    \A b \in Bundle :
        (task[b].pc # "none") ~>
            (task[b].pc = "done" /\ (bundles[task[b].index] = b => advertised[task[b].index] # NoAddr))
=============================================================================
