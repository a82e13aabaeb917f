------------------------------- MODULE FlowsTx -------------------------------
(***************************************************************************)
(* aoip/src/device_server/flows_tx.rs: the flows this device transmits.    *)
(* Two sides keep a table of them:                                         *)
(*                                                                         *)
(*   control   FlowsTransmitter, used by the tasks of the device server    *)
(*             one at a time (they share it in a tokio Mutex)              *)
(*   txFlows   the table of the real-time "flows TX" thread                *)
(*                                                                         *)
(* They are joined by the FIFO of commands, which the thread polls, and by *)
(* the atomic `expired` flag of each flow.  A step is one call made under  *)
(* the mutex, one command executed, or one flag set by the TX thread.      *)
(*                                                                         *)
(* The payload of the flows (sockets' contents, channels, timestamps) is   *)
(* not in the model; the destination of a flow tells a unicast flow, asked *)
(* for by a receiver, from a multicast flow.                               *)
(***************************************************************************)
EXTENDS Integers, Sequences, FiniteSets, SequencesExt

CONSTANTS
    Indices,            \* 0..MAX_FLOWS-1
    Receivers,          \* the ip:port of the receivers that may ask for a flow
    MulticastAddrs,     \* 239.255.0.0/16
    NoAddr,             \* an empty Option<FlowInfo>
    QueueSize,          \* the capacity of the channel: mpsc::channel(100)
    MaxFlows,           \* bound on the number of flows a transmitter ever creates
    MaxRequested        \* ... and when a receiver may still ask for one

Addrs == Receivers \cup MulticastAddrs

ASSUME AddrsAssumption ==
    /\ Receivers \cap MulticastAddrs = {}
    /\ NoAddr \notin Addrs
ASSUME IndicesAssumption == Indices \subseteq Nat /\ IsFiniteSet(Indices)
ASSUME BoundsAssumption == MaxFlows \in Nat /\ QueueSize \in Nat
                              /\ MaxRequested \in 0..MaxFlows

NoIndex == -1

\* A flow is known by its number and its destination.  The number stands for
\* the socket, the cookie and the `expired` flag created with it.
NoFlow == [id |-> 0, remote |-> NoAddr]
Flow == [id : 1..MaxFlows, remote : Addrs]

VARIABLES
    control,    \* FlowsTransmitter and its end of the channel: .flows,
                \* .ipPortToId, .info (flows_info) and .commands
    expired,    \* the numbers of the flows whose `expired` flag is set
    txFlows,    \* FlowsTransmitterInternal.flows
    created     \* the last number given to a flow

flowsVars == <<control, expired, txFlows, created>>

Command == [op : {"AddFlow", "SetChannels", "RemoveFlow"}, index : Indices,
            flow : Flow \cup {NoFlow}]

AddCommand(i, flow) == [op |-> "AddFlow", index |-> i, flow |-> flow]
SetCommand(i)       == [op |-> "SetChannels", index |-> i, flow |-> NoFlow]
RemoveCommand(i)    == [op |-> "RemoveFlow", index |-> i, flow |-> NoFlow]

NoFlows ==
    [flows      |-> [i \in Indices |-> NoFlow],
     ipPortToId |-> [a \in Addrs |-> NoIndex],
     info       |-> [i \in Indices |-> NoAddr],
     commands   |-> << >>]

FlowsInit ==
    /\ control = NoFlows
    /\ expired = {}
    /\ txFlows = [i \in Indices |-> NoFlow]
    /\ created = 0

-----------------------------------------------------------------------------
(* FlowsTransmitter, as functions from a state of it to the next one *)

IsMulticast(c, i) == c.info[i] \in MulticastAddrs

\* A plausible bug: the destination of a removed flow stays known.
RemoveFlowsKeepsDestination(c, gone) ==
    [flows      |-> [i \in Indices |-> IF i \in gone THEN NoFlow ELSE c.flows[i]],
     ipPortToId |-> c.ipPortToId,
     info       |-> [i \in Indices |-> IF i \in gone THEN NoAddr ELSE c.info[i]],
     commands   |-> c.commands \o SetToSeq({RemoveCommand(i) : i \in gone})]

\* A plausible bug: the TX thread is not told.
RemoveFlowsSilently(c, gone) ==
    [flows      |-> [i \in Indices |-> IF i \in gone THEN NoFlow ELSE c.flows[i]],
     ipPortToId |-> [a \in Addrs |->
                        IF \E i \in gone : c.flows[i].remote = a
                        THEN NoIndex ELSE c.ipPortToId[a]],
     info       |-> [i \in Indices |-> IF i \in gone THEN NoAddr ELSE c.info[i]],
     commands   |-> c.commands]

\* remove_flow_internal, for each index of a set.
RemoveFlows(c, gone) ==
    [flows      |-> [i \in Indices |-> IF i \in gone THEN NoFlow ELSE c.flows[i]],
     ipPortToId |-> [a \in Addrs |->
                        IF \E i \in gone : c.flows[i].remote = a
                        THEN NoIndex ELSE c.ipPortToId[a]],
     info       |-> [i \in Indices |-> IF i \in gone THEN NoAddr ELSE c.info[i]],
     commands   |-> c.commands \o SetToSeq({RemoveCommand(i) : i \in gone})]

\* A plausible bug: flows in their grace period are taken for abandoned ones.
ExpiredIndicesAll(c) == {i \in Indices : c.flows[i].id \in expired}

\* The flows whose receiver sent no keepalive for 4 seconds.
ExpiredIndices(c) ==
    {i \in Indices : c.flows[i].id \in expired /\ ~IsMulticast(c, i)}

ScanExpired(c) == RemoveFlows(c, ExpiredIndices(c))

\* The indices that are neither in use nor reserved: what a requested index is
\* checked for.
FreeIndices(c) == {i \in Indices : c.flows[i] = NoFlow /\ c.info[i] = NoAddr}

\* What flow_seq_id stops at when no index is requested.
VacantIndices(c) == {i \in Indices : c.flows[i] = NoFlow}

InsertFlow(c, i, flow) ==
    [flows      |-> [c.flows EXCEPT ![i] = flow],
     ipPortToId |-> [c.ipPortToId EXCEPT ![flow.remote] = i],
     info       |-> [c.info EXCEPT ![i] = flow.remote],
     commands   |-> Append(c.commands, AddCommand(i, flow))]

SetChannels(c, i) == [c EXCEPT !.commands = Append(@, SetCommand(i))]

\* "got add flow request for already existing flow, setting channels instead":
\* the flow keeps its index, whatever index was requested.
SetExisting(c, a) == [SetChannels(c, c.ipPortToId[a]) EXCEPT !.info[c.ipPortToId[a]] = a]

\* add_flow at a requested index: the state it leaves whether it succeeds,
\* finds the index busy or the destination in use.
AddMulticast(c, i, flow) ==
    LET scanned == ScanExpired(c)
    IN  IF c.ipPortToId[flow.remote] # NoIndex THEN SetExisting(c, flow.remote)
        ELSE IF i \in FreeIndices(scanned) THEN InsertFlow(scanned, i, flow)
        ELSE scanned

\* A plausible bug: a multicast flow transmits as soon as it is added.
AddMulticastFlagUnset(c, i, flow) == {}

\* A multicast flow is added "as 'expired' to give it grace period".
AddMulticastFlag(c, i, flow) ==
    IF c.ipPortToId[flow.remote] = NoIndex /\ i \in FreeIndices(ScanExpired(c))
    THEN {flow.id} ELSE {}

\* remove_multicast_flow: refused for an index that is vacant or unicast.
RemoveMulticast(c, i) == IF IsMulticast(c, i) THEN RemoveFlows(c, {i}) ELSE c

\* random_multicast_destination never picks an address that is in use.
RandomDestination(c) == {a \in MulticastAddrs : c.ipPortToId[a] = NoIndex}

-----------------------------------------------------------------------------
(* The flows control server: the requests of remote receivers *)

\* Request for a flow to a destination that is not in use: an index that is
\* free after the expired flows were removed (flow_seq_id tries them all), or
\* the answer TooManyTXFlows when there is none or no socket can be made.
RequestFlow(r) ==
    LET scanned == ScanExpired(control)
    IN
    /\ control.ipPortToId[r] = NoIndex
    /\ \/ /\ created < MaxRequested
          /\ \E i \in VacantIndices(scanned) :
                 control' = InsertFlow(scanned, i, [id |-> created + 1, remote |-> r])
          /\ created' = created + 1
       \/ /\ control' = scanned
          /\ UNCHANGED created
    /\ UNCHANGED <<expired, txFlows>>

RequestFlowAgain(r) ==
    /\ control.ipPortToId[r] # NoIndex
    /\ control' = SetExisting(control, r)
    /\ UNCHANGED <<expired, txFlows, created>>

\* The handle of a request names the flow by index and cookie: these two are
\* for the flow at index i, and a request with another handle changes nothing.
UpdateFlow(i) ==
    /\ control.flows[i].remote \in Receivers
    /\ control' = SetChannels(control, i)
    /\ UNCHANGED <<expired, txFlows, created>>

StopFlow(i) ==
    /\ control.flows[i].remote \in Receivers
    /\ control' = RemoveFlows(control, {i})
    /\ UNCHANGED <<expired, txFlows, created>>

-----------------------------------------------------------------------------
(* What the multicast bundles do with the transmitter (tx_multicasts.rs) *)

\* A number is used up whether or not the flow is created.
AddMulticastFlow(i, a) ==
    /\ created < MaxFlows
    /\ created' = created + 1
    /\ control' = AddMulticast(control, i, [id |-> created + 1, remote |-> a])
    /\ expired' = expired \cup
           AddMulticastFlag(control, i, [id |-> created + 1, remote |-> a])
    /\ UNCHANGED txFlows

\* add_flow fails later, for want of a socket.
AddMulticastUnbound(c) ==
    /\ control' = ScanExpired(c)
    /\ UNCHANGED <<expired, txFlows, created>>

RemoveMulticastFlow(i) ==
    /\ control' = RemoveMulticast(control, i)
    /\ UNCHANGED <<expired, txFlows, created>>

\* A conflicting address is given up and another one tried, without the mutex
\* being unlocked in the meantime.
ReplaceMulticastFlow(i, a) ==
    LET removed == RemoveMulticast(control, i)
        flow == [id |-> created + 1, remote |-> a]
    IN
    /\ a \in RandomDestination(removed)
    /\ created < MaxFlows
    /\ created' = created + 1
    /\ control' = AddMulticast(removed, i, flow)
    /\ expired' = expired \cup AddMulticastFlag(removed, i, flow)
    /\ UNCHANGED txFlows

\* activate_multicast_flow, which does not look whether the flow is multicast.
ActivateMulticastFlow(i) ==
    /\ control.flows[i] # NoFlow
    /\ expired' = expired \ {control.flows[i].id}
    /\ UNCHANGED <<control, txFlows, created>>

\* The transmitter is stopped, or the process dies, and everything is built anew:
\* no number is in use.
ResetFlows ==
    /\ control' = NoFlows
    /\ expired' = {}
    /\ txFlows' = [i \in Indices |-> NoFlow]
    /\ created' = 0

-----------------------------------------------------------------------------
(* The TX thread *)

NextCommand == Head(control.commands)
Consume == control' = [control EXCEPT !.commands = Tail(@)]

ExecuteAdd ==
    /\ control.commands # << >> /\ NextCommand.op = "AddFlow"
    /\ txFlows' = [txFlows EXCEPT ![NextCommand.index] = NextCommand.flow]
    /\ Consume
    /\ UNCHANGED <<expired, created>>

ExecuteRemove ==
    /\ control.commands # << >> /\ NextCommand.op = "RemoveFlow"
    /\ txFlows' = [txFlows EXCEPT ![NextCommand.index] = NoFlow]
    /\ Consume
    /\ UNCHANGED <<expired, created>>

\* The unwrap of an empty slot would end the thread; otherwise an expired flow
\* is resuscitated.
ExecuteSetChannels ==
    /\ control.commands # << >> /\ NextCommand.op = "SetChannels"
    /\ txFlows[NextCommand.index] # NoFlow
    /\ expired' = expired \ {txFlows[NextCommand.index].id}
    /\ Consume
    /\ UNCHANGED <<txFlows, created>>

\* No keepalive came in time; multicast flows expect none.
Expire(i) ==
    /\ txFlows[i].remote \in Receivers
    /\ expired' = expired \cup {txFlows[i].id}
    /\ UNCHANGED <<control, txFlows, created>>

TxThread ==
    \/ ExecuteAdd \/ ExecuteRemove \/ ExecuteSetChannels
    \/ \E i \in Indices : Expire(i)

\* A call that finds the channel full waits, with the mutex locked, until the
\* TX thread has made room.  The commands beyond QueueSize are those its caller
\* still has to send.
Unlocked == Len(control.commands) <= QueueSize
Fits == Len(control.commands) < QueueSize

FlowsControlServer ==
    /\ \/ \E r \in Receivers : RequestFlow(r) \/ RequestFlowAgain(r)
       \/ \E i \in Indices : UpdateFlow(i) \/ StopFlow(i)
    /\ Fits

Bundles ==
    \/ /\ \/ \E i \in Indices, a \in MulticastAddrs :
                 AddMulticastFlow(i, a) \/ ReplaceMulticastFlow(i, a)
          \/ \E i \in Indices : RemoveMulticastFlow(i)
          \/ AddMulticastUnbound(control)
          \/ \E i \in Indices : AddMulticastUnbound(RemoveMulticast(control, i))
       /\ Fits
    \/ \E i \in Indices : ActivateMulticastFlow(i) /\ Unlocked

FlowsNext == TxThread \/ FlowsControlServer \/ Bundles \/ ResetFlows

FlowsSpec == FlowsInit /\ [][FlowsNext]_flowsVars

-----------------------------------------------------------------------------
(* Properties *)

FlowsTypeOK ==
    /\ control.flows \in [Indices -> Flow \cup {NoFlow}]
    /\ control.ipPortToId \in [Addrs -> Indices \cup {NoIndex}]
    /\ control.info \in [Indices -> Addrs \cup {NoAddr}]
    /\ control.commands \in Seq(Command)
    /\ expired \subseteq 1..created
    /\ txFlows \in [Indices -> Flow \cup {NoFlow}]
    /\ created \in 0..MaxFlows

\* flows, ip_port_to_id and flows_info describe the same flows: what the
\* unwraps of add_flow (625), set_channels (698) and scan_expired (710) take
\* for granted.
TablesAgree ==
    /\ \A i \in Indices : control.info[i] = control.flows[i].remote
    /\ \A i \in Indices, a \in Addrs :
           control.ipPortToId[a] = i <=> control.flows[i].remote = a

\* What the commands not yet executed make of the TX thread's slot i: `upTo`
\* of them are executed.
SlotAfter(i, upTo) ==
    LET touches == {k \in 1..upTo : control.commands[k].index = i
                                     /\ control.commands[k].op # "SetChannels"}
    IN  IF touches = {} THEN txFlows[i]
        ELSE control.commands[CHOOSE k \in touches : \A m \in touches : m <= k].flow

\* The debug_assert of AddFlow and the unwrap of SetChannels hold for every
\* command, whenever it comes to be executed.
CommandsApply ==
    \A k \in DOMAIN control.commands :
        LET command == control.commands[k]
        IN  /\ command.op = "AddFlow" => SlotAfter(command.index, k - 1) = NoFlow
            /\ command.op = "SetChannels" => SlotAfter(command.index, k - 1) # NoFlow

\* The TX thread ends up with the flows the control side believes in.
ThreadCatchesUp ==
    \A i \in Indices : SlotAfter(i, Len(control.commands)) = control.flows[i]
=============================================================================
