------------------------------- MODULE FlowsRx -------------------------------
(***************************************************************************)
(* aoip/src/device_server/flows_rx.rs: the flows this device receives.     *)
(*                                                                         *)
(*   front     FlowsReceiver, called by the tasks of the device server     *)
(*   sockets   the table of the real-time "flows RX" thread: the sinks     *)
(*             (ring buffers) that each channel of each flow is written to *)
(*   silence   the sinks that the thread keeps filling with silence after  *)
(*             they were disconnected                                      *)
(*                                                                         *)
(* A sink is known by its local channel: ExternalBuffering has one ring    *)
(* buffer per local channel.  A step is one call of FlowsReceiver or one   *)
(* command executed by the thread.                                         *)
(***************************************************************************)
EXTENDS Integers, Sequences, FiniteSets, SequencesExt

CONSTANTS
    FlowIds,        \* the local flow indices: 0..MAX_FLOWS-1
    Slots,          \* the channels of a flow: 0..channels_count-1
    Channels        \* the local channels

ASSUME FlowIdsAssumption == FlowIds \subseteq Nat /\ IsFiniteSet(FlowIds)
ASSUME SlotsAssumption ==
    IsFiniteSet(Slots) /\ Slots # {} /\ Slots = 0..(Cardinality(Slots) - 1)
ASSUME ChannelsAssumption == Channels \subseteq Nat /\ IsFiniteSet(Channels)

VARIABLES
    front,          \* .info: the indices at which flows_info holds a flow,
                    \* .commands: its end of the channel,
                    \* .poisoned: a task has panicked with flows_info locked
    sockets, silence

rxVars == <<front, sockets, silence>>

NoSocket == [s \in {} |-> {}]
NewSocket == [s \in Slots |-> {}]

RxCommand(op, f, s, c) == [op |-> op, flow |-> f, slot |-> s, chan |-> c]
NoSlot == -1
NoChannel == -1

RxInit ==
    /\ front = [info |-> {}, commands |-> << >>, poisoned |-> FALSE]
    /\ sockets = [f \in FlowIds |-> NoSocket]
    /\ silence = {}

-----------------------------------------------------------------------------
(* FlowsReceiver, as functions from a state of it to the next one *)

Send(r, command) == [r EXCEPT !.commands = Append(@, command)]

AddSocket(r, f) ==
    Send([r EXCEPT !.info = @ \cup {f}], RxCommand("AddSocket", f, NoSlot, NoChannel))

RemoveSocket(r, f) ==
    Send([r EXCEPT !.info = @ \ {f}], RxCommand("RemoveSocket", f, NoSlot, NoChannel))

\* connect_channel and disconnect_channel unwrap the flow's info while they
\* hold the lock for writing: the panic poisons it for every later caller.
\* What happens after that is not modelled.
ConnectOrDisconnect(r, command) ==
    IF command.flow \in r.info THEN Send(r, command) ELSE [r EXCEPT !.poisoned = TRUE]

-----------------------------------------------------------------------------
(* The RX thread *)

\* What a command makes of the sockets.
Executed(table, command) ==
    LET f == command.flow
    IN  CASE command.op = "AddSocket" -> [table EXCEPT ![f] = NewSocket]
          [] command.op = "RemoveSocket" -> [table EXCEPT ![f] = NoSocket]
          [] command.op = "ConnectChannel" /\ table[f] # NoSocket ->
                 [table EXCEPT ![f][command.slot] = @ \cup {command.chan}]
          [] command.op = "DisconnectChannel" /\ table[f] # NoSocket ->
                 [table EXCEPT ![f][command.slot] = @ \ {command.chan}]
          [] OTHER -> table

SinksOf(table, f) == UNION {table[f][s] : s \in DOMAIN table[f]}

\* The assertions and unwraps of the command handlers: an index is vacant when
\* a socket is added, has a socket that no sink is left in when it is removed,
\* and a sink is connected to one place only.
Applicable(table, command) ==
    LET f == command.flow
    IN  CASE command.op = "AddSocket" -> table[f] = NoSocket
          [] command.op = "RemoveSocket" -> table[f] # NoSocket /\ SinksOf(table, f) = {}
          [] command.op = "ConnectChannel" ->
                 /\ table[f] # NoSocket
                 /\ \A g \in FlowIds : command.chan \notin SinksOf(table, g)
          [] command.op = "DisconnectChannel" -> TRUE

\* Plausible bug: a sink taken over from its silence writer stays with it.
SilenceAfterKeepsWriter(command) ==
    IF command.op = "DisconnectChannel" THEN silence \cup {command.chan} ELSE silence

\* A connected sink is taken over from its silence writer, and a disconnected
\* one gets one.
SilenceAfter(command) ==
    CASE command.op = "ConnectChannel" -> silence \ {command.chan}
      [] /\ command.op = "DisconnectChannel"
         /\ command.slot \in DOMAIN sockets[command.flow]
         /\ command.chan \in sockets[command.flow][command.slot]
             -> silence \cup {command.chan}
      [] OTHER -> silence

\* The thread's own clock may have nothing yet: then there is no silence writer.
ExecuteRx ==
    LET command == Head(front.commands)
    IN
    /\ front.commands # << >>
    /\ Applicable(sockets, command)
    /\ sockets' = Executed(sockets, command)
    /\ \/ silence' = SilenceAfter(command)
       \/ command.op = "DisconnectChannel" /\ silence' = silence
    /\ front' = [front EXCEPT !.commands = Tail(@)]

\* One and a half rings later the silence writer is done.
SilenceEnds(c) ==
    /\ c \in silence
    /\ silence' = silence \ {c}
    /\ UNCHANGED <<front, sockets>>

RxThread == ExecuteRx \/ \E c \in Channels : SilenceEnds(c)
=============================================================================
