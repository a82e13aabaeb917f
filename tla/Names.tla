-------------------------------- MODULE Names --------------------------------
(***************************************************************************)
(* The names under which the transmitter's channels are found:             *)
(* device_server/mdns_server.rs (the records), saved_settings.rs (the file *)
(* tx_channels), the renaming requests of arc_server.rs, the refreshes     *)
(* that tx_multicasts.rs makes for a bundle, and the start and stop of     *)
(* device_server/mod.rs, which the plugin's thread calls.                  *)
(*                                                                         *)
(* Everything runs on one current-thread runtime.  A step is what a task   *)
(* does between two awaits that wait: the main task runs on from the       *)
(* overlay that ends DeviceServer::start until it finds no command.        *)
(*                                                                         *)
(* A channel's number is its factory name; other labels are larger.  The   *)
(* set of services compares them with all their fields, so two of the same *)
(* name may be in it; they are removed by name.                            *)
(***************************************************************************)
EXTENDS Integers
LOCAL INSTANCE SequencesExt

CONSTANTS
    Channels,        \* 1 .. n: the channels, and their factory names
    MoreLabels,      \* the other names that a user may give
    MaxRestarts,     \* bound on the crashes of the process
    EarlyCommand,    \* TRUE: the plugin sends its first command while the
                     \* server still starts
    SharedLabels     \* TRUE: a user may give a channel the name of another

ASSUME NamesAssumption ==
    /\ Channels \subseteq Nat \ {0} /\ MoreLabels \subseteq Nat \ {0}
    /\ Channels \cap MoreLabels = {}
    /\ MaxRestarts \in Nat
    /\ {EarlyCommand, SharedLabels} \subseteq BOOLEAN

Labels == Channels \cup MoreLabels
Unnamed == 0           \* ChannelSettings::default(): nothing saved
Bundle == 1            \* the bundle that a channel may be in
NoBundle == 0

VARIABLES
    main,              \* the plugin's thread: "clock", "running" or "idle"
    command,           \* "start" is in its channel
    arcServes,         \* run_server of the ARC server has been polled
    transmits,         \* the transmitter is started
    friendly,          \* friendly_name of each channel
    savedName,         \* the file tx_channels
    bundleOf,          \* multicasts_by_channel
    services,          \* the records of the channels
    given,             \* the name the user gave last, or the factory name
    restarts           \* number of crashes so far

serverVars == <<main, command, arcServes, transmits>>
namesVars == <<serverVars, friendly, savedName, bundleOf, services, given, restarts>>

NamesInit ==
    /\ main = "clock" /\ command = FALSE
    /\ arcServes = FALSE /\ transmits = FALSE
    /\ friendly = [c \in Channels |-> c]
    /\ savedName = [c \in Channels |-> Unnamed]
    /\ bundleOf = [c \in Channels |-> NoBundle]
    /\ services = {}
    /\ given = [c \in Channels |-> c]
    /\ restarts = 0

-----------------------------------------------------------------------------
(* The records *)

\* add_tx_channel: one record for the factory name, one for another name.
RecordsOf(c, name, bundle) ==
    {[name |-> n, id |-> c, bundle |-> bundle] : n \in {c, name}}

\* remove_tx_channel and remove_named_service: by name, whosever it is.
Without(records, c, name) == {s \in records : s.name \notin {c, name}}

\* A request to rename a channel: its records are removed under the old name
\* and added under the new one.
RenamedRecords(c, old, new) ==
    Without(services, c, old) \cup RecordsOf(c, new, bundleOf[c])

\* The channels of cs are removed and added again, one after the other.
Refreshed(records, cs, bundles) ==
    LET again(rs, c) == Without(rs, c, friendly[c])
                            \cup RecordsOf(c, friendly[c], bundles[c])
    IN  FoldLeft(again, records, SetToSortSeq(cs, <))

-----------------------------------------------------------------------------
(* The plugin's thread *)

\* get_or_create_instance, and the first command right after it, or later.
SendStart ==
    /\ ~command /\ ~transmits
    /\ EarlyCommand \/ arcServes
    /\ command' = TRUE
    /\ UNCHANGED <<main, arcServes, transmits, friendly, savedName, bundleOf,
                   services, given, restarts>>

\* DeviceServer::start: the clock is ready, the servers are spawned.
ClockReady ==
    /\ main = "clock"
    /\ main' = "running"
    /\ UNCHANGED <<command, arcServes, transmits, friendly, savedName, bundleOf,
                   services, given, restarts>>

\* transmit: every channel is advertised under the name it has now.
StartTransmitter ==
    /\ main \in {"running", "idle"} /\ command /\ ~transmits
    /\ main' = "running" /\ command' = FALSE
    /\ transmits' = TRUE
    /\ services' = Refreshed(services, Channels, bundleOf)
    /\ UNCHANGED <<arcServes, friendly, savedName, bundleOf, given, restarts>>

\* recv finds no command: the other tasks run.
Yield ==
    /\ main = "running" /\ ~command
    /\ main' = "idle"
    /\ UNCHANGED <<command, arcServes, transmits, friendly, savedName, bundleOf,
                   services, given, restarts>>

\* stop_transmitter leaves the records and multicasts_by_channel as they are:
\* TransmitMulticasts::shutdown clears should_work before it removes anything.
StopTransmitter ==
    /\ main = "idle" /\ transmits
    /\ transmits' = FALSE
    /\ UNCHANGED <<main, command, arcServes, friendly, savedName, bundleOf,
                   services, given, restarts>>

\* The process dies and is started again.
Restart ==
    /\ restarts < MaxRestarts
    /\ restarts' = restarts + 1
    /\ main' = "clock" /\ command' = FALSE
    /\ arcServes' = FALSE /\ transmits' = FALSE
    /\ friendly' = [c \in Channels |-> c]
    /\ bundleOf' = [c \in Channels |-> NoBundle]
    /\ services' = {}
    /\ UNCHANGED <<savedName, given>>

-----------------------------------------------------------------------------
(* The ARC server's task and the tasks of the bundles *)

\* SavedChannelsSettings::load sets the names and touches no record.
ArcServes ==
    /\ main = "idle" /\ ~arcServes
    /\ arcServes' = TRUE
    /\ friendly' = [c \in Channels |->
                       IF savedName[c] = Unnamed THEN friendly[c] ELSE savedName[c]]
    /\ UNCHANGED <<main, command, transmits, savedName, bundleOf, services, given,
                   restarts>>

\* Names that no other channel has, has been given, or is made with.
FreeFor(c) ==
    Labels \ UNION {{other, given[other]} : other \in Channels \ {c}}

\* rename_tx_channels; the answer comes after the file was written.
Rename(c, name) ==
    /\ main = "idle" /\ arcServes
    /\ SharedLabels \/ name \in FreeFor(c)
    /\ services' = RenamedRecords(c, friendly[c], name)
    /\ friendly' = [friendly EXCEPT ![c] = name]
    /\ savedName' = [savedName EXCEPT ![c] = name]
    /\ given' = [given EXCEPT ![c] = name]
    /\ UNCHANGED <<serverVars, bundleOf, restarts>>

InBundle == {c \in Channels : bundleOf[c] = Bundle}

\* The task of a bundle activates it, after an earlier life of the transmitter
\* once more: multicasts_by_channel, then a refresh of its channels.
JoinBundle(cs) ==
    /\ main = "idle" /\ transmits
    /\ InBundle \in {{}, cs}
    /\ bundleOf' = [c \in Channels |-> IF c \in cs THEN Bundle ELSE bundleOf[c]]
    /\ services' = Refreshed(services, cs, bundleOf')
    /\ UNCHANGED <<serverVars, friendly, savedName, given, restarts>>

\* A plausible bug: the refresh comes before the entries are removed.
LeaveBundleEarly ==
    /\ main = "idle" /\ transmits /\ InBundle # {}
    /\ bundleOf' = [c \in Channels |-> NoBundle]
    /\ services' = Refreshed(services, InBundle, bundleOf)
    /\ UNCHANGED <<serverVars, friendly, savedName, given, restarts>>

\* remove_flow: the entries, then a refresh.
LeaveBundle ==
    /\ main = "idle" /\ transmits /\ InBundle # {}
    /\ bundleOf' = [c \in Channels |-> NoBundle]
    /\ services' = Refreshed(services, InBundle, bundleOf')
    /\ UNCHANGED <<serverVars, friendly, savedName, given, restarts>>

NamesNext ==
    \/ SendStart \/ ClockReady \/ StartTransmitter \/ Yield \/ StopTransmitter
    \/ Restart \/ ArcServes
    \/ \E c \in Channels : \E name \in Labels : Rename(c, name)
    \/ \E cs \in SUBSET Channels \ {{}} : JoinBundle(cs)
    \/ LeaveBundle

NamesSpec == NamesInit /\ [][NamesNext]_namesVars

-----------------------------------------------------------------------------
(* Properties *)

\* The main task gets its command while it waits or runs; a record has a name
\* that some channel has or had (mdns_server.rs:97-145).
NamesTypeOK ==
    /\ main \in {"clock", "running", "idle"}
    /\ {command, arcServes, transmits} \subseteq BOOLEAN
    /\ friendly \in [Channels -> Labels] /\ given \in [Channels -> Labels]
    /\ savedName \in [Channels -> Labels \cup {Unnamed}]
    /\ bundleOf \in [Channels -> {Bundle, NoBundle}]
    /\ services \subseteq [name : Labels, id : Channels, bundle : {Bundle, NoBundle}]
    /\ restarts \in 0 .. MaxRestarts

\* While the transmitter runs and its user can be answered, a channel is found
\* under its factory name and under the name that the user gave it last, also
\* in an earlier life of the process, with the bundle it is in.  Nothing else is
\* found: no record of a former name, bundle or transmitter.
GivenNamesAreFound ==
    transmits /\ arcServes =>
        services = UNION {RecordsOf(c, given[c], bundleOf[c]) : c \in Channels}
=============================================================================
