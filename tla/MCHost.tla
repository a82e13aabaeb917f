------------------------------- MODULE MCHost -------------------------------
(***************************************************************************)
(* For TLC, the three parts of a host that have no state in common: the    *)
(* units and the protocol of the clock (module Session), the threads of    *)
(* the bridge (Bridge) and its faders (Mixer).  A behaviour is one of the  *)
(* three, so that a run explores the sum of their state spaces and not the *)
(* product.                                                                *)
(***************************************************************************)
EXTENDS Bridge, Mixer, Session

CONSTANT MaxBroken  \* bound: how many of its four neighbours fail the bridge at once

VARIABLE part       \* which of the three moves

hostVars == <<vars, mixerVars, sessionVars, part>>

\* What does not move starts in one state only: threads without a JACK server
\* to serve, faders without a file, units with a valid config.
HostInit ==
    /\ Init /\ MixerInit /\ SessionInit
    /\ part \in {"threads", "faders", "units"}
    /\ part # "threads" => jack = "none"
    /\ part # "faders" => file = NoFile
    /\ part # "units" => nic /\ config = "valid"

Broken ==
    {d \in {<<"pulse", pulse, "ok">>, <<"playback", playback, "ok">>,
            <<"capture", capture, "ok">>, <<"fifo", fifo, "reading">>} : d[2] # d[3]}

OfThreads(action) ==
    /\ part = "threads"
    /\ action
    /\ Cardinality(Broken') <= MaxBroken
    /\ UNCHANGED <<mixerVars, sessionVars, part>>

OfFaders(action)  == part = "faders" /\ action /\ UNCHANGED <<vars, sessionVars, part>>
OfUnits(action)   == part = "units" /\ action /\ UNCHANGED <<vars, mixerVars, part>>

HostNext == OfThreads(Next) \/ OfFaders(MixerNext) \/ OfUnits(SessionNext)

\* The fairness of FairSpec, FairMixerSpec and SessionSpec.
FairHostSpec ==
    /\ HostInit /\ [][HostNext]_hostVars
    /\ WF_hostVars(OfThreads(TxNext))
    /\ WF_hostVars(OfThreads(RxNext))
    /\ WF_hostVars(OfThreads(JackNext))
    /\ WF_hostVars(OfThreads(MainNext))
    /\ WF_hostVars(OfThreads(ServiceRestarts))
    /\ WF_hostVars(OfFaders(Age))
    /\ WF_hostVars(OfFaders(Touch))
    /\ WF_hostVars(OfFaders(MetersNext))
    /\ \A s \in Savers : WF_hostVars(OfFaders(SaveState(s)))
    /\ WF_hostVars(OfUnits(ClockUnit))
    /\ WF_hostVars(OfUnits(AudioUnit))
    /\ WF_hostVars(OfUnits(Send /\ UNCHANGED <<unitVars, cliVars, worldVars>>))
    /\ \A c \in Clients :
           WF_hostVars(OfUnits(ClientStep(c) /\ UNCHANGED <<unitVars, cliVars, worldVars>>))
=============================================================================
