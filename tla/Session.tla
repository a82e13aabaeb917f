------------------------------ MODULE Session ------------------------------
(***************************************************************************)
(* How a session comes up and goes down: `sonusgrid start` and `stop`      *)
(* (sonus-cli/src/runtime.rs), the two user units (src/systemd) and the    *)
(* hidden subcommands that the units execute, over the clock protocol of   *)
(* UsrvClock.  The clock unit runs Statime, which owns the server; the     *)
(* audio unit waits with a first client (`Waiter`), then becomes the       *)
(* bridge, whose engine has another one (`Engine`).                        *)
(*                                                                         *)
(* systemd's part, as the units use it: a Type=exec unit is "active" once  *)
(* its ExecStart runs; a unit that fails is "activating" until its restart *)
(* timer fires; when a start job fails in ExecStartPre the start jobs of   *)
(* the units that require it fail, too; restarting or stopping a unit      *)
(* restarts or stops those that require it.                                *)
(***************************************************************************)
EXTENDS UsrvClock

CONSTANTS
    Waiter,        \* the client of wait_for_clock
    Engine,        \* the client of the engine in the bridge
    Configs,       \* what config.toml may be, see ConfigKinds
    MaxCrashes,    \* how often a process may die by itself
    Overlap        \* may `stop` and `start` run at the same time?

ConfigKinds == {"valid", "noInterface", "invalid", "broken"}

ASSUME SessionAssumption ==
    /\ Waiter # Engine
    /\ Clients = {Waiter, Engine}
    /\ Configs \subseteq ConfigKinds
    /\ MaxCrashes \in Nat
    /\ Overlap \in BOOLEAN

VARIABLES
    nic,           \* does the interface have an IPv4 address?
    config,        \* what is in config.toml
    clock,         \* where the clock unit is
    audio,         \* where the audio unit is
    jobs,          \* units with a start job that has not run yet
    start,         \* where `sonusgrid start` is, or what it said at the end
    stopping,      \* where `sonusgrid stop` is
    refused,       \* the clock unit refused the config since `start` began
    wanted,        \* started, and the config has been valid since
    crashes        \* processes that died by themselves

unitVars == <<clock, audio, jobs>>
cliVars == <<start, stopping, refused>>
worldVars == <<nic, config, wanted, crashes>>
sessionVars == <<clockVars, unitVars, cliVars, worldVars>>

ClockActive == {"exec", "launch", "serving"}
AudioActive == {"setup", "waitClock", "opening", "running"}
Ended == {"idle", "bailed", "started", "later", "stuck", "failed"}

SessionInit ==
    /\ ClockInit
    /\ nic \in BOOLEAN
    /\ config \in Configs
    /\ clock = "inactive"
    /\ audio = "inactive"
    /\ jobs = {}
    /\ start = "idle"
    /\ stopping = "idle"
    /\ refused = FALSE
    /\ wanted = FALSE
    /\ crashes = 0

-----------------------------------------------------------------------------
(* Processes that end take their sockets with them; nothing unlinks files. *)

AudioDies ==
    /\ inbox' = {}
    /\ client' = [c \in Clients |-> "off"]
    /\ peer' = [c \in Clients |-> "none"]
    /\ reply' = [c \in Clients |-> FALSE]
    /\ queue' = [c \in Clients |-> 0]
    /\ heard' = [c \in Clients |-> FALSE]
    /\ UNCHANGED <<server, path, listed>>

BothDie ==
    /\ server' = "down"
    /\ path' = IF path = "live" THEN "stale" ELSE path
    /\ listed' = {}
    /\ inbox' = {}
    /\ client' = [c \in Clients |-> "off"]
    /\ peer' = [c \in Clients |-> "none"]
    /\ reply' = [c \in Clients |-> FALSE]
    /\ queue' = [c \in Clients |-> 0]
    /\ heard' = [c \in Clients |-> FALSE]

-----------------------------------------------------------------------------
(* The clock unit *)

RunClockJob ==
    /\ "clock" \in jobs
    /\ clock \in {"inactive", "failed"}
    /\ clock' = "check"
    /\ jobs' = jobs \ {"clock"}
    /\ UNCHANGED <<audio, clockVars, cliVars, worldVars>>

\* The start job fails, and with it that of the audio unit.
StartFails(next) ==
    /\ clock' = next
    /\ jobs' = jobs \ {"audio"}
    /\ UNCHANGED <<audio, clockVars, start, stopping, worldVars>>

\* ExecStartPre=sonusgrid config check: a bad config is EX_CONFIG, which
\* prevents a restart, a file that cannot be parsed is an error like others.
CheckConfig ==
    /\ clock = "check"
    /\ \/ /\ config = "valid"
          /\ clock' = "wait"
          /\ UNCHANGED <<audio, jobs, clockVars, cliVars, worldVars>>
       \/ /\ config \in {"noInterface", "invalid"}
          /\ StartFails("failed")
          /\ refused' = TRUE
       \/ /\ config = "broken"
          /\ StartFails("autoRestart")
          /\ UNCHANGED refused

WaitEnds ==
    /\ clock = "wait"
    /\ config # "broken"
    /\ clock' = "exec"
    /\ UNCHANGED <<audio, jobs, clockVars, cliVars, worldVars>>

WaitBroken ==
    /\ clock = "wait"
    /\ config = "broken"
    /\ StartFails("autoRestart")
    /\ UNCHANGED refused

\* A plausible bug: no address within the time is an error.
WaitNetworkStrict ==
    \/ WaitEnds /\ nic
    \/ clock = "wait" /\ ~nic /\ StartFails("autoRestart") /\ UNCHANGED refused
    \/ WaitBroken

\* ExecStartPre=_internal-wait-network always succeeds: the address is there,
\* or no interface is configured, or the time is over.
WaitNetwork == WaitEnds \/ WaitBroken

\* cleanup_usrvclock_sockets: the server's file and every client's.
CleanUp ==
    /\ path' = "none"
    /\ reply' = [c \in Clients |-> FALSE]
    /\ UNCHANGED <<server, inbox, listed, client, peer, queue, heard>>

\* _internal-statime-exec
StatimeExec ==
    /\ clock = "exec"
    /\ IF config = "broken"
       THEN clock' = "autoRestart" /\ UNCHANGED clockVars
       ELSE clock' = "launch" /\ CleanUp
    /\ UNCHANGED <<audio, jobs, cliVars, worldVars>>

\* Statime binds the interface's address and its sockets.  A socket file that
\* exists is AddrInUse: the observation socket's, which goes and comes with
\* the clock's.
StatimeLaunch ==
    /\ clock = "launch"
    /\ IF nic /\ path = "none"
       THEN clock' = "serving" /\ ServerNew
       ELSE clock' = "autoRestart" /\ UNCHANGED clockVars
    /\ UNCHANGED <<audio, jobs, cliVars, worldVars>>

StatimeCrash ==
    /\ clock = "serving"
    /\ crashes < MaxCrashes
    /\ crashes' = crashes + 1
    /\ clock' = "autoRestart"
    /\ ServerGone("stale")
    /\ UNCHANGED <<audio, jobs, cliVars, nic, config, wanted>>

\* A plausible bug: the audio unit only Wants= the clock unit.
ClockRestartsAlone ==
    /\ clock = "autoRestart"
    /\ clock' = "check"
    /\ UNCHANGED <<audio, jobs, clockVars, cliVars, worldVars>>

\* RestartSec=3, Restart=on-failure; Requires= restarts the audio unit, too,
\* unless it is inactive.
ClockRestarts ==
    /\ clock = "autoRestart"
    /\ clock' = "check"
    /\ IF audio \in AudioActive \cup {"autoRestart"}
       THEN /\ audio' = "inactive"
            /\ jobs' = jobs \cup {"audio"}
            /\ AudioDies
       ELSE UNCHANGED <<audio, jobs, clockVars>>
    /\ UNCHANGED <<cliVars, worldVars>>

ClockUnit ==
    \/ RunClockJob
    \/ CheckConfig
    \/ WaitNetwork
    \/ StatimeExec
    \/ StatimeLaunch
    \/ ClockRestarts

-----------------------------------------------------------------------------
(* The audio unit *)

\* After= and Requires=: not before the clock unit's own job is done.
RunAudioJob ==
    /\ "audio" \in jobs
    /\ audio = "inactive"
    /\ "clock" \notin jobs
    /\ clock \in ClockActive
    /\ audio' = "setup"
    /\ jobs' = jobs \ {"audio"}
    /\ UNCHANGED <<clock, clockVars, cliVars, worldVars>>

\* _internal-bridge-exec up to wait_for_clock: the ALSA configuration, the
\* PipeWire sink and source.
SetUp ==
    /\ audio = "setup"
    /\ IF config = "broken"
       THEN audio' = "autoRestart" /\ UNCHANGED clockVars
       ELSE audio' = "waitClock" /\ ClientStarts(Waiter)
    /\ UNCHANGED <<clock, jobs, cliVars, worldVars>>

\* Nothing keeps an overlay from the client.  The time limits (60 s and 5 s)
\* are far longer than an attempt (250 ms) and the time between two overlays:
\* they end only while this does not hold.
Served(c) ==
    /\ server = "up"
    /\ path = "live"
    /\ client[c] # "unbound" => reply[c]
    /\ client[c] \in {"hello", "receiving"} => peer[c] = "live"

\* The client has received an overlay, which may be a dead server's last one.
HasOverlay(c) == heard[c] \/ (client[c] = "receiving" /\ peer[c] = "dead")

\* wait_for_clock returns and the process becomes the bridge, whose engine
\* starts a client of its own.
WaitForClock ==
    /\ audio = "waitClock"
    /\ HasOverlay(Waiter) \/ ~Served(Waiter)
    /\ audio' = "opening"
    /\ inbox' = inbox \ {Waiter}
    /\ client' = [client EXCEPT ![Waiter] = "off", ![Engine] = "unbound"]
    /\ peer' = [peer EXCEPT ![Waiter] = "none"]
    /\ reply' = [reply EXCEPT ![Waiter] = FALSE]
    /\ queue' = [queue EXCEPT ![Waiter] = 0]
    /\ heard' = [heard EXCEPT ![Waiter] = FALSE]
    /\ UNCHANGED <<server, path, listed, clock, jobs, cliVars, worldVars>>

\* The bridge opens the ALSA device, which binds the interface's address and
\* waits for an overlay; without them it exits with an error.
OpenDevice ==
    /\ audio = "opening"
    /\ \/ HasOverlay(Engine) /\ nic /\ audio' = "running" /\ UNCHANGED clockVars
       \/ /\ ~nic \/ (~heard[Engine] /\ ~Served(Engine))
          /\ audio' = "autoRestart"
          /\ AudioDies
    /\ UNCHANGED <<clock, jobs, cliVars, worldVars>>

\* The bridge dies; or its threads give up and it ends, with status 0, which
\* is no failure to systemd.
BridgeEnds(next) ==
    /\ audio = "running"
    /\ crashes < MaxCrashes
    /\ crashes' = crashes + 1
    /\ audio' = next
    /\ AudioDies
    /\ UNCHANGED <<clock, jobs, cliVars, nic, config, wanted>>

\* Starting the audio unit starts the clock unit it requires.
StartAudio ==
    jobs' = jobs \cup {"audio"}
                 \cup IF clock \in {"inactive", "failed"} THEN {"clock"} ELSE {}

AudioRestarts ==
    /\ audio = "autoRestart"
    /\ audio' = "inactive"
    /\ StartAudio
    /\ UNCHANGED <<clock, clockVars, cliVars, worldVars>>

AudioUnit ==
    \/ RunAudioJob
    \/ SetUp
    \/ WaitForClock
    \/ OpenDevice
    \/ AudioRestarts

-----------------------------------------------------------------------------
(* `sonusgrid start` *)

\* load, preflight and reset-failed: a config without an interface or that
\* cannot be parsed is refused before systemd is touched.
StartBegins ==
    /\ start \in Ended
    /\ Overlap \/ stopping = "idle"
    /\ refused' = FALSE
    /\ IF config \in {"broken", "noInterface"}
       THEN start' = "bailed" /\ UNCHANGED clock
       ELSE /\ start' = "clock"
            /\ clock' = IF clock = "failed" THEN "inactive" ELSE clock
    /\ UNCHANGED <<stopping, audio, jobs, clockVars, worldVars>>

\* enable --now --no-block: a unit that waits for its restart goes on waiting.
EnableClock ==
    /\ start = "clock"
    /\ start' = "audio"
    /\ jobs' = jobs \cup IF clock \in {"inactive", "failed"} THEN {"clock"} ELSE {}
    /\ UNCHANGED <<stopping, refused, clock, audio, clockVars, worldVars>>

EnableAudio ==
    /\ start = "audio"
    /\ start' = "watch"
    /\ IF audio = "inactive" THEN StartAudio ELSE UNCHANGED jobs
    /\ wanted' = (config = "valid")
    /\ UNCHANGED <<stopping, refused, clock, audio, clockVars, nic, config, crashes>>

\* wait_units_active: "active" twice, 1.5 s apart; or the time is over.
BothActive == clock \in ClockActive /\ audio \in AudioActive

WatchUnits ==
    /\ \/ /\ start = "watch"
          /\ start' \in IF clock = "failed" THEN {"failed"}
                        ELSE IF BothActive THEN {"settle"}
                        ELSE {IF clock = "inactive" THEN "stuck" ELSE "later"}
       \/ /\ start = "settle"
          /\ start' = IF BothActive THEN "started" ELSE "watch"
    /\ UNCHANGED <<stopping, refused, unitVars, clockVars, worldVars>>

-----------------------------------------------------------------------------
(* `sonusgrid stop` *)

StopAudio ==
    /\ stopping = "idle"
    /\ Overlap \/ start \in Ended
    /\ stopping' = "clock"
    /\ audio' = "inactive"
    /\ jobs' = jobs \ {"audio"}
    /\ wanted' = FALSE
    /\ AudioDies
    /\ UNCHANGED <<clock, start, refused, nic, config, crashes>>

\* Stopping the clock unit stops the audio unit that requires it.
StopClock ==
    /\ stopping = "clock"
    /\ stopping' = "cleanup"
    /\ clock' = IF clock = "failed" THEN clock ELSE "inactive"
    /\ audio' = "inactive"
    /\ jobs' = {}
    /\ wanted' = FALSE
    /\ BothDie
    /\ UNCHANGED <<start, refused, nic, config, crashes>>

\* reset-failed and cleanup_usrvclock_sockets
StopCleansUp ==
    /\ stopping = "cleanup"
    /\ stopping' = "idle"
    /\ clock' = IF clock = "failed" THEN "inactive" ELSE clock
    /\ CleanUp
    /\ UNCHANGED <<audio, jobs, start, refused, worldVars>>

-----------------------------------------------------------------------------
(* The world *)

NetworkChanges ==
    /\ nic' = ~nic
    /\ UNCHANGED <<config, wanted, crashes, unitVars, clockVars, cliVars>>

\* The user edits config.toml.
EditConfig(c) ==
    /\ c # config
    /\ config' = c
    /\ wanted' = (wanted /\ c = "valid")
    /\ UNCHANGED <<nic, crashes, unitVars, clockVars, cliVars>>

ClockProtocol ==
    /\ Send \/ \E c \in Clients : ClientStep(c)
    /\ UNCHANGED <<unitVars, cliVars, worldVars>>

SessionNext ==
    \/ ClockUnit
    \/ StatimeCrash
    \/ AudioUnit
    \/ BridgeEnds("autoRestart")
    \/ BridgeEnds("ended")
    \/ StartBegins
    \/ EnableClock
    \/ EnableAudio
    \/ WatchUnits
    \/ StopAudio
    \/ StopClock
    \/ StopCleansUp
    \/ NetworkChanges
    \/ \E c \in Configs : EditConfig(c)
    \/ ClockProtocol

SessionFairness ==
    /\ WF_sessionVars(ClockUnit)
    /\ WF_sessionVars(AudioUnit)
    /\ WF_sessionVars(Send /\ UNCHANGED <<unitVars, cliVars, worldVars>>)
    /\ \A c \in Clients :
        WF_sessionVars(ClientStep(c) /\ UNCHANGED <<unitVars, cliVars, worldVars>>)

SessionSpec == SessionInit /\ [][SessionNext]_sessionVars /\ SessionFairness

-----------------------------------------------------------------------------
(* Properties *)

\* The type invariant: among others, the server runs exactly while the clock
\* unit serves, and a client only in the audio unit's phase it belongs to.
SessionTypeOK ==
    /\ ClockTypeOK
    /\ nic \in BOOLEAN
    /\ config \in Configs
    /\ clock \in ClockActive \cup {"inactive", "check", "wait", "autoRestart", "failed"}
    /\ audio \in AudioActive \cup {"inactive", "autoRestart", "ended"}
    /\ jobs \subseteq {"clock", "audio"}
    /\ start \in Ended \cup {"clock", "audio", "watch", "settle"}
    /\ stopping \in {"idle", "clock", "cleanup"}
    /\ refused \in BOOLEAN
    /\ wanted \in BOOLEAN
    /\ crashes \in 0 .. MaxCrashes
    /\ server = "up" <=> clock = "serving"
    /\ client[Waiter] # "off" <=> audio = "waitClock"
    /\ client[Engine] # "off" <=> audio \in {"opening", "running"}

\* runtime.rs:582-587, "SonusGrid never starts after reboot": once it is wanted
\* with a config that stays valid, an address that comes however late and
\* processes that die on the way only delay it.  (A bridge whose threads have
\* given up has ended, see Bridge.)
ComesUp ==
    <>[](wanted /\ nic) => <>[](audio \in {"running", "ended"})

\* Whatever was restarted, the bridge that runs ends up with the overlays of
\* the server that runs, although a client never notices that its server has
\* gone: sonusgrid-audio.service requires the clock's unit.
BridgeFollowsClock ==
    <>[](wanted /\ nic) => <>[](audio = "running" => heard[Engine])

\* runtime.rs:10-13: `start` clears a "failed" state first, so that a unit it
\* reports as failed was refused since, not before.
FailureIsOfThisStart == start = "failed" => refused

\* config.rs:221-223: "so a broken/empty config doesn't turn into an endless
\* 3-second restart loop".
BrokenConfigGivesUp ==
    <>[](config = "broken") => <>[](clock # "autoRestart")

\* runtime.rs:243-245: the moment between the two looks lets the bridge open
\* its device "before we declare victory".
StartedHasOpened ==
    [][start' = "started" /\ start # "started" => audio = "running"]_sessionVars

=============================================================================
