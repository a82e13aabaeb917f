------------------------------- MODULE Mixer -------------------------------
(***************************************************************************)
(* sonusgrid-bridge/src/mixer.rs: the faders and mutes of the bridge, the  *)
(* thread that serves the control socket, the meters thread that saves     *)
(* what was changed, and the file that the next start reads.               *)
(*                                                                         *)
(* Gains and mutes are atomics of their own: a command stores one of them  *)
(* and then marks the mixer dirty (touch), and save_state reads them one   *)
(* after the other.  Both threads save through the same temporary file,    *)
(* which a write that fails leaves behind, cut or half overwritten.        *)
(* A fader stands for one line of the file (a gain or a mute); its levels  *)
(* are numbers, the loudest being what Mixer::new starts with.             *)
(***************************************************************************)
EXTENDS Integers, Sequences

CONSTANTS
    Faders,          \* number of lines of the file
    Loudest,         \* 0 dB, not muted; 0 is silence
    SaveCommands     \* TRUE: `save` is sent to the control socket, too

ASSUME FadersAssumption == Faders \in Nat \ {0}
ASSUME LoudestAssumption == Loudest \in Nat
ASSUME SaveCommandsAssumption == SaveCommands \in BOOLEAN

Levels == 0 .. Loudest
Settings == [1 .. Faders -> Levels]
Default == [f \in 1 .. Faders |-> Loudest]      \* Mixer::new

Savers == {"meters", "control"}                 \* the threads of serve()
Snapshots == UNION {[1 .. n -> Levels] : n \in 0 .. Faders}
Empty == <<>>                                   \* a file just created
NoFile == <<-1>>                                \* the file does not exist
Contents == Snapshots \cup {NoFile}

VARIABLES
    setting,     \* the atomics: what the audio threads take as targets
    dirty,       \* "clean" (0), "fresh", or "aged": changed over 500 ms ago
    step,        \* where each saver is
    snapshot,    \* the values that a saver has read so far
    handle,      \* the file that a saver has open: "tmp", "file" or "unlinked"
    tmp,         \* content of mixer.toml.tmp
    file,        \* content of mixer.toml
    failed,      \* a save has failed, and since then no other one has created
                 \* the temporary file and renamed it
    crossed      \* savers that had already created it when that save failed

mixerVars == <<setting, dirty, step, snapshot, handle, tmp, file, failed, crossed>>

savers == <<step, snapshot, handle>>
failures == <<failed, crossed>>

\* load_state: a line that is missing leaves its default.
Loaded(content) ==
    IF content = NoFile THEN Default
    ELSE [f \in 1 .. Faders |-> IF f <= Len(content) THEN content[f] ELSE Loudest]

MixerInit ==
    /\ file \in Settings \cup {NoFile}
    /\ setting = Loaded(file)
    /\ dirty = "clean"
    /\ step = [s \in Savers |-> "idle"]
    /\ snapshot = [s \in Savers |-> <<>>]
    /\ handle = [s \in Savers |-> "unlinked"]
    /\ tmp = NoFile
    /\ failed = FALSE
    /\ crossed = {}

-----------------------------------------------------------------------------
(* The control socket: Mixer::handle *)

\* set, mute, master and mmute store their value ...
SetLevel(f, level) ==
    /\ step["control"] = "idle"
    /\ setting' = [setting EXCEPT ![f] = level]
    /\ step' = [step EXCEPT !["control"] = "touch"]
    /\ UNCHANGED <<dirty, snapshot, handle, tmp, file, failures>>

\* A plausible bug: one of the commands does not mark the mixer.
TouchForgotten ==
    /\ step["control"] = "touch"
    /\ step' = [step EXCEPT !["control"] = "idle"]
    /\ UNCHANGED <<setting, dirty, snapshot, handle, tmp, file, failures>>

\* ... and then touch().
Touch ==
    /\ step["control"] = "touch"
    /\ dirty' = "fresh"
    /\ step' = [step EXCEPT !["control"] = "idle"]
    /\ UNCHANGED <<setting, snapshot, handle, tmp, file, failures>>

\* `save` leaves the mark alone.
SaveCommand ==
    /\ SaveCommands
    /\ step["control"] = "idle"
    /\ step' = [step EXCEPT !["control"] = "read"]
    /\ snapshot' = [snapshot EXCEPT !["control"] = <<>>]
    /\ UNCHANGED <<setting, dirty, handle, tmp, file, failures>>

-----------------------------------------------------------------------------
(* The meters thread: every 10 ms it looks whether a change is old enough. *)

\* 500 ms pass without another touch.
Age ==
    /\ dirty = "fresh"
    /\ dirty' = "aged"
    /\ UNCHANGED <<setting, savers, tmp, file, failures>>

\* The mark and the time of the last save are looked at ...
MetersCheck ==
    /\ step["meters"] = "idle"
    /\ dirty = "aged"
    /\ step' = [step EXCEPT !["meters"] = "clear"]
    /\ UNCHANGED <<setting, dirty, snapshot, handle, tmp, file, failures>>

\* ... and the mark is cleared before the faders are read.
MetersClear ==
    /\ step["meters"] = "clear"
    /\ dirty' = "clean"
    /\ step' = [step EXCEPT !["meters"] = "read"]
    /\ snapshot' = [snapshot EXCEPT !["meters"] = <<>>]
    /\ UNCHANGED <<setting, handle, tmp, file, failures>>

-----------------------------------------------------------------------------
(* save_state, in either thread *)

\* One line of the file is formatted.
ReadFader(s) ==
    /\ step[s] = "read"
    /\ Len(snapshot[s]) < Faders
    /\ snapshot' = [snapshot EXCEPT ![s] = Append(@, setting[Len(@) + 1])]
    /\ UNCHANGED <<setting, dirty, step, handle, tmp, file, failures>>

\* fs::write first creates or truncates the temporary file ...
CreateTmp(s) ==
    /\ step[s] = "read"
    /\ Len(snapshot[s]) = Faders
    /\ tmp' = Empty
    /\ handle' = [handle EXCEPT ![s] = "tmp"]
    /\ step' = [step EXCEPT ![s] = "write"]
    /\ UNCHANGED <<setting, dirty, snapshot, file, failures>>

\* What writing all lines of `new` leaves of a file: the end of a longer content
\* stays, and load_state reads it last.
Overlays(old, new) ==
    {[f \in 1 .. Faders |-> IF f > n /\ f <= Len(old) THEN old[f] ELSE new[f]] :
         n \in 1 .. Faders}

\* What it leaves when it fails after n lines: the next line is cut anywhere, and
\* after it comes what was there.
Torn(old, new) ==
    {c \in Snapshots :
        /\ Len(c) >= Len(old)
        /\ \E n \in 0 .. Len(c) : \A f \in 1 .. Len(c) :
              /\ f <= n => c[f] = new[f]
              /\ f > n + 1 => f <= Len(old) /\ c[f] = old[f]}

\* ... and then writes all lines, wherever the file may be by now.
WriteTmp(s) ==
    /\ step[s] = "write"
    /\ \/ handle[s] = "tmp" /\ tmp' \in Overlays(tmp, snapshot[s]) /\ UNCHANGED file
       \/ handle[s] = "file" /\ file' \in Overlays(file, snapshot[s]) /\ UNCHANGED tmp
       \/ handle[s] = "unlinked" /\ UNCHANGED <<tmp, file>>
    /\ handle' = [handle EXCEPT ![s] = "unlinked"]          \* closed
    /\ step' = [step EXCEPT ![s] = "rename"]
    /\ UNCHANGED <<setting, dirty, snapshot, failures>>

\* Between the creation of the temporary file and its renaming.
Saving(s) == step[s] \in {"write", "rename"}

\* The save is over, and nothing is done again.
Returns(s) ==
    /\ step' = [step EXCEPT ![s] = "idle"]
    /\ snapshot' = [snapshot EXCEPT ![s] = <<>>]

SaveFailed(s) ==
    /\ failed' = TRUE
    /\ crossed' = {t \in Savers \ {s} : Saving(t)}

SaveSucceeded(s) ==
    /\ failed' = (failed /\ s \in crossed)
    /\ crossed' = crossed \ {s}

\* Where an open file is after tmp has been renamed to the real name.
Moved(h) == IF h = "tmp" THEN "file" ELSE "unlinked"

\* A plausible bug: the mark is cleared when the save is over.
RenameTmpClears(s) ==
    /\ step[s] = "rename"
    /\ tmp # NoFile
    /\ file' = tmp
    /\ tmp' = NoFile
    /\ handle' = [t \in Savers |-> Moved(handle[t])]
    /\ dirty' = "clean"
    /\ SaveSucceeded(s)
    /\ Returns(s)
    /\ UNCHANGED setting

\* rename replaces the file at once, by whatever the temporary file holds.
RenameTmp(s) ==
    /\ step[s] = "rename"
    /\ tmp # NoFile
    /\ file' = tmp
    /\ tmp' = NoFile
    /\ handle' = [t \in Savers |-> Moved(handle[t])]
    /\ SaveSucceeded(s)
    /\ Returns(s)
    /\ UNCHANGED <<setting, dirty>>

\* The temporary file cannot be created, is not written to its end, or cannot be
\* renamed, for one because the other saver has taken it away: save_state warns
\* and returns.  The mark stays clear.
CreateFails(s) ==
    /\ step[s] = "read"
    /\ Len(snapshot[s]) = Faders
    /\ UNCHANGED <<tmp, file>>

WriteFails(s) ==
    /\ step[s] = "write"
    /\ \/ handle[s] = "tmp" /\ tmp' \in Torn(tmp, snapshot[s]) /\ UNCHANGED file
       \/ handle[s] = "file" /\ file' \in Torn(file, snapshot[s]) /\ UNCHANGED tmp
       \/ handle[s] = "unlinked" /\ UNCHANGED <<tmp, file>>

RenameFails(s) ==
    /\ step[s] = "rename"
    /\ UNCHANGED <<tmp, file>>

SaveFails(s) ==
    /\ CreateFails(s) \/ WriteFails(s) \/ RenameFails(s)
    /\ handle' = [handle EXCEPT ![s] = "unlinked"]          \* closed
    /\ SaveFailed(s)
    /\ Returns(s)
    /\ UNCHANGED <<setting, dirty>>

-----------------------------------------------------------------------------
\* The process ends, asked to or not, and is started again: main() saves
\* nothing on its way out, and Mixer::new loads the file.
Restart ==
    /\ setting' = Loaded(file)
    /\ dirty' = "clean"
    /\ step' = [s \in Savers |-> "idle"]
    /\ snapshot' = [s \in Savers |-> <<>>]
    /\ handle' = [s \in Savers |-> "unlinked"]
    /\ failed' = FALSE
    /\ crossed' = {}
    /\ UNCHANGED <<tmp, file>>

ControlNext ==
    \/ \E f \in 1 .. Faders, level \in Levels : SetLevel(f, level)
    \/ Touch
    \/ SaveCommand

MetersNext == MetersCheck \/ MetersClear

SaveState(s) ==
    \/ ReadFader(s)
    \/ CreateTmp(s)
    \/ WriteTmp(s)
    \/ RenameTmp(s)
    \/ SaveFails(s)

MixerNext ==
    \/ ControlNext
    \/ Age
    \/ MetersNext
    \/ \E s \in Savers : SaveState(s)
    \/ Restart

MixerSpec == MixerInit /\ [][MixerNext]_mixerVars

\* The two threads go on and time passes; nobody has to move a fader.
FairMixerSpec ==
    /\ MixerSpec
    /\ WF_mixerVars(Age)
    /\ WF_mixerVars(Touch)
    /\ WF_mixerVars(MetersNext)
    /\ \A s \in Savers : WF_mixerVars(SaveState(s))

-----------------------------------------------------------------------------
(* Properties *)

MixerTypeOK ==
    /\ setting \in Settings
    /\ dirty \in {"clean", "fresh", "aged"}
    /\ step \in [Savers -> {"idle", "touch", "clear", "read", "write", "rename"}]
    /\ step["meters"] # "touch" /\ step["control"] # "clear"
    /\ snapshot \in [Savers -> Snapshots]
    /\ handle \in [Savers -> {"tmp", "file", "unlinked"}]
    /\ \A s \in Savers :
          /\ Saving(s) => snapshot[s] \in Settings
          /\ handle[s] # "unlinked" => step[s] = "write"
    /\ tmp \in Contents
    /\ file \in Contents
    /\ failed \in BOOLEAN
    /\ \A s \in crossed : s \in Savers /\ Saving(s)

Quiet == dirty = "clean" /\ \A s \in Savers : step[s] = "idle"

\* mixer.rs clears `dirty` before it reads the faders, and both savers truncate
\* the temporary file before they write it: whenever nothing is marked, nobody is
\* at work and every save that failed was followed by one that created its file
\* after that and renamed it, a restart finds exactly what the user set, whatever
\* changes, saves and half-written files crossed each other.
SavedWhenClean == Quiet /\ ~failed => Loaded(file) = setting

\* The debounced save catches the last change: when the user leaves the faders
\* alone and a save has gone through since the last one that failed, the file has
\* them in the end, and keeps them.
ChangesAreSaved ==
    (<>[](step["control"] = "idle" /\ ~failed) /\ <>[][~Restart]_mixerVars) => <>[](Loaded(file) = setting)

\* mixer.rs:14: "State (gains/mutes) is persisted to a TOML-ish key=value file
\* so a restart never comes back louder than the user left it."
NeverLouder == [][Restart => \A f \in 1 .. Faders : setting'[f] <= setting[f]]_mixerVars

\* The temporary file is there so that the real one is never seen half-written.
FileIsComplete == file \in Settings \cup {NoFile}

\* And never stays half-written when both savers are done.
RestIsComplete == Quiet => file \in Settings \cup {NoFile}

=============================================================================
