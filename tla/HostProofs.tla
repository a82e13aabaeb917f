----------------------------- MODULE HostProofs -----------------------------
(***************************************************************************)
(* The processes beside the engine.  Safety of the bridge's rings and      *)
(* threads for any number of channels, any ring, any period and any limit  *)
(* of errors, and of its saved faders for any number of lines and levels.  *)
(* The clock protocol loses no client, for any number of clients and any   *)
(* socket, alone and under the units, which kill processes and remove      *)
(* files at any time; and what the units, the processes and `sonusgrid     *)
(* start` know of each other is true, for any number of crashes and with   *)
(* `start` and `stop` at the same time.                                    *)
(***************************************************************************)
EXTENDS Bridge, Mixer, Session, FiniteSetTheorems, SequenceTheorems, TLAPS

-----------------------------------------------------------------------------
(* The rings *)

Actors == Threads \cup {"jack"}

Places == {"start", "refused", "head", "read", "mix", "write", "push", "drop",
           "again", "fifo", "finished"}

\* The rings and what goes through them have their types, and a writer that has
\* made room finds it: only the other side moves the ring, and it only pops.
RingsInv ==
    /\ at \in [Threads -> Places]
    /\ channel \in [Actors -> Channel]
    /\ frame \in [Actors -> 1 .. Frames]
    /\ jack \in {"none", "idle", "push", "drop", "again", "pull"}
    /\ txRing \in [Channel -> 0 .. RingSize]
    /\ rxRing \in [Channel -> 0 .. RingSize]
    /\ LatestSampleWins

\* The states in which a process starts and ends.
LEMMA EmptyRingsInv ==
    /\ Init => RingsInv
    /\ Started => RingsInv'
    /\ \A status : RingsInv /\ Ends(status) => RingsInv'
<1> USE ChannelsAssumption, RingSizeAssumption, FramesAssumption
    DEF RingsInv, LatestSampleWins, Threads, Actors, Places, Channel, EmptyRings
<1>1. Init => RingsInv
  BY DEF Init
<1>2. Started => RingsInv'
  BY DEF Started, Cleared
<1>3. ASSUME NEW status, RingsInv, Ends(status)
      PROVE  RingsInv'
  BY <1>3 DEF Ends, Cleared
<1>4. QED
  BY <1>1, <1>2, <1>3

\* The loops' cursors stay in their ranges, and move for one actor alone.
LEMMA CursorsType ==
    ASSUME RingsInv, NEW a \in Actors, ByFrame(a) \/ ByChannel(a)
    PROVE  /\ channel' \in [Actors -> Channel]
           /\ frame' \in [Actors -> 1 .. Frames]
           /\ \A b \in Actors : b # a => channel'[b] = channel[b]
<1> USE ChannelsAssumption, FramesAssumption DEF RingsInv, Channel
<1>1. /\ channel \in [Actors -> Channel] /\ channel[a] \in Channel
      /\ frame \in [Actors -> 1 .. Frames] /\ frame[a] \in 1 .. Frames
  OBVIOUS
<1>2. \E c \in Channel : channel' = [channel EXCEPT ![a] = c]
  BY <1>1 DEF ByFrame, ByChannel
<1>3. \E f \in 1 .. Frames : frame' = [frame EXCEPT ![a] = f]
  BY <1>1 DEF ByFrame, ByChannel
<1>4. QED
  BY <1>1, <1>2, <1>3

\* A step that moves neither the rings nor the cursors nor the callback, and
\* takes neither writer to its second push, keeps the invariant.
LEMMA RingsUntouched ==
    ASSUME RingsInv, UNCHANGED <<rings, cursors, jack>>, at' \in [Threads -> Places],
           at'["rx"] = "again" => at["rx"] = "again"
    PROVE  RingsInv'
  BY DEF RingsInv, LatestSampleWins, rings, cursors

LEMMA NextRingsInv == RingsInv /\ [Next]_vars => RingsInv'
<1> SUFFICES ASSUME RingsInv, [Next]_vars
             PROVE  RingsInv'
  OBVIOUS
<1> USE RingSizeAssumption DEF Threads, Places, Actors, Goes
<1>1. ASSUME NEW t \in Threads, ThreadStart(t) \/ LoopHead(t)
      PROVE  RingsInv'
  BY <1>1, RingsUntouched DEF ThreadStart, LoopHead, RingsInv
<1>2. CASE TxRead \/ TxReadFails \/ TxWrite
  BY <1>2, RingsUntouched DEF TxRead, TxReadFails, TxWrite, RingsInv
<1>3. CASE RxRead \/ RxRecover \/ RxGone \/ RxWriteFifo
  BY <1>3, RingsUntouched DEF RxRead, RxRecover, RxGone, RxWriteFifo, RingsInv
<1>4. CASE TxMix
  <2>1. /\ channel' \in [Actors -> Channel]
        /\ frame' \in [Actors -> 1 .. Frames]
        /\ channel'["rx"] = channel["rx"] /\ channel'["jack"] = channel["jack"]
    BY <1>4, CursorsType DEF TxMix
  <2>2. /\ txRing' \in [Channel -> 0 .. RingSize]
        /\ \A c \in Channel : txRing'[c] <= txRing[c]
    BY <1>4 DEF TxMix, RingsInv, Popped
  <2>3. at' \in [Threads -> Places] /\ at'["rx"] = at["rx"]
    BY <1>4 DEF TxMix, RingsInv
  <2>4. QED
    BY <1>4, <2>1, <2>2, <2>3 DEF TxMix, RingsInv, LatestSampleWins
<1>5. CASE RxPush \/ RxAgain
  <2>1. CASE RxPushed /\ jack' = jack /\ txRing' = txRing
    <3>1. /\ channel' \in [Actors -> Channel]
          /\ frame' \in [Actors -> 1 .. Frames]
          /\ channel'["jack"] = channel["jack"]
      BY <2>1, CursorsType DEF RxPushed
    <3>2. rxRing' \in [Channel -> 0 .. RingSize]
      BY <1>5 DEF RxPush, RxAgain, RingsInv, cursors
    <3>3. at' \in [Threads -> Places] /\ at'["rx"] # "again"
      BY <2>1 DEF RxPushed, RingsInv
    <3>4. QED
      BY <2>1, <3>1, <3>2, <3>3 DEF RingsInv, LatestSampleWins
  <2>2. CASE Goes("rx", "drop") /\ UNCHANGED <<rings, cursors, jack>>
    BY <2>2, RingsUntouched DEF RingsInv
  <2>3. QED
    BY <1>5, <2>1, <2>2 DEF RxPush, RxAgain, rings
<1>6. CASE RxDrop
  <2>1. /\ rxRing' \in [Channel -> 0 .. RingSize]
        /\ rxRing'[channel["rx"]] < RingSize
    BY <1>6 DEF RxDrop, RingsInv, Popped
  <2>2. at' \in [Threads -> Places]
    BY <1>6 DEF RxDrop, RingsInv
  <2>3. QED
    BY <1>6, <2>1, <2>2 DEF RxDrop, RingsInv, LatestSampleWins, cursors
<1>7. CASE JackBegin
  BY <1>7 DEF JackBegin, RingsInv, LatestSampleWins, rings, cursors, loops
<1>8. CASE JackPush \/ JackAgain
  <2>1. CASE JackPushed /\ at' = at /\ rxRing' = rxRing
    <3>1. /\ channel' \in [Actors -> Channel]
          /\ frame' \in [Actors -> 1 .. Frames]
          /\ channel'["rx"] = channel["rx"]
      BY <2>1, CursorsType DEF JackPushed
    <3>2. txRing' \in [Channel -> 0 .. RingSize]
      BY <1>8 DEF JackPush, JackAgain, RingsInv, cursors
    <3>3. jack' \in {"pull", "push"}
      BY <2>1 DEF JackPushed
    <3>4. QED
      BY <2>1, <3>1, <3>2, <3>3 DEF RingsInv, LatestSampleWins
  <2>2. CASE jack' = "drop" /\ UNCHANGED <<rings, cursors, at>>
    BY <2>2 DEF RingsInv, LatestSampleWins, rings, cursors
  <2>3. QED
    BY <1>8, <2>1, <2>2 DEF JackPush, JackAgain, rings, loops
<1>9. CASE JackDrop
  <2>1. /\ txRing' \in [Channel -> 0 .. RingSize]
        /\ txRing'[channel["jack"]] < RingSize
    BY <1>9 DEF JackDrop, RingsInv, Popped
  <2>2. QED
    BY <1>9, <2>1 DEF JackDrop, RingsInv, LatestSampleWins, cursors, loops
<1>10. CASE JackPull
  <2>1. /\ channel' \in [Actors -> Channel]
        /\ frame' \in [Actors -> 1 .. Frames]
        /\ channel'["rx"] = channel["rx"]
    BY <1>10, CursorsType DEF JackPull
  <2>2. /\ rxRing' \in [Channel -> 0 .. RingSize]
        /\ \A c \in Channel : rxRing'[c] <= rxRing[c]
    BY <1>10 DEF JackPull, RingsInv, Popped
  <2>3. QED
    BY <1>10, <2>1, <2>2 DEF JackPull, RingsInv, LatestSampleWins, loops
<1>11. CASE MainNext \/ Signal \/ Fails
  BY <1>11, RingsUntouched, EmptyRingsInv
  DEF MainNext, MainStops, MainGivesUp, Signal, Fails, RingsInv, loops
<1>12. CASE ServiceRestarts \/ ServiceStarts
  BY <1>12, EmptyRingsInv DEF ServiceRestarts, ServiceStarts
<1>13. CASE PulseDies \/ PulseReturns \/ PlaybackFails \/ CaptureFails \/ PipeSource
  BY <1>13, RingsUntouched
  DEF PulseDies, PulseReturns, PlaybackFails, CaptureFails, PipeSource, RingsInv, loops
<1>14. CASE UNCHANGED vars
  BY <1>14, RingsUntouched DEF vars, RingsInv, rings, cursors
<1>15. QED
  BY <1>1, <1>2, <1>3, <1>4, <1>5, <1>6, <1>7, <1>8, <1>9, <1>10, <1>11,
     <1>12, <1>13, <1>14
  DEF Next, TxNext, RxNext, JackNext

\* "Drop oldest and try again so the latest sample wins" (main.rs:408): with any
\* ring and any number of channels, the second push of the RX thread and of the
\* JACK callback finds room, wherever the reader of the ring is.
THEOREM LatestSample == Spec => []LatestSampleWins
<1>1. RingsInv => LatestSampleWins
  BY DEF RingsInv
<1>2. QED
  BY <1>1, EmptyRingsInv, NextRingsInv, PTL DEF Spec

-----------------------------------------------------------------------------
(* The threads *)

\* How often a thread can have passed the head of its loop since it waited: the
\* TX thread once; the RX thread once more, if it has recovered from an xrun.
ThreadsInv ==
    /\ at \in [Threads -> Places]
    /\ at["tx"] \notin {"push", "drop", "again", "fifo"}
    /\ at["rx"] \notin {"mix", "write"}
    /\ pulse \in {"ok", "dead"}
    /\ playback \in {"ok", "xrun", "gone"}
    /\ capture \in {"ok", "xrun", "gone"}
    /\ fifo \in {"reading", "full", "closed"}
    /\ pulseErrors \in 0 .. MaxPulseErrors + 1
    /\ pulseErrors > MaxPulseErrors => at["tx"] = "finished"
    /\ unblocked \in [Threads -> Nat]
    /\ unblocked["tx"] <= 1
    /\ at["tx"] \in {"start", "head", "mix", "write"} => unblocked["tx"] = 0
    /\ unblocked["rx"] <= 2
    /\ capture # "ok" => unblocked["rx"] <= 1
    /\ at["rx"] = "head" => unblocked["rx"] <= 1
    /\ at["rx"] = "head" /\ capture # "ok" => unblocked["rx"] = 0
    /\ at["rx"] \in {"start", "push", "drop", "again", "fifo"} => unblocked["rx"] = 0

LEMMA StartedThreadsInv ==
    /\ Init => ThreadsInv
    /\ ThreadsInv /\ Started /\ UNCHANGED devices => ThreadsInv'
    /\ \A status : ThreadsInv /\ Ends(status) => ThreadsInv'
  BY MaxPulseErrorsAssumption
  DEF Init, Started, Ends, Cleared, devices, ThreadsInv, Threads, Places

LEMMA NextThreadsInv == ThreadsInv /\ [Next]_vars => ThreadsInv'
<1> SUFFICES ASSUME ThreadsInv, [Next]_vars
             PROVE  ThreadsInv'
  OBVIOUS
<1> USE MaxPulseErrorsAssumption
    DEF ThreadsInv, Threads, Places, Goes, Waits, devices
<1>1. CASE UNCHANGED <<at, unblocked, pulseErrors, pulse, playback, capture, fifo>>
  BY <1>1
<1>2. ASSUME NEW t \in Threads, ThreadStart(t)
      PROVE  ThreadsInv'
  BY <1>2 DEF ThreadStart
<1>3. ASSUME NEW t \in Threads, LoopHead(t)
      PROVE  ThreadsInv'
  <2>1. CASE t = "tx"
    BY <1>3, <2>1 DEF LoopHead
  <2>2. CASE t = "rx"
    BY <1>3, <2>2 DEF LoopHead
  <2>3. QED
    BY <2>1, <2>2
<1>4. CASE TxRead \/ TxReadFails
  BY <1>4 DEF TxRead, TxReadFails
<1>5. CASE TxMix \/ TxWrite
  BY <1>5 DEF TxMix, TxWrite
<1>6. CASE RxRead \/ RxRecover \/ RxGone
  BY <1>6 DEF RxRead, RxRecover, RxGone
<1>7. CASE RxPush \/ RxDrop \/ RxAgain \/ RxWriteFifo
  BY <1>7 DEF RxPush, RxDrop, RxAgain, RxPushed, RxWriteFifo
<1>8. CASE JackNext
  BY <1>1, <1>8
  DEF JackNext, JackBegin, JackPush, JackDrop, JackAgain, JackPull, loops
<1>9. CASE MainNext \/ Signal \/ Fails
  BY <1>1, <1>9, StartedThreadsInv
  DEF MainNext, MainStops, MainGivesUp, Signal, Fails, loops
<1>10. CASE ServiceRestarts \/ ServiceStarts
  BY <1>10, StartedThreadsInv DEF ServiceRestarts, ServiceStarts
<1>11. CASE PulseDies \/ PulseReturns \/ PipeSource
  BY <1>11 DEF PulseDies, PulseReturns, PipeSource, loops
<1>12. CASE PlaybackFails \/ CaptureFails
  BY <1>12 DEF PlaybackFails, CaptureFails
<1>13. CASE UNCHANGED vars
  BY <1>1, <1>13 DEF vars
<1>14. QED
  BY <1>2, <1>3, <1>4, <1>5, <1>6, <1>7, <1>8, <1>9, <1>10, <1>11, <1>12, <1>13
  DEF Next, TxNext, RxNext

\* Neither real-time thread can spin (main.rs:291): whatever fails, and in
\* whatever order, it passes the head of its loop at most twice in a row without
\* having waited for a device, for PulseAudio or for a timer.
THEOREM ThreadsWait == Spec => []RealTimeThreadsWait
<1>1. ThreadsInv => RealTimeThreadsWait
  BY DEF ThreadsInv, RealTimeThreadsWait, Threads
<1>2. QED
  BY <1>1, StartedThreadsInv, NextThreadsInv, PTL DEF Spec

\* Every variable of the bridge's process keeps its type.
THEOREM BridgeTypes == Spec => []TypeOK
<1> DEFINE ProcessOK == service \in {"running", "stopped", "exited", "failed"}
                        /\ stop \in BOOLEAN
<1>1. Init => ProcessOK
  BY Zenon DEF Init
<1>2. ProcessOK /\ [Next]_vars => ProcessOK'
  BY Zenon
  DEF Next, TxNext, RxNext, JackNext, MainNext, process, vars, ThreadStart, LoopHead,
      TxRead, TxReadFails, TxMix, TxWrite, RxRead, RxRecover, RxGone, RxPush, RxDrop,
      RxAgain, RxWriteFifo, JackBegin, JackPush, JackDrop, JackAgain, JackPull,
      MainStops, MainGivesUp, Ends, Signal, Fails, ServiceRestarts, ServiceStarts,
      Started, PulseDies, PulseReturns, PlaybackFails, CaptureFails, PipeSource
<1>3. ProcessOK /\ RingsInv /\ ThreadsInv => TypeOK
  BY Zenon DEF RingsInv, ThreadsInv, TypeOK, Actors, Places
<1> HIDE DEF ProcessOK
<1>4. QED
  BY <1>1, <1>2, <1>3, EmptyRingsInv, NextRingsInv, StartedThreadsInv,
     NextThreadsInv, PTL DEF Spec

-----------------------------------------------------------------------------
(* The saved faders *)

\* The types of what the two savers share.
FilesOK ==
    /\ setting \in Settings
    /\ dirty \in {"clean", "fresh", "aged"}
    /\ step \in [Savers -> {"idle", "touch", "clear", "read", "write", "rename"}]
    /\ step["meters"] # "touch" /\ step["control"] # "clear"
    /\ snapshot \in [Savers -> Snapshots]
    /\ handle \in [Savers -> {"tmp", "file", "unlinked"}]
    /\ \A s \in Savers :
          /\ Saving(s) => snapshot[s] \in Settings
          /\ handle[s] # "unlinked" => step[s] = "write"
    /\ tmp \in Contents
    /\ file \in Contents
    /\ failed \in BOOLEAN
    /\ \A s \in crossed : s \in Savers /\ Saving(s)

\* What s has read so far is what the user has set.
Reads(s) ==
    /\ step[s] = "read" => \A i \in 1 .. Len(snapshot[s]) : snapshot[s][i] = setting[i]
    /\ Saving(s) => snapshot[s] = setting

\* No change has been made since the mark was cleared.
Unchanged == dirty = "clean" /\ step["control"] # "touch"

\* The temporary file as the savers leave it, when none of them is behind.
TmpInTime == tmp \in {NoFile, Empty, setting}

\* No save has failed since s created the temporary file, or one has gone through.
Trusted(s) == s \notin crossed \/ ~failed

\* The control thread cannot be behind: it is the one that moves the faders.  The
\* meters thread is, once a fader has moved; then the mixer is marked until the
\* meters thread starts over, and by then nobody has its file any more.  What a
\* save that failed has left is there until the next one truncates it; a saver
\* that renames it before is not trusted.
SavesInv ==
    /\ FilesOK
    /\ step["meters"] = "clear" => dirty # "clean"
    /\ Reads("control")
    /\ Unchanged => Reads("meters")
    /\ Saving("control") /\ Trusted("control") /\ (Unchanged \/ ~Saving("meters"))
          => TmpInTime
    /\ Saving("meters") /\ Trusted("meters") /\ Unchanged => TmpInTime
    /\ tmp = Empty /\ (\E s \in Savers : Saving(s) /\ Trusted(s))
          => \E s \in Savers : handle[s] = "tmp"
    /\ SavedWhenClean

LEMMA EmptySnapshot == <<>> \in Snapshots
  BY FadersAssumption DEF Snapshots

\* A snapshot is a sequence of levels; a full one is a setting.
LEMMA SnapshotGrows ==
    ASSUME NEW q \in Snapshots
    PROVE  /\ Len(q) \in 0 .. Faders
           /\ Len(q) = Faders => q \in Settings
           /\ Len(q) < Faders => \A level \in Levels :
                  /\ Append(q, level) \in Snapshots
                  /\ Len(Append(q, level)) = Len(q) + 1
                  /\ Append(q, level)[Len(q) + 1] = level
                  /\ \A i \in 1 .. Len(q) : Append(q, level)[i] = q[i]
<1> USE FadersAssumption
<1>1. PICK n \in 0 .. Faders : q \in [1 .. n -> Levels]
  BY DEF Snapshots
<1>2. q \in Seq(Levels) /\ Len(q) = n
  BY <1>1
<1>3. ASSUME NEW level \in Levels, n < Faders
      PROVE  Append(q, level) \in [1 .. n + 1 -> Levels]
  <2>1. Append(q, level) \in Seq(Levels) /\ Len(Append(q, level)) = n + 1
    BY <1>2
  <2>2. QED
    BY <2>1, LenProperties
<1>4. ASSUME NEW level \in Levels, n < Faders
      PROVE  Append(q, level) \in Snapshots
  BY <1>3, <1>4 DEF Snapshots
<1>5. QED
  BY <1>1, <1>2, <1>4 DEF Settings

\* Neither a missing nor an empty file can be taken for a setting.
LEMMA NoFileIsNoSetting == NoFile \notin Settings /\ Empty \notin Settings
<1> USE FadersAssumption, LoudestAssumption
<1>1. NoFile[1] = -1 /\ Len(Empty) = 0
  BY DEF NoFile, Empty
<1>2. \A q \in Settings : q[1] \in Levels /\ q \in Seq(Levels) /\ Len(q) = Faders
  BY DEF Settings
<1>3. -1 \notin Levels
  BY DEF Levels
<1>4. QED
  BY <1>1, <1>2, <1>3

LEMMA NoFileIsNoEmpty == NoFile # Empty
  BY DEF NoFile, Empty

LEMMA SettingIsContent == \A q \in Settings : q \in Contents
  BY FadersAssumption DEF Settings, Contents, Snapshots

\* What is loaded is a setting, and a setting is loaded as it is.
LEMMA LoadedType ==
    ASSUME NEW q \in Contents
    PROVE  Loaded(q) \in Settings /\ (q \in Settings => Loaded(q) = q)
<1> USE FadersAssumption, LoudestAssumption DEF Settings
<1>1. Loudest \in Levels
  BY DEF Levels
<1>2. CASE q = NoFile
  BY <1>1, <1>2, NoFileIsNoSetting DEF Loaded, Default
<1>3. CASE q # NoFile
  <2>1. q \in Snapshots
    BY <1>3 DEF Contents
  <2>2. PICK n \in 0 .. Faders : q \in [1 .. n -> Levels]
    BY <2>1 DEF Snapshots
  <2>3. Len(q) = n
    BY <2>2
  <2>4. Loaded(q) = [f \in 1 .. Faders |-> IF f <= n THEN q[f] ELSE Loudest]
    BY <1>3, <2>3 DEF Loaded
  <2>5. Loaded(q) \in Settings
    BY <1>1, <2>2, <2>4
  <2>6. ASSUME q \in Settings
        PROVE  Loaded(q) = q
    <3>1. Len(q) = Faders
      BY <2>6
    <3>2. QED
      BY <2>3, <2>4, <2>6, <3>1
  <2>7. QED
    BY <2>5, <2>6
<1>4. QED
  BY <1>2, <1>3

\* What a write leaves: a whole content, whatever was there before.
LEMMA OverlaysType ==
    ASSUME NEW old \in Contents, NEW new \in Settings, NEW c \in Overlays(old, new)
    PROVE  c \in Settings /\ (old \in {NoFile, Empty, new} => c = new)
<1> USE FadersAssumption DEF Settings
<1>1. PICK n \in 1 .. Faders :
        c = [f \in 1 .. Faders |-> IF f > n /\ f <= Len(old) THEN old[f] ELSE new[f]]
  BY DEF Overlays
<1>2. CASE old = NoFile
  <2>1. Len(old) = 1
    BY <1>2 DEF NoFile
  <2>2. c = new
    BY <1>1, <2>1
  <2>3. QED
    BY <2>2
<1>3. CASE old # NoFile
  <2>1. PICK m \in 0 .. Faders : old \in [1 .. m -> Levels]
    BY <1>3 DEF Contents, Snapshots
  <2>2. Len(old) = m
    BY <2>1
  <2>3. c \in Settings
    BY <1>1, <2>1, <2>2
  <2>4. old = Empty => c = new
    <3>1. Len(Empty) = 0
      BY DEF Empty
    <3>2. QED
      BY <1>1, <3>1
  <2>5. old = new => c = new
    BY <1>1
  <2>6. QED
    BY <1>3, <2>3, <2>4, <2>5
<1>4. QED
  BY <1>2, <1>3

LEMMA NextFilesOK == FilesOK /\ [MixerNext]_mixerVars => FilesOK'
<1> SUFFICES ASSUME FilesOK, [MixerNext]_mixerVars
             PROVE  FilesOK'
  OBVIOUS
<1> USE DEF FilesOK, Savers, Saving, savers, failures
<1>1. ASSUME NEW f \in 1 .. Faders, NEW level \in Levels, SetLevel(f, level)
      PROVE  FilesOK'
  BY <1>1 DEF SetLevel, Settings
<1>2. CASE Touch \/ Age \/ MetersCheck
  BY <1>2 DEF Touch, Age, MetersCheck
<1>3. CASE SaveCommand \/ MetersClear
  BY <1>3, EmptySnapshot DEF SaveCommand, MetersClear
<1>4. ASSUME NEW s \in Savers, ReadFader(s)
      PROVE  FilesOK'
  <2>1. /\ Len(snapshot[s]) \in 0 .. Faders
        /\ Len(snapshot[s]) < Faders
    BY <1>4, SnapshotGrows DEF ReadFader
  <2>2. setting[Len(snapshot[s]) + 1] \in Levels
    BY <2>1, FadersAssumption DEF Settings
  <2>3. Append(snapshot[s], setting[Len(snapshot[s]) + 1]) \in Snapshots
    BY <2>1, <2>2, SnapshotGrows
  <2>4. QED
    BY <1>4, <2>3 DEF ReadFader
<1>5. ASSUME NEW s \in Savers, CreateTmp(s)
      PROVE  FilesOK'
  <2>1. snapshot[s] \in Settings
    BY <1>5, SnapshotGrows DEF CreateTmp
  <2>2. Empty \in Contents
    BY EmptySnapshot DEF Empty, Contents
  <2>3. QED
    BY <1>5, <2>1, <2>2 DEF CreateTmp
<1>6. ASSUME NEW s \in Savers, WriteTmp(s)
      PROVE  FilesOK'
  <2>1. snapshot[s] \in Settings
    BY <1>6 DEF WriteTmp
  <2>2. tmp' \in Contents /\ file' \in Contents
    BY <1>6, <2>1, OverlaysType, SettingIsContent DEF WriteTmp
  <2>3. QED
    BY <1>6, <2>2 DEF WriteTmp
<1>7. ASSUME NEW s \in Savers, RenameTmp(s)
      PROVE  FilesOK'
  <2>1. tmp' \in Contents /\ file' \in Contents
    BY <1>7 DEF RenameTmp, Contents
  <2>2. /\ handle' \in [Savers -> {"tmp", "file", "unlinked"}]
        /\ \A t \in Savers : handle'[t] # "unlinked" => handle[t] # "unlinked"
    BY <1>7 DEF RenameTmp, Moved
  <2>3. /\ failed' \in BOOLEAN
        /\ \A t \in crossed' : t \in crossed /\ t # s
    BY <1>7 DEF RenameTmp, SaveSucceeded
  <2>4. QED
    BY <1>7, <2>1, <2>2, <2>3, EmptySnapshot DEF RenameTmp, Returns
<1>8. ASSUME NEW s \in Savers, SaveFails(s)
      PROVE  FilesOK'
  <2>1. tmp' \in Contents /\ file' \in Contents
    BY <1>8 DEF SaveFails, CreateFails, WriteFails, RenameFails, Torn, Contents
  <2>2. QED
    BY <1>8, <2>1, EmptySnapshot DEF SaveFails, SaveFailed, Returns
<1>9. CASE Restart
  BY <1>9, EmptySnapshot, LoadedType DEF Restart
<1>10. CASE UNCHANGED mixerVars
  BY <1>10 DEF mixerVars
<1>11. QED
  BY <1>1, <1>2, <1>3, <1>4, <1>5, <1>6, <1>7, <1>8, <1>9, <1>10
  DEF MixerNext, ControlNext, MetersNext, SaveState

LEMMA NextSavesInv == SavesInv /\ [MixerNext]_mixerVars => SavesInv'
<1> SUFFICES ASSUME SavesInv, [MixerNext]_mixerVars
             PROVE  SavesInv'
  OBVIOUS
<1>0. FilesOK /\ FilesOK'
  BY NextFilesOK DEF SavesInv
<1> USE <1>0
    DEF SavesInv, Reads, Unchanged, Saving, Trusted, TmpInTime, SavedWhenClean,
        Quiet, Savers, savers, failures
<1>1. ASSUME NEW f \in 1 .. Faders, NEW level \in Levels, SetLevel(f, level)
      PROVE  SavesInv'
  BY <1>1 DEF SetLevel, FilesOK
<1>2. CASE Touch \/ Age \/ MetersCheck
  BY <1>2 DEF Touch, Age, MetersCheck, FilesOK
<1>3. CASE SaveCommand
  BY <1>3 DEF SaveCommand, FilesOK
<1>4. CASE MetersClear
  BY <1>4 DEF MetersClear, FilesOK
<1>5. ASSUME NEW s \in Savers, ReadFader(s)
      PROVE  SavesInv'
  <2>1. /\ Len(snapshot[s]) \in 0 .. Faders
        /\ Len(snapshot[s]) < Faders
    BY <1>5, SnapshotGrows DEF ReadFader, FilesOK
  <2>2. setting[Len(snapshot[s]) + 1] \in Levels
    BY <2>1, FadersAssumption DEF Settings, FilesOK
  <2>3. /\ Len(snapshot'[s]) = Len(snapshot[s]) + 1
        /\ snapshot'[s][Len(snapshot[s]) + 1] = setting[Len(snapshot[s]) + 1]
        /\ \A i \in 1 .. Len(snapshot[s]) : snapshot'[s][i] = snapshot[s][i]
    BY <1>5, <2>1, <2>2, SnapshotGrows DEF ReadFader, FilesOK
  <2>4. \A i \in 1 .. Len(snapshot'[s]) :
            i \in 1 .. Len(snapshot[s]) \/ i = Len(snapshot[s]) + 1
    BY <2>1, <2>3
  <2>5. /\ Reads(s) => Reads(s)'
        /\ \A t \in Savers : t # s => (Reads(t) => Reads(t)')
    BY <1>5, <2>3, <2>4 DEF ReadFader, FilesOK
  <2>6. QED
    BY <1>5, <2>5 DEF ReadFader, FilesOK
<1>6. ASSUME NEW s \in Savers, CreateTmp(s)
      PROVE  SavesInv'
  <2>1. snapshot[s] \in Settings
    BY <1>6, SnapshotGrows DEF CreateTmp, FilesOK
  <2>2. Reads(s) => snapshot[s] = setting
    BY <1>6, <2>1 DEF CreateTmp, FilesOK, Settings
  <2>3. QED
    BY <1>6, <2>2 DEF CreateTmp, FilesOK
<1>7. ASSUME NEW s \in Savers, WriteTmp(s)
      PROVE  SavesInv'
  <2>1. snapshot[s] \in Settings
    BY <1>7 DEF WriteTmp, FilesOK
  <2>2. /\ handle[s] = "tmp" => tmp' \in Settings
        /\ handle[s] = "tmp" /\ TmpInTime /\ snapshot[s] = setting => tmp' = setting
        /\ handle[s] # "tmp" => tmp' = tmp
    BY <1>7, <2>1, OverlaysType DEF WriteTmp, FilesOK
  <2>3. tmp' = Empty => tmp = Empty /\ handle[s] # "tmp"
    BY <2>2, NoFileIsNoSetting
  <2>4. /\ setting' = setting /\ dirty' = dirty /\ snapshot' = snapshot
        /\ failed' = failed /\ crossed' = crossed
        /\ step[s] = "write"
        /\ step' = [step EXCEPT ![s] = "rename"]
        /\ handle' = [handle EXCEPT ![s] = "unlinked"]
    BY <1>7 DEF WriteTmp
  <2>5. /\ step'["meters"] = "clear" => dirty' # "clean"
        /\ Reads("control")'
        /\ Unchanged' => Reads("meters")'
        /\ SavedWhenClean'
    BY <2>4 DEF FilesOK
  <2>6. /\ Saving("control")' /\ Trusted("control")' /\ (Unchanged' \/ ~Saving("meters")')
              => TmpInTime'
        /\ Saving("meters")' /\ Trusted("meters")' /\ Unchanged' => TmpInTime'
    BY <2>2, <2>4 DEF FilesOK
  <2>7. tmp' = Empty /\ (\E t \in Savers : Saving(t)' /\ Trusted(t)')
            => \E t \in Savers : handle'[t] = "tmp"
    BY <2>3, <2>4 DEF FilesOK
  <2>8. QED
    BY <2>5, <2>6, <2>7
<1>8. ASSUME NEW s \in Savers, RenameTmp(s)
      PROVE  SavesInv'
  <2>1. /\ setting' = setting /\ dirty' = dirty
        /\ step[s] = "rename"
        /\ step' = [step EXCEPT ![s] = "idle"]
        /\ snapshot' = [snapshot EXCEPT ![s] = <<>>]
        /\ file' = tmp /\ tmp' = NoFile /\ tmp # NoFile
        /\ failed' = (failed /\ s \in crossed)
    BY <1>8 DEF RenameTmp, Returns, SaveSucceeded
  <2>2. /\ step'["meters"] = "clear" => dirty' # "clean"
        /\ Reads("control")'
        /\ Unchanged' => Reads("meters")'
    BY <2>1 DEF FilesOK
  <2>3. SUFFICES ASSUME Quiet', ~failed'
                 PROVE  Loaded(file)' = setting'
    BY <2>1, <2>2, NoFileIsNoEmpty
  <2>4. \A t \in Savers : step[t] # "write"
    BY <2>1, <2>3 DEF FilesOK
  <2>5. Unchanged /\ (s = "control" => ~Saving("meters"))
    BY <2>1, <2>3 DEF FilesOK
  <2>6. Saving(s) /\ Trusted(s)
    BY <2>1, <2>3
  <2>7. tmp = setting
    BY <2>1, <2>4, <2>5, <2>6 DEF FilesOK
  <2>8. QED
    BY <2>1, <2>7, LoadedType DEF FilesOK
<1>9. ASSUME NEW s \in Savers, SaveFails(s)
      PROVE  SavesInv'
  <2>1. /\ setting' = setting /\ dirty' = dirty /\ failed' = TRUE
        /\ crossed' = {t \in Savers \ {s} : Saving(t)}
        /\ step' = [step EXCEPT ![s] = "idle"]
        /\ snapshot' = [snapshot EXCEPT ![s] = <<>>]
        /\ step[s] \in {"read", "write", "rename"}
    BY <1>9 DEF SaveFails, SaveFailed, Returns, CreateFails, WriteFails, RenameFails
  <2>2. \A t \in Savers : ~(Saving(t)' /\ Trusted(t)')
    BY <2>1 DEF FilesOK
  <2>3. QED
    BY <2>1, <2>2 DEF FilesOK
<1>10. CASE Restart
  BY <1>10 DEF Restart, FilesOK
<1>11. CASE UNCHANGED mixerVars
  BY <1>11 DEF mixerVars
<1>12. QED
  BY <1>1, <1>2, <1>3, <1>4, <1>5, <1>6, <1>7, <1>8, <1>9, <1>10, <1>11
  DEF MixerNext, ControlNext, MetersNext, SaveState

\* The debounced save loses nothing (mixer.rs clears the mark before it reads the
\* faders, and fs::write truncates the temporary file that both savers use): for any
\* number of faders and levels, however changes and saves of the two threads cross
\* each other and wherever a save fails, whenever nothing is marked, nobody is at
\* work and after the last failure a save has created its file and renamed it, a
\* restart finds what the user has set.
THEOREM SavedFaders == MixerSpec => []SavedWhenClean
<1>1. MixerInit => SavesInv
  <2> SUFFICES ASSUME MixerInit
               PROVE  SavesInv
    OBVIOUS
  <2>1. file \in Contents /\ setting = Loaded(file) /\ tmp \in Contents
    BY SettingIsContent DEF MixerInit, Contents
  <2>2. setting \in Settings
    BY <2>1, LoadedType
  <2>3. FilesOK
    BY <2>1, <2>2, EmptySnapshot DEF MixerInit, FilesOK, Savers, Saving
  <2>4. QED
    BY <2>1, <2>3
    DEF MixerInit, SavesInv, Savers, Saving, Reads, Unchanged, SavedWhenClean, Quiet
<1>2. SavesInv => SavedWhenClean
  BY DEF SavesInv
<1>3. QED
  BY <1>1, <1>2, NextSavesInv, PTL DEF MixerSpec

-----------------------------------------------------------------------------
(* The protocol *)

States == {"off", "unbound", "bound", "hello", "receiving"}

ProtocolOK ==
    /\ server \in {"down", "up"}
    /\ path \in {"none", "stale", "live"}
    /\ path = "live" => server = "up"
    /\ inbox \in SUBSET Clients
    /\ listed \in SUBSET Clients
    /\ server = "down" => inbox = {} /\ listed = {}
    /\ client \in [Clients -> States]
    /\ peer \in [Clients -> {"none", "live", "dead"}]
    /\ reply \in [Clients -> BOOLEAN]
    /\ queue \in [Clients -> 0 .. Backlog]
    /\ heard \in [Clients -> BOOLEAN]
    /\ \A c \in Clients : peer[c] = "live" => server = "up"

\* A client is connected to a live server from its Connect to its end or the
\* server's; it is "receiving" from its Hello, which puts it into the inbox.
ProtocolInv == ProtocolOK /\ NobodyIsForgotten

LEMMA InitProtocolInv == ClockInit => ProtocolInv
  BY BacklogAssumption
  DEF ClockInit, ProtocolInv, ProtocolOK, NobodyIsForgotten, States

LEMMA SendKeeps == ProtocolInv /\ Send => ProtocolInv'
  BY BacklogAssumption
  DEF ProtocolInv, ProtocolOK, NobodyIsForgotten, States, Send, Kept, Reachable, HasRoom

LEMMA ServerKeeps ==
    ProtocolInv /\ (ServerNew \/ \E left \in {"stale", "none"} : ServerGone(left))
        => ProtocolInv'
<1> USE DEF ProtocolInv, ProtocolOK, NobodyIsForgotten, Reachable
<1>1. CASE ProtocolInv /\ ServerNew
  BY <1>1 DEF ServerNew, clientVars
<1>2. ASSUME ProtocolInv, NEW left \in {"stale", "none"}, ServerGone(left)
      PROVE  ProtocolInv'
  <2>1. /\ server' = "down" /\ path' \in {"stale", "none"}
        /\ inbox' = {} /\ listed' = {}
        /\ UNCHANGED <<client, reply, queue>>
    BY <1>2 DEF ServerGone
  <2>2. /\ peer' \in [Clients -> {"none", "live", "dead"}]
        /\ \A c \in Clients : peer'[c] # "live"
    BY <1>2 DEF ServerGone
  <2>3. heard' \in [Clients -> BOOLEAN]
    BY <1>2 DEF ServerGone
  <2>4. QED
    BY <1>2, <2>1, <2>2, <2>3
<1>3. QED
  BY <1>1, <1>2

\* A client that lets go of its socket file is nobody the server must remember.
LEMMA LettingGoKeeps ==
    ASSUME ProtocolInv, NEW c \in Clients, NEW place \in {"off", "unbound"},
           client' = [client EXCEPT ![c] = place],
           peer' = [peer EXCEPT ![c] = "none"],
           reply' = [reply EXCEPT ![c] = FALSE],
           queue' = [queue EXCEPT ![c] = 0],
           heard' \in {heard, [heard EXCEPT ![c] = FALSE]},
           inbox' \in {inbox, inbox \ {c}},
           UNCHANGED <<server, path, listed>>
    PROVE  ProtocolInv'
<1>1. reply' \in [Clients -> BOOLEAN]
  BY DEF ProtocolInv, ProtocolOK
<1>2. heard' \in [Clients -> BOOLEAN]
  BY DEF ProtocolInv, ProtocolOK
<1>3. queue' \in [Clients -> 0 .. Backlog]
  BY BacklogAssumption DEF ProtocolInv, ProtocolOK
<1>4. /\ client' \in [Clients -> States]
      /\ peer' \in [Clients -> {"none", "live", "dead"}]
      /\ \A b \in Clients : peer'[b] = "live" => server' = "up"
  BY DEF ProtocolInv, ProtocolOK, States
<1>5. ProtocolOK'
  BY <1>1, <1>2, <1>3, <1>4 DEF ProtocolInv, ProtocolOK
<1>6. ASSUME NEW b \in Clients, b # c, client'[b] = "receiving", Reachable(b)'
      PROVE  b \in inbox' \cup listed'
  BY <1>6 DEF ProtocolInv, ProtocolOK, NobodyIsForgotten, Reachable
<1>7. ~Reachable(c)'
  BY DEF ProtocolInv, ProtocolOK, Reachable
<1>8. QED
  BY <1>5, <1>6, <1>7 DEF ProtocolInv, NobodyIsForgotten

LEMMA ClientStepKeeps ==
    ASSUME ProtocolInv, NEW c \in Clients, ClientStep(c)
    PROVE  ProtocolInv'
<1> USE BacklogAssumption
    DEF ProtocolInv, ProtocolOK, NobodyIsForgotten, States, Reachable, serverVars
<1>1. CASE Bind(c)
  BY <1>1 DEF Bind
<1>2. CASE Connect(c)
  BY <1>2 DEF Connect
<1>3. CASE ConnectRefused(c) \/ HelloRefused(c)
  BY <1>3, LettingGoKeeps DEF ConnectRefused, HelloRefused, Discard
<1>4. CASE Hello(c)
  BY <1>4 DEF Hello
<1>5. CASE Receive(c)
  BY <1>5 DEF Receive
<1>6. QED
  BY <1>1, <1>2, <1>3, <1>4, <1>5 DEF ClientStep

LEMMA ClientComesAndGoes ==
    ASSUME ProtocolInv, NEW c \in Clients, ClientStarts(c) \/ ClientGone(c)
    PROVE  ProtocolInv'
<1> USE BacklogAssumption
    DEF ProtocolInv, ProtocolOK, NobodyIsForgotten, States, Reachable, serverVars
<1>1. CASE ClientStarts(c)
  BY <1>1 DEF ClientStarts
<1>2. CASE ClientGone(c)
  BY <1>2, LettingGoKeeps DEF ClientGone
<1>3. QED
  BY <1>1, <1>2

\* However slow a client is and whoever comes and goes, Server::send forgets only
\* those who are gone: any number of clients, sockets of any length.
THEOREM ClientsAreKept == ClockSpec => []NobodyIsForgotten
<1>1. ProtocolInv /\ [ClockNext]_clockVars => ProtocolInv'
  <2>1. ProtocolInv /\ UNCHANGED clockVars => ProtocolInv'
    BY DEF ProtocolInv, ProtocolOK, NobodyIsForgotten, Reachable, clockVars
  <2>2. QED
    BY <2>1, SendKeeps, ServerKeeps, ClientStepKeeps, ClientComesAndGoes
    DEF ClockNext
<1>2. ProtocolInv => NobodyIsForgotten
  BY DEF ProtocolInv
<1>3. QED
  BY <1>1, <1>2, InitProtocolInv, PTL DEF ClockSpec

-----------------------------------------------------------------------------
(* The units *)

LEMMA AudioDiesKeeps == ProtocolInv /\ AudioDies => ProtocolInv'
<1> SUFFICES ASSUME ProtocolInv, AudioDies
             PROVE  ProtocolInv'
  OBVIOUS
<1>1. ProtocolOK'
  BY BacklogAssumption DEF ProtocolInv, ProtocolOK, AudioDies, States
<1>2. NobodyIsForgotten'
  BY DEF NobodyIsForgotten, AudioDies
<1>3. QED
  BY <1>1, <1>2 DEF ProtocolInv

LEMMA BothDieKeeps == ProtocolInv /\ BothDie => ProtocolInv'
<1> SUFFICES ASSUME ProtocolInv, BothDie
             PROVE  ProtocolInv'
  OBVIOUS
<1>1. ProtocolOK'
  BY BacklogAssumption DEF ProtocolInv, ProtocolOK, BothDie, States
<1>2. NobodyIsForgotten'
  BY DEF NobodyIsForgotten, BothDie
<1>3. QED
  BY <1>1, <1>2 DEF ProtocolInv

LEMMA CleanUpKeeps == ProtocolInv /\ CleanUp => ProtocolInv'
<1> SUFFICES ASSUME ProtocolInv, CleanUp
             PROVE  ProtocolInv'
  OBVIOUS
<1>1. ProtocolOK'
  BY DEF ProtocolInv, ProtocolOK, CleanUp
<1>2. NobodyIsForgotten'
  BY DEF NobodyIsForgotten, CleanUp, Reachable
<1>3. QED
  BY <1>1, <1>2 DEF ProtocolInv

\* wait_for_clock drops its client and the engine starts one of its own.
LEMMA WaitForClockKeeps == ProtocolInv /\ WaitForClock => ProtocolInv'
<1> SUFFICES ASSUME ProtocolInv, WaitForClock
             PROVE  ProtocolInv'
  OBVIOUS
<1>0. Waiter \in Clients /\ Engine \in Clients /\ Waiter # Engine
  BY SessionAssumption
<1>1. reply' \in [Clients -> BOOLEAN] /\ heard' \in [Clients -> BOOLEAN]
  BY DEF ProtocolInv, ProtocolOK, WaitForClock
<1>2. /\ client' \in [Clients -> States]
      /\ peer' \in [Clients -> {"none", "live", "dead"}]
      /\ \A c \in Clients : peer'[c] = "live" => server' = "up"
      /\ queue' \in [Clients -> 0 .. Backlog]
  <2>1. client' \in [Clients -> States]
    BY DEF ProtocolInv, ProtocolOK, WaitForClock, States
  <2>2. /\ peer' \in [Clients -> {"none", "live", "dead"}]
        /\ \A c \in Clients : peer'[c] = "live" => server' = "up"
    <3>1. peer' = [peer EXCEPT ![Waiter] = "none"] /\ server' = server
      BY DEF WaitForClock
    <3>2. /\ peer \in [Clients -> {"none", "live", "dead"}]
          /\ \A c \in Clients : peer[c] = "live" => server = "up"
      BY DEF ProtocolInv, ProtocolOK
    <3>3. QED
      BY <3>1, <3>2
  <2>3. queue' \in [Clients -> 0 .. Backlog]
    <3>1. queue' = [queue EXCEPT ![Waiter] = 0]
      BY DEF WaitForClock
    <3>2. queue \in [Clients -> 0 .. Backlog] /\ 0 \in 0 .. Backlog
      BY BacklogAssumption DEF ProtocolInv, ProtocolOK
    <3>3. QED
      BY <3>1, <3>2
  <2>4. QED
    BY <2>1, <2>2, <2>3
<1>3. ProtocolOK'
  BY <1>1, <1>2 DEF ProtocolInv, ProtocolOK, WaitForClock
<1>4. ASSUME NEW c \in Clients, client'[c] = "receiving", Reachable(c)'
      PROVE  c \in inbox' \cup listed'
  <2>1. c # Waiter /\ c # Engine
    BY <1>0, <1>4 DEF ProtocolInv, ProtocolOK, WaitForClock
  <2>2. QED
    BY <2>1, SessionAssumption
<1>5. QED
  BY <1>3, <1>4 DEF ProtocolInv, NobodyIsForgotten

LEMMA SessionKeepsProtocol == ProtocolInv /\ [SessionNext]_sessionVars => ProtocolInv'
<1> SUFFICES ASSUME ProtocolInv, [SessionNext]_sessionVars
             PROVE  ProtocolInv'
  OBVIOUS
<1>1. CASE UNCHANGED clockVars
  BY <1>1 DEF ProtocolInv, ProtocolOK, NobodyIsForgotten, Reachable, clockVars
<1>2. CASE ClockUnit \/ StatimeCrash
  BY <1>1, <1>2, CleanUpKeeps, ServerKeeps, AudioDiesKeeps
  DEF ClockUnit, RunClockJob, CheckConfig, StartFails, WaitNetwork, WaitEnds,
      WaitBroken, StatimeExec, StatimeLaunch, ClockRestarts, StatimeCrash
<1>3. CASE AudioUnit
  <2>1. Waiter \in Clients
    BY SessionAssumption
  <2>2. QED
    BY <1>1, <1>3, <2>1, ClientComesAndGoes, WaitForClockKeeps, AudioDiesKeeps
    DEF AudioUnit, RunAudioJob, SetUp, OpenDevice, AudioRestarts
<1>4. CASE BridgeEnds("autoRestart") \/ BridgeEnds("ended")
  BY <1>4, AudioDiesKeeps DEF BridgeEnds
<1>5. CASE StartBegins \/ EnableClock \/ EnableAudio \/ WatchUnits
  BY <1>1, <1>5 DEF StartBegins, EnableClock, EnableAudio, WatchUnits
<1>6. CASE StopAudio \/ StopClock \/ StopCleansUp
  BY <1>6, AudioDiesKeeps, BothDieKeeps, CleanUpKeeps
  DEF StopAudio, StopClock, StopCleansUp
<1>7. CASE NetworkChanges \/ \E c \in Configs : EditConfig(c)
  BY <1>1, <1>7 DEF NetworkChanges, EditConfig
<1>8. CASE ClockProtocol
  BY <1>8, SendKeeps, ClientStepKeeps DEF ClockProtocol
<1>9. CASE UNCHANGED sessionVars
  BY <1>1, <1>9 DEF sessionVars
<1>10. QED
  BY <1>2, <1>3, <1>4, <1>5, <1>6, <1>7, <1>8, <1>9 DEF SessionNext

\* The same under the units: processes die without dropping anything, and `stop`
\* and every start of the clock remove the sockets' files.
THEOREM SessionClientsAreKept == SessionSpec => []NobodyIsForgotten
<1>1. ProtocolInv => NobodyIsForgotten
  BY DEF ProtocolInv
<1>2. SessionInit => ClockInit
  BY DEF SessionInit
<1>3. QED
  BY <1>1, <1>2, InitProtocolInv, SessionKeepsProtocol, PTL DEF SessionSpec

\* `start` forgets a refusal only together with the "failed" state it left.
RefusalInv ==
    /\ start \notin Ended /\ clock = "failed" => refused = TRUE
    /\ start = "failed" => refused = TRUE

LEMMA NextRefusalInv == RefusalInv /\ [SessionNext]_sessionVars => RefusalInv'
<1> SUFFICES ASSUME RefusalInv, [SessionNext]_sessionVars
             PROVE  RefusalInv'
  OBVIOUS
<1> USE DEF RefusalInv, Ended, cliVars, unitVars
<1>1. CASE UNCHANGED <<clock, start, refused>>
  BY <1>1
<1>2. CASE ClockUnit \/ StatimeCrash
  BY <1>2
  DEF ClockUnit, RunClockJob, CheckConfig, StartFails, WaitNetwork, WaitEnds,
      WaitBroken, StatimeExec, StatimeLaunch, ClockRestarts, StatimeCrash
<1>3. CASE AudioUnit \/ BridgeEnds("autoRestart") \/ BridgeEnds("ended")
  BY <1>3
  DEF AudioUnit, RunAudioJob, SetUp, WaitForClock, OpenDevice, AudioRestarts,
      BridgeEnds
<1>4. CASE StartBegins
  BY <1>4 DEF StartBegins
<1>5. CASE EnableClock \/ EnableAudio
  BY <1>5 DEF EnableClock, EnableAudio
<1>6. CASE WatchUnits
  BY <1>6 DEF WatchUnits
<1>7. CASE StopAudio \/ StopClock \/ StopCleansUp
  BY <1>7 DEF StopAudio, StopClock, StopCleansUp
<1>8. CASE NetworkChanges \/ \E c \in Configs : EditConfig(c)
  BY <1>8 DEF NetworkChanges, EditConfig
<1>9. CASE ClockProtocol
  BY <1>9 DEF ClockProtocol
<1>10. CASE UNCHANGED sessionVars
  BY <1>1, <1>10 DEF sessionVars
<1>11. QED
  BY <1>2, <1>3, <1>4, <1>5, <1>6, <1>7, <1>8, <1>9, <1>10 DEF SessionNext

\* A failure that `sonusgrid start` reports (runtime.rs:10-13) is the clock's
\* answer to this start: whatever `stop`, edits of the config, crashes and restarts
\* come in between, also from a `stop` that runs at the same time.
THEOREM FailureIsRecent == SessionSpec => []FailureIsOfThisStart
<1>1. SessionInit => RefusalInv
  BY DEF SessionInit, RefusalInv, Ended
<1>2. RefusalInv => FailureIsOfThisStart
  BY DEF RefusalInv, FailureIsOfThisStart
<1>3. QED
  BY <1>1, <1>2, NextRefusalInv, PTL DEF SessionSpec

-----------------------------------------------------------------------------
(* The processes and their sockets *)

\* The server runs exactly while the clock unit serves, and each client only in
\* the phase of the audio unit it belongs to.
UnitsInv ==
    /\ clock \in ClockActive \cup {"inactive", "check", "wait", "autoRestart", "failed"}
    /\ audio \in AudioActive \cup {"inactive", "autoRestart", "ended"}
    /\ server = "up" <=> clock = "serving"
    /\ client[Waiter] # "off" <=> audio = "waitClock"
    /\ client[Engine] # "off" <=> audio \in {"opening", "running"}

LEMMA NextUnitsInv == ProtocolInv /\ UnitsInv /\ [SessionNext]_sessionVars => UnitsInv'
<1> SUFFICES ASSUME ProtocolInv, UnitsInv, [SessionNext]_sessionVars
             PROVE  UnitsInv'
  OBVIOUS
<1>0. /\ Waiter # Engine /\ Clients = {Waiter, Engine}
      /\ client \in [Clients -> States]
  BY SessionAssumption DEF ProtocolInv, ProtocolOK
<1> USE DEF UnitsInv, ClockActive, AudioActive, unitVars, clockVars
<1>1. CASE UNCHANGED <<clock, audio, server, client>>
  BY <1>1
<1>2. CASE RunClockJob \/ CheckConfig \/ WaitNetwork
  BY <1>2 DEF RunClockJob, CheckConfig, StartFails, WaitNetwork, WaitEnds, WaitBroken
<1>3. CASE StatimeExec \/ StatimeLaunch \/ StatimeCrash
  BY <1>3
  DEF StatimeExec, CleanUp, StatimeLaunch, ServerNew, clientVars, StatimeCrash,
      ServerGone
<1>4. CASE ClockRestarts
  BY <1>0, <1>4 DEF ClockRestarts, AudioDies
<1>5. CASE RunAudioJob \/ AudioRestarts
  BY <1>5 DEF RunAudioJob, AudioRestarts
<1>6. CASE SetUp
  BY <1>0, <1>6 DEF SetUp, ClientStarts, serverVars
<1>7. CASE WaitForClock
  BY <1>0, <1>7 DEF WaitForClock
<1>8. CASE OpenDevice \/ BridgeEnds("autoRestart") \/ BridgeEnds("ended")
  BY <1>0, <1>8 DEF OpenDevice, BridgeEnds, AudioDies
<1>9. CASE StartBegins
  BY <1>9 DEF StartBegins
<1>10. CASE EnableClock \/ EnableAudio \/ WatchUnits
  BY <1>10 DEF EnableClock, EnableAudio, WatchUnits
<1>11. CASE StopAudio \/ StopClock \/ StopCleansUp
  BY <1>0, <1>11 DEF StopAudio, StopClock, StopCleansUp, AudioDies, BothDie, CleanUp
<1>12. CASE NetworkChanges \/ \E c \in Configs : EditConfig(c)
  BY <1>12 DEF NetworkChanges, EditConfig
<1>13. CASE ClockProtocol
  <2>1. CASE Send
    BY <1>1, <1>13, <2>1 DEF ClockProtocol, Send
  <2>2. ASSUME NEW c \in Clients, ClientStep(c)
        PROVE  UnitsInv'
    <3>1. /\ client[c] # "off" /\ server' = server
          /\ \E place \in States \ {"off"} : client' = [client EXCEPT ![c] = place]
      BY <1>0, <2>2
      DEF ClientStep, Bind, Connect, ConnectRefused, Discard, Hello, HelloRefused,
          Receive, serverVars, States
    <3>2. \A b \in Clients : client'[b] # "off" <=> client[b] # "off"
      BY <1>0, <3>1
    <3>3. QED
      BY <1>0, <1>13, <3>1, <3>2 DEF ClockProtocol
  <2>3. QED
    BY <1>13, <2>1, <2>2 DEF ClockProtocol
<1>14. CASE UNCHANGED sessionVars
  BY <1>1, <1>14 DEF sessionVars
<1>15. QED
  BY <1>2, <1>3, <1>4, <1>5, <1>6, <1>7, <1>8, <1>9, <1>10, <1>11, <1>12, <1>13,
     <1>14
  DEF SessionNext, ClockUnit, AudioUnit

\* The server's socket never holds more first datagrams than fit.
InboxInv == IsFiniteSet(inbox) /\ Cardinality(inbox) <= Backlog

LEMMA FewerFit == InboxInv /\ inbox' \subseteq inbox => InboxInv'
<1> SUFFICES ASSUME InboxInv, inbox' \subseteq inbox
             PROVE  InboxInv'
  OBVIOUS
<1>1. IsFiniteSet(inbox') /\ Cardinality(inbox') <= Cardinality(inbox)
  BY FS_Subset DEF InboxInv
<1>2. Cardinality(inbox') \in Nat /\ Cardinality(inbox) \in Nat
  BY <1>1, FS_CardinalityType DEF InboxInv
<1>3. QED
  BY <1>1, <1>2, BacklogAssumption DEF InboxInv

LEMMA NextInboxInv == InboxInv /\ [SessionNext]_sessionVars => InboxInv'
<1> SUFFICES ASSUME InboxInv, [SessionNext]_sessionVars
             PROVE  InboxInv'
  OBVIOUS
<1> USE DEF clockVars, serverVars
<1>1. ASSUME NEW c \in Clients, Hello(c)
      PROVE  InboxInv'
  <2>1. inbox' = inbox \cup {c} /\ Cardinality(inbox) < Backlog
    BY <1>1 DEF Hello
  <2>2. /\ IsFiniteSet(inbox')
        /\ Cardinality(inbox') \in {Cardinality(inbox), Cardinality(inbox) + 1}
    BY <2>1, FS_AddElement DEF InboxInv
  <2>3. Cardinality(inbox) \in Nat
    BY FS_CardinalityType DEF InboxInv
  <2>4. QED
    BY <2>1, <2>2, <2>3, BacklogAssumption DEF InboxInv
<1>2. CASE inbox' \subseteq inbox
  BY <1>2, FewerFit
<1>3. ASSUME ~ \E c \in Clients : Hello(c)
      PROVE  inbox' \subseteq inbox
  <2>1. CASE ClockUnit \/ StatimeCrash
    BY <2>1
    DEF ClockUnit, RunClockJob, CheckConfig, StartFails, WaitNetwork, WaitEnds,
        WaitBroken, StatimeExec, CleanUp, StatimeLaunch, ServerNew, ClockRestarts,
        AudioDies, StatimeCrash, ServerGone
  <2>2. CASE AudioUnit \/ BridgeEnds("autoRestart") \/ BridgeEnds("ended")
    BY <2>2
    DEF AudioUnit, RunAudioJob, SetUp, ClientStarts, WaitForClock, OpenDevice,
        AudioRestarts, AudioDies, BridgeEnds
  <2>3. CASE StartBegins \/ EnableClock \/ EnableAudio \/ WatchUnits
    BY <2>3 DEF StartBegins, EnableClock, EnableAudio, WatchUnits
  <2>4. CASE StopAudio \/ StopClock \/ StopCleansUp
    BY <2>4 DEF StopAudio, StopClock, StopCleansUp, AudioDies, BothDie, CleanUp
  <2>5. CASE NetworkChanges \/ \E c \in Configs : EditConfig(c)
    BY <2>5 DEF NetworkChanges, EditConfig
  <2>6. CASE ClockProtocol
    BY <1>3, <2>6
    DEF ClockProtocol, Send, ClientStep, Bind, Connect, ConnectRefused,
        HelloRefused, Receive
  <2>7. CASE UNCHANGED sessionVars
    BY <2>7 DEF sessionVars
  <2>8. QED
    BY <2>1, <2>2, <2>3, <2>4, <2>5, <2>6, <2>7 DEF SessionNext
<1>4. QED
  BY <1>1, <1>2, <1>3

\* What is left of the type invariant.
HostInv ==
    /\ nic \in BOOLEAN
    /\ config \in Configs
    /\ jobs \subseteq {"clock", "audio"}
    /\ start \in Ended \cup {"clock", "audio", "watch", "settle"}
    /\ stopping \in {"idle", "clock", "cleanup"}
    /\ refused \in BOOLEAN
    /\ wanted \in BOOLEAN
    /\ crashes \in 0 .. MaxCrashes

LEMMA NextHostInv == HostInv /\ [SessionNext]_sessionVars => HostInv'
<1> SUFFICES ASSUME HostInv, [SessionNext]_sessionVars
             PROVE  HostInv'
  OBVIOUS
<1> USE DEF HostInv, Ended, unitVars, cliVars, worldVars
<1>1. CASE ClockUnit
  BY Zenon, <1>1
  DEF ClockUnit, RunClockJob, CheckConfig, StartFails, WaitNetwork, WaitEnds,
      WaitBroken, StatimeExec, StatimeLaunch, ClockRestarts
<1>2. CASE StatimeCrash \/ BridgeEnds("autoRestart") \/ BridgeEnds("ended")
  <2>1. crashes' \in 0 .. MaxCrashes
    BY <1>2, SessionAssumption DEF StatimeCrash, BridgeEnds
  <2>2. QED
    BY Zenon, <1>2, <2>1 DEF StatimeCrash, BridgeEnds
<1>3. CASE AudioUnit
  BY Zenon, <1>3
  DEF AudioUnit, RunAudioJob, SetUp, WaitForClock, OpenDevice, AudioRestarts, StartAudio
<1>4. CASE StartBegins \/ EnableClock \/ WatchUnits
  BY Zenon, <1>4 DEF StartBegins, EnableClock, WatchUnits
<1>5. CASE EnableAudio
  BY Zenon, <1>5 DEF EnableAudio, StartAudio
<1>6. CASE StopAudio \/ StopClock \/ StopCleansUp
  BY Zenon, <1>6 DEF StopAudio, StopClock, StopCleansUp
<1>7. CASE NetworkChanges \/ \E c \in Configs : EditConfig(c)
  BY Zenon, <1>7 DEF NetworkChanges, EditConfig
<1>8. CASE ClockProtocol \/ UNCHANGED sessionVars
  BY Zenon, <1>8 DEF ClockProtocol, sessionVars
<1>9. QED
  BY <1>1, <1>2, <1>3, <1>4, <1>5, <1>6, <1>7, <1>8 DEF SessionNext

\* What the units, the processes and the sockets know of each other is true: the
\* server runs exactly while the clock unit serves, wait_for_clock and the engine
\* have their clients exactly in their phases, and a dead server keeps nobody.
THEOREM SessionTypes == SessionSpec => []SessionTypeOK
<1>1. SessionInit => ProtocolInv /\ UnitsInv
  BY InitProtocolInv, SessionAssumption
  DEF SessionInit, ClockInit, UnitsInv, ClockActive, AudioActive
<1>2. SessionInit => InboxInv
  BY FS_EmptySet, BacklogAssumption DEF SessionInit, ClockInit, InboxInv
<1>3. SessionInit => HostInv
  <2>1. MaxCrashes \in Nat => 0 \in 0 .. MaxCrashes
    OBVIOUS
  <2>2. QED
    BY Zenon, <2>1, SessionAssumption DEF SessionInit, HostInv, Ended
<1>4. ProtocolInv /\ UnitsInv /\ InboxInv /\ HostInv => SessionTypeOK
  BY Zenon
  DEF ProtocolInv, ProtocolOK, UnitsInv, InboxInv, HostInv, SessionTypeOK, ClockTypeOK,
      States
<1>5. QED
  BY <1>1, <1>2, <1>3, <1>4, SessionKeepsProtocol, NextUnitsInv, NextInboxInv,
     NextHostInv, PTL DEF SessionSpec
=============================================================================
