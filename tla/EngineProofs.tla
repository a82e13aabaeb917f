---------------------------- MODULE EngineProofs ----------------------------
(***************************************************************************)
(* However many handles there are, and in whatever order they prepare,     *)
(* start, stop and close: every Stop finds the stream it is to stop, and   *)
(* every stream that lives is one that the engine knows.                   *)
(*                                                                         *)
(* The flags of an instance are set by the handles long before its thread  *)
(* gets to the commands, so the argument is about the commands that wait:  *)
(* executed in their order, they lead from what is started to what the     *)
(* flags say, and never start a direction twice or stop it twice.          *)
(***************************************************************************)
EXTENDS Engine, FiniteSetTheorems, SequenceTheorems, TLAPS

-----------------------------------------------------------------------------
(* The invariant *)

Known == 1 .. Len(stream)

CommandRecord == [op : {"start", "stop", "shutdown"}, dir : Dirs, stream : 0 .. MaxStreams]

HandlesOK ==
    /\ app \in [Handles -> {"closed", "open", "blocked", "waiting", "prepared",
                            "running", "failed"}]
    /\ buffers \in [Handles -> 0 .. MaxBuffers]
    /\ valid \in [Handles -> BOOLEAN]
    /\ media \in [Handles -> BOOLEAN]
    /\ current \in [Handles -> 0 .. MaxStreams]

StreamsOK ==
    /\ stream \in Seq(StreamRecord) /\ Len(stream) <= MaxStreams
    /\ startTx \in [Streams -> {"none", "pending", "sent", "dropped"}]
    /\ thread \in [Streams -> {"none", "waitStart", "waitClock", "run", "gone"}]

EnginesOK ==
    /\ instance \in Instances \cup {NoInstance}
    /\ flags \in [Instances -> SUBSET Dirs]
    /\ queue \in [Instances -> Seq(CommandRecord)]
    /\ engine \in [Instances -> {"unused", "starting", "idle", "joining", "closing",
                                 "gone", "panicked"}]
    /\ started \in [Instances -> [Dirs -> 0 .. MaxStreams]]
    /\ joining \in [Instances -> SUBSET Streams]
    /\ overlay \in [Instances -> BOOLEAN]

\* A command, and the directions that are in use before and after it.
Leads(c, before, after) ==
    \/ c.op = "start" /\ c.dir \notin before /\ after = before \cup {c.dir}
    \/ c.op = "stop" /\ c.dir \in before /\ after = before \ {c.dir}
    \/ c.op = "shutdown" /\ before = {} /\ after = {}

\* The commands of q, one after the other.
LeadsAlong(q, use, before, after) ==
    /\ use[1] = before
    /\ use[Len(q) + 1] = after
    /\ \A k \in 1 .. Len(q) : Leads(q[k], use[k], use[k + 1])

CommandsLead(q, before, after) ==
    \E use \in [1 .. Len(q) + 1 -> SUBSET Dirs] : LeadsAlong(q, use, before, after)

InUse(table) == {d \in Dirs : table[d] # 0}

\* What waits leads from what is started to what the flags say.
FlagsComeTrue == \A i \in Instances : CommandsLead(queue[i], InUse(started[i]), flags[i])

\* A start is for a stream of its instance and direction, which is newer than
\* those that have been started, and they wait in the order of their streams.
IsStartOf(c, i) ==
    /\ c.stream \in Known
    /\ stream[c.stream].instance = i
    /\ c.dir = Dir(stream[c.stream].handle)
    /\ \A s \in Known : stream[s].instance = i /\ thread[s] # "none" => s < c.stream

StartsWait ==
    \A i \in Instances : \A k \in 1 .. Len(queue[i]) :
        queue[i][k].op = "start" => IsStartOf(queue[i][k], i)

StartsInOrder ==
    \A i \in Instances : \A j, k \in 1 .. Len(queue[i]) :
        j < k /\ queue[i][j].op = "start" /\ queue[i][k].op = "start"
            => queue[i][j].stream < queue[i][k].stream

\* A stream that lives is the one that is started in its direction, or it is
\* waited for; the engine waits in two places only and for streams of its own.
ThreadsAreHeld ==
    \A s \in Known : Alive(s) =>
        \/ s \in joining[stream[s].instance]
        \/ started[stream[s].instance][Dir(stream[s].handle)] = s

JoinsNothingElse ==
    \A i \in Instances : engine[i] \notin {"joining", "closing"} => joining[i] = {}

NoThreadYet == \A s \in Streams \ Known : thread[s] = "none"

NobodyPanics == \A i \in Instances : engine[i] # "panicked"

EngineInv ==
    /\ FlagsComeTrue /\ StartsWait /\ StartsInOrder
    /\ ThreadsAreHeld /\ JoinsNothingElse /\ NoThreadYet /\ NobodyPanics

\* Instances are created one after the other, and so are the streams in them
\* and the buffers of a handle.
CreatedUpTo(n) ==
    /\ \A i \in Instances : engine[i] # "unused" <=> i <= n
    /\ instance \in {NoInstance, n}
    /\ \A s \in Known : stream[s].instance <= n

InstancesInOrder ==
    /\ \E n \in 0 .. MaxInstances : CreatedUpTo(n)
    /\ \A s, t \in Known : s < t => stream[s].instance <= stream[t].instance

BuffersInOrder ==
    /\ \A s, t \in Known :
        s < t /\ stream[s].handle = stream[t].handle => stream[s].buffers <= stream[t].buffers
    /\ \A s \in Known : stream[s].buffers <= buffers[stream[s].handle]

\* A stream that has been started comes after the end of those before it.
OneAfterTheOther ==
    \A s, t \in Known :
        /\ s < t /\ thread[t] # "none"
        /\ stream[s].instance = stream[t].instance
        /\ Dir(stream[s].handle) = Dir(stream[t].handle)
        => ~Alive(s)

\* The last prepare of a handle that is in use was for the buffers it has, and
\* a handle whose buffers are valid has had a stream that was started on them.
Uses(h, s) == s \in Known /\ stream[s].handle = h /\ stream[s].buffers = buffers[h]

HandleInUse(h) ==
    /\ app[h] \in {"open", "closed"} => ~valid[h] /\ current[h] = 0
    /\ app[h] \notin {"open", "closed"} => Uses(h, current[h])
    /\ app[h] = "waiting" => thread[current[h]] # "none"
    /\ valid[h] => \E s \in Known : Uses(h, s) /\ thread[s] # "none"

HandlesInUse == \A h \in Handles : HandleInUse(h)

\* Only the last stream of a handle waits for its start time.
PendingIsCurrent ==
    \A s \in Known : startTx[s] = "pending" => current[stream[s].handle] = s

BuffersInv ==
    InstancesInOrder /\ BuffersInOrder /\ OneAfterTheOther /\ HandlesInUse /\ PendingIsCurrent

-----------------------------------------------------------------------------
(* Commands *)

LEMMA NothingLeads ==
    ASSUME NEW q, q = <<>>, NEW d \in SUBSET Dirs
    PROVE  CommandsLead(q, d, d)
<1> DEFINE use == [k \in 1 .. Len(q) + 1 |-> d]
<1>1. Len(q) = 0
  OBVIOUS
<1>2. use \in [1 .. Len(q) + 1 -> SUBSET Dirs] /\ use[1] = d /\ use[Len(q) + 1] = d
  BY <1>1
<1>3. \A k \in 1 .. Len(q) : Leads(q[k], use[k], use[k + 1])
  BY <1>1
<1> HIDE DEF use
<1>4. QED
  BY <1>2, <1>3 DEF CommandsLead, LeadsAlong

\* A command at the end, which the directions in use then allow.
LEMMA OneMoreLeads ==
    ASSUME NEW q \in Seq(CommandRecord), NEW c \in CommandRecord,
           NEW before, NEW middle, NEW after \in SUBSET Dirs,
           CommandsLead(q, before, middle), Leads(c, middle, after)
    PROVE  CommandsLead(Append(q, c), before, after)
<1>1. PICK use \in [1 .. Len(q) + 1 -> SUBSET Dirs] : LeadsAlong(q, use, before, middle)
  BY DEF CommandsLead
<1> DEFINE more == [k \in 1 .. Len(q) + 2 |-> IF k = Len(q) + 2 THEN after ELSE use[k]]
<1>2. Len(q) \in Nat /\ Len(Append(q, c)) = Len(q) + 1
  OBVIOUS
<1>3. more \in [1 .. Len(Append(q, c)) + 1 -> SUBSET Dirs]
  BY <1>2
<1>4. more[1] = before /\ more[Len(Append(q, c)) + 1] = after
  BY <1>1, <1>2 DEF LeadsAlong
<1>5. ASSUME NEW k \in 1 .. Len(Append(q, c))
      PROVE  Leads(Append(q, c)[k], more[k], more[k + 1])
  <2>1. CASE k \in 1 .. Len(q)
    <3>1. Append(q, c)[k] = q[k] /\ more[k] = use[k] /\ more[k + 1] = use[k + 1]
      BY <1>2, <2>1
    <3>2. QED
      BY <1>1, <2>1, <3>1 DEF LeadsAlong
  <2>2. CASE k = Len(q) + 1
    <3>1. Append(q, c)[k] = c /\ more[k] = use[Len(q) + 1] /\ more[k + 1] = after
      BY <1>2, <2>2
    <3>2. QED
      BY <1>1, <3>1 DEF LeadsAlong
  <2>3. QED
    BY <1>2, <2>1, <2>2
<1> HIDE DEF more
<1>6. QED
  BY <1>3, <1>4, <1>5 DEF CommandsLead, LeadsAlong

\* The first command is legal now, and the others are once it is done.
LEMMA FirstLeads ==
    ASSUME NEW q \in Seq(CommandRecord), q # <<>>, NEW before, NEW after,
           CommandsLead(q, before, after)
    PROVE  \E middle \in SUBSET Dirs :
               Leads(Head(q), before, middle) /\ CommandsLead(Tail(q), middle, after)
<1>1. PICK use \in [1 .. Len(q) + 1 -> SUBSET Dirs] : LeadsAlong(q, use, before, after)
  BY DEF CommandsLead
<1> DEFINE rest == [k \in 1 .. Len(q) |-> use[k + 1]]
<1>2. Len(q) \in Nat \ {0} /\ Len(Tail(q)) = Len(q) - 1 /\ Head(q) = q[1]
  OBVIOUS
<1>3. use[2] \in SUBSET Dirs /\ Leads(Head(q), before, use[2])
  BY <1>1, <1>2 DEF LeadsAlong
<1>4. rest \in [1 .. Len(Tail(q)) + 1 -> SUBSET Dirs]
  BY <1>2
<1>5. rest[1] = use[2] /\ rest[Len(Tail(q)) + 1] = after
  BY <1>1, <1>2 DEF LeadsAlong
<1>6. ASSUME NEW k \in 1 .. Len(Tail(q))
      PROVE  Leads(Tail(q)[k], rest[k], rest[k + 1])
  <2>1. Tail(q)[k] = q[k + 1] /\ rest[k] = use[k + 1] /\ rest[k + 1] = use[(k + 1) + 1]
    BY <1>2
  <2>2. k + 1 \in 1 .. Len(q)
    BY <1>2
  <2>3. QED
    BY <1>1, <2>1, <2>2 DEF LeadsAlong
<1> HIDE DEF rest
<1>7. CommandsLead(Tail(q), use[2], after)
  BY <1>4, <1>5, <1>6 DEF CommandsLead, LeadsAlong
<1>8. QED
  BY <1>3, <1>7

-----------------------------------------------------------------------------
(* Types *)

TypesOK == HandlesOK /\ StreamsOK /\ EnginesOK

LEMMA DirIs ==
    ASSUME NEW h \in Handles
    PROVE  Dir(h) \in Dirs
  BY DEF Dir, Dirs

LEMMA CommandIs ==
    ASSUME NEW op \in {"start", "stop", "shutdown"}, NEW d \in Dirs, NEW s \in 0 .. MaxStreams
    PROVE  /\ Command(op, d, s) \in CommandRecord
           /\ Command(op, d, s).op = op
           /\ Command(op, d, s).dir = d
           /\ Command(op, d, s).stream = s
  BY DEF Command, CommandRecord

LEMMA KnownAre ==
    ASSUME TypesOK
    PROVE  /\ Len(stream) \in Nat /\ Known \subseteq Streams
           /\ \A s \in Known : /\ s \in Nat
                               /\ stream[s] \in StreamRecord
                               /\ stream[s].handle \in Handles
                               /\ stream[s].instance \in Instances
                               /\ stream[s].buffers \in Nat
<1> USE EngineAssumption DEF TypesOK, StreamsOK
<1>1. Len(stream) \in Nat /\ Known \subseteq Streams
  BY DEF Known, Streams
<1>2. ASSUME NEW s \in Known
      PROVE  s \in Nat /\ stream[s] \in StreamRecord
  BY <1>1 DEF Known
<1>3. QED
  BY <1>1, <1>2 DEF StreamRecord

LEMMA HeadIs ==
    ASSUME EnginesOK, NEW i \in Instances, queue[i] # <<>>
    PROVE  /\ queue[i] \in Seq(CommandRecord)
           /\ Head(queue[i]) \in CommandRecord
           /\ Head(queue[i]).op \in {"start", "stop", "shutdown"}
           /\ Head(queue[i]).dir \in Dirs
           /\ Head(queue[i]).stream \in 0 .. MaxStreams
           /\ Tail(queue[i]) \in Seq(CommandRecord)
<1>1. queue[i] \in Seq(CommandRecord)
  BY DEF EnginesOK
<1>2. Head(queue[i]) \in CommandRecord /\ Tail(queue[i]) \in Seq(CommandRecord)
  BY <1>1
<1>3. QED
  BY <1>1, <1>2 DEF CommandRecord

LEMMA InitTypes == Init => TypesOK
  BY EngineAssumption
     DEF Init, TypesOK, HandlesOK, StreamsOK, EnginesOK, NoInstance

\* What the end of a stream does to start times.
LEMMA DroppedIs ==
    ASSUME StreamsOK, NEW h \in Handles
    PROVE  /\ Dropped(h) \in [Streams -> {"none", "pending", "sent", "dropped"}]
           /\ \A s \in Streams : Dropped(h)[s] = "pending" => startTx[s] = "pending"
           /\ \A s \in Streams : Dropped(h)[s] = "pending" => s # current[h]
  BY DEF StreamsOK, Dropped

-----------------------------------------------------------------------------
(* What a prepare does, and the instance it does it in *)

\* The commands of a prepare.
LEMMA PrepareSends ==
    ASSUME TypesOK, NEW h \in Handles, Prepare(h)
    PROVE  LET i == Instance
               s == Len(stream) + 1
           IN  /\ i \in Instances /\ s \in Streams
               /\ queue' = [queue EXCEPT ![i] =
                              IF Dir(h) \in flags[i]
                              THEN Append(Append(queue[i], Command("stop", Dir(h), 0)),
                                          Command("start", Dir(h), s))
                              ELSE Append(queue[i], Command("start", Dir(h), s))]
               /\ flags' = [flags EXCEPT ![i] = @ \cup {Dir(h)}]
               /\ engine' = [engine EXCEPT ![i] = IF @ = "unused" THEN "starting" ELSE @]
               /\ instance' = i
               /\ stream' = Append(stream, [handle |-> h, instance |-> i,
                                            buffers |-> buffers[h]])
               /\ startTx' = [Dropped(h) EXCEPT ![s] = "pending"]
               /\ UNCHANGED <<buffers, media, valid, thread, started, joining, overlay>>
<1> DEFINE i == Instance
           s == Len(stream) + 1
           stop == Command("stop", Dir(h), 0)
           start == Command("start", Dir(h), s)
<1>1. /\ i \in Instances /\ s \in Streams
      /\ queue' = [queue EXCEPT ![i] = @ \o StopIfUsed(h) \o <<start>>]
      /\ flags' = [flags EXCEPT ![i] = @ \cup {Dir(h)}]
      /\ engine' = [engine EXCEPT ![i] = IF @ = "unused" THEN "starting" ELSE @]
      /\ instance' = i
      /\ stream' = Append(stream, [handle |-> h, instance |-> i, buffers |-> buffers[h]])
      /\ startTx' = [Dropped(h) EXCEPT ![s] = "pending"]
      /\ UNCHANGED <<buffers, media, valid, thread, started, joining, overlay>>
  BY DEF Prepare, Prepares
<1>2. queue \in [Instances -> Seq(CommandRecord)]
  BY DEF TypesOK, EnginesOK
<1>3. stop \in CommandRecord /\ start \in CommandRecord
  BY <1>1, DirIs, CommandIs, EngineAssumption DEF Streams
<1>4. StopIfUsed(h) = IF Dir(h) \in flags[i] THEN <<stop>> ELSE <<>>
  BY DEF StopIfUsed
<1> HIDE DEF i, s, stop, start
<1>5. queue[i] \o StopIfUsed(h) \o <<start>> =
        IF Dir(h) \in flags[i] THEN Append(Append(queue[i], stop), start)
        ELSE Append(queue[i], start)
  <2>1. queue[i] \in Seq(CommandRecord)
    BY <1>1, <1>2
  <2>2. CASE Dir(h) \in flags[i]
    <3>1. queue[i] \o <<stop>> = Append(queue[i], stop)
      BY <2>1, <1>3
    <3>2. Append(queue[i], stop) \o <<start>> = Append(Append(queue[i], stop), start)
      BY <2>1, <1>3
    <3>3. QED
      BY <1>4, <2>2, <3>1, <3>2
  <2>3. CASE Dir(h) \notin flags[i]
    <3>1. queue[i] \o <<>> = queue[i] /\ queue[i] \o <<start>> = Append(queue[i], start)
      BY <2>1, <1>3
    <3>2. QED
      BY <1>4, <2>3, <3>1
  <2>4. QED
    BY <2>2, <2>3
<1>6. queue' = [queue EXCEPT ![i] =
                  IF Dir(h) \in flags[i] THEN Append(Append(queue[i], stop), start)
                  ELSE Append(queue[i], start)]
  BY <1>1, <1>5
<1>7. QED
  BY <1>1, <1>6 DEF i, s, stop, start
\* The instance of a prepare is the last one, or a new one after it.
LEMMA InstanceIs ==
    ASSUME TypesOK, NEW n \in 0 .. MaxInstances, CreatedUpTo(n)
    PROVE  \/ instance # NoInstance /\ Instance = instance /\ Instance = n
           \/ instance = NoInstance /\ Instance = n + 1
<1>1. MaxInstances \in Nat /\ n \in Nat
  BY EngineAssumption
<1>2. CASE instance # NoInstance
  BY <1>2 DEF Instance, CreatedUpTo
<1>3. CASE instance = NoInstance
  <2>1. {i \in Instances : engine[i] # "unused"} = 1 .. n
    BY <1>1 DEF CreatedUpTo, Instances
  <2>2. Cardinality(1 .. n) = n
    <3>1. Cardinality(1 .. n) = IF 1 > n THEN 0 ELSE n - 1 + 1
      BY <1>1, FS_Interval
    <3>2. QED
      BY <1>1, <3>1
  <2>3. QED
    BY <1>3, <2>1, <2>2 DEF Instance
<1>4. QED
  BY <1>2, <1>3

-----------------------------------------------------------------------------
(* Types, step by step *)

LEMMA PrepareTypes ==
    ASSUME TypesOK, NEW h \in Handles, Prepare(h)
    PROVE  TypesOK'
<1> DEFINE i == Instance
           s == Len(stream) + 1
           record == [handle |-> h, instance |-> i, buffers |-> buffers[h]]
           sent == IF Dir(h) \in flags[i]
                   THEN Append(Append(queue[i], Command("stop", Dir(h), 0)),
                               Command("start", Dir(h), s))
                   ELSE Append(queue[i], Command("start", Dir(h), s))
<1>1. /\ i \in Instances /\ s \in Streams
      /\ queue' = [queue EXCEPT ![i] = sent]
      /\ flags' = [flags EXCEPT ![i] = @ \cup {Dir(h)}]
      /\ engine' = [engine EXCEPT ![i] = IF @ = "unused" THEN "starting" ELSE @]
      /\ instance' = i
      /\ stream' = Append(stream, record)
      /\ startTx' = [Dropped(h) EXCEPT ![s] = "pending"]
      /\ UNCHANGED <<buffers, media, valid, thread, started, joining, overlay>>
  BY PrepareSends
<1>2. app' = [app EXCEPT ![h] = "blocked"] /\ current' = [current EXCEPT ![h] = s]
  BY DEF Prepare, Prepares
<1>3. Command("stop", Dir(h), 0) \in CommandRecord /\ Command("start", Dir(h), s) \in CommandRecord
  BY <1>1, DirIs, CommandIs, EngineAssumption DEF Streams
<1>4. queue[i] \in Seq(CommandRecord)
  BY <1>1 DEF TypesOK, EnginesOK
<1>5. sent \in Seq(CommandRecord)
  BY <1>3, <1>4
<1>6. record \in StreamRecord
  BY <1>1 DEF TypesOK, HandlesOK, StreamRecord
<1>7. Dir(h) \in Dirs
  BY DirIs
<1>8. Dropped(h) \in [Streams -> {"none", "pending", "sent", "dropped"}]
  BY DroppedIs DEF TypesOK
<1> HIDE DEF i, s, record, sent
<1>9. HandlesOK'
  <2>1. s \in 0 .. MaxStreams
    BY <1>1, EngineAssumption DEF Streams
  <2>2. QED
    BY <1>1, <1>2, <2>1 DEF TypesOK, HandlesOK
<1>10. StreamsOK'
  <2>1. stream' \in Seq(StreamRecord) /\ Len(stream') = Len(stream) + 1
    BY <1>1, <1>6 DEF TypesOK, StreamsOK
  <2>2. Len(stream') <= MaxStreams
    BY <1>1, <2>1, EngineAssumption DEF Streams, s
  <2>3. startTx' \in [Streams -> {"none", "pending", "sent", "dropped"}]
    BY <1>1, <1>8
  <2>4. QED
    BY <1>1, <2>1, <2>2, <2>3 DEF TypesOK, StreamsOK
<1>11. EnginesOK'
  <2>1. queue' \in [Instances -> Seq(CommandRecord)]
    BY <1>1, <1>5 DEF TypesOK, EnginesOK
  <2>2. flags' \in [Instances -> SUBSET Dirs]
    BY <1>1, <1>7 DEF TypesOK, EnginesOK
  <2>3. engine' \in [Instances -> {"unused", "starting", "idle", "joining", "closing",
                                   "gone", "panicked"}]
    BY <1>1 DEF TypesOK, EnginesOK
  <2>4. QED
    BY <1>1, <2>1, <2>2, <2>3 DEF TypesOK, EnginesOK
<1>12. QED
  BY <1>9, <1>10, <1>11 DEF TypesOK

LEMMA HandleTypes ==
    ASSUME TypesOK, NEW h \in Handles,
           \/ Open(h) \/ HwParams(h) \/ PrepareStep(h) \/ Start(h) \/ Stop(h) \/ Close(h)
    PROVE  TypesOK'
<1> USE EngineAssumption DEF TypesOK
<1>1. CASE Open(h)
  BY <1>1 DEF Open, HandlesOK, StreamsOK, EnginesOK, streamVars, engineVars
<1>2. CASE HwParams(h)
  <2>1. buffers' \in [Handles -> 0 .. MaxBuffers]
    BY <1>2 DEF HwParams, HandlesOK
  <2>2. QED
    BY <1>2, <2>1 DEF HwParams, HandlesOK, StreamsOK, EnginesOK, streamVars, engineVars
<1>3. CASE PrepareStep(h)
  <2>1. CASE Answered(h)
    BY <2>1 DEF Answered, HandlesOK, StreamsOK, EnginesOK, streamVars, engineVars
  <2>2. CASE Prepared(h)
    BY <2>2 DEF Prepared, HandlesOK, StreamsOK, EnginesOK, streamVars, engineVars
  <2>3. CASE PrepareTimesOut(h)
    BY <2>3 DEF PrepareTimesOut, HandlesOK, StreamsOK, EnginesOK, streamVars, engineVars
  <2>4. QED
    BY <1>3, <2>1, <2>2, <2>3 DEF PrepareStep
<1>4. CASE Start(h)
  BY <1>4 DEF Start, HandlesOK, StreamsOK, EnginesOK, streamVars, engineVars
<1>5. CASE Stop(h)
  <2>1. Dir(h) \in Dirs /\ Command("stop", Dir(h), 0) \in CommandRecord
    BY DirIs, CommandIs
  <2>2. HandlesOK'
    BY <1>5 DEF Stop, Stops, HandlesOK
  <2>3. StreamsOK'
    <3>1. startTx' = Dropped(h) /\ UNCHANGED <<stream, thread>>
      BY <1>5 DEF Stop, Stops
    <3>2. QED
      BY <3>1, DroppedIs DEF StreamsOK
  <2>4. EnginesOK'
    <3>1. UNCHANGED <<engine, started, joining, overlay, instance>>
      BY <1>5 DEF Stop, Stops
    <3>2. CASE instance # NoInstance /\ Dir(h) \in flags[instance]
      <4>1. instance \in Instances
        BY <3>2 DEF EnginesOK
      <4>2. /\ queue' = [queue EXCEPT ![instance] = Append(@, Command("stop", Dir(h), 0))]
            /\ flags' = [flags EXCEPT ![instance] = @ \ {Dir(h)}]
        BY <1>5, <3>2 DEF Stop, Stops
      <4>3. queue' \in [Instances -> Seq(CommandRecord)]
        BY <2>1, <4>1, <4>2 DEF EnginesOK
      <4>4. flags' \in [Instances -> SUBSET Dirs]
        BY <4>1, <4>2 DEF EnginesOK
      <4>5. QED
        BY <3>1, <4>3, <4>4 DEF EnginesOK
    <3>3. CASE ~(instance # NoInstance /\ Dir(h) \in flags[instance])
      <4>1. UNCHANGED <<queue, flags>>
        BY <1>5, <3>3 DEF Stop, Stops
      <4>2. QED
        BY <3>1, <4>1 DEF EnginesOK
    <3>4. QED
      BY <3>2, <3>3
  <2>5. QED
    BY <2>2, <2>3, <2>4
<1>6. CASE Close(h)
  <2>1. Command("shutdown", Dir(h), 0) \in CommandRecord
    BY DirIs, CommandIs
  <2>2. HandlesOK' /\ StreamsOK'
    BY <1>6 DEF Close, HandlesOK, StreamsOK, streamVars
  <2>3. EnginesOK'
    <3>1. UNCHANGED <<engine, started, joining, overlay, flags>>
      BY <1>6 DEF Close
    <3>2. CASE instance # NoInstance /\ flags[instance] = {}
      <4>1. instance \in Instances
        BY <3>2 DEF EnginesOK
      <4>2. /\ queue' = [queue EXCEPT ![instance] = Append(@, Command("shutdown", Dir(h), 0))]
            /\ instance' = NoInstance
        BY <1>6, <3>2 DEF Close
      <4>3. queue' \in [Instances -> Seq(CommandRecord)]
        BY <2>1, <4>1, <4>2 DEF EnginesOK
      <4>4. QED
        BY <3>1, <4>2, <4>3 DEF EnginesOK
    <3>3. CASE ~(instance # NoInstance /\ flags[instance] = {})
      <4>1. UNCHANGED <<queue, instance>>
        BY <1>6, <3>3 DEF Close
      <4>2. QED
        BY <3>1, <4>1 DEF EnginesOK
    <3>4. QED
      BY <3>2, <3>3
  <2>4. QED
    BY <2>2, <2>3
<1>7. QED
  BY <1>1, <1>2, <1>3, <1>4, <1>5, <1>6

LEMMA EngineTypes ==
    ASSUME TypesOK, NEW i \in Instances, EngineStep(i) \/ OverlayComes(i)
    PROVE  TypesOK'
<1> USE EngineAssumption DEF TypesOK
<1>1. CASE EngineStarts(i)
  BY <1>1 DEF EngineStarts, HandlesOK, StreamsOK, EnginesOK, appVars, streamVars
<1>2. CASE StartStream(i)
  <2> DEFINE c == Head(queue[i])
  <2>1. /\ queue[i] # <<>>
        /\ queue' = [queue EXCEPT ![i] = Tail(@)]
        /\ started' = [started EXCEPT ![i][c.dir] = c.stream]
        /\ thread' = [thread EXCEPT ![c.stream] =
                          IF c.dir = "capture" THEN "run" ELSE "waitStart"]
        /\ UNCHANGED <<appVars, stream, startTx, engine, joining, overlay, instance, flags>>
    BY <1>2 DEF StartStream, Next1
  <2>2. c.dir \in Dirs /\ c.stream \in 0 .. MaxStreams /\ Tail(queue[i]) \in Seq(CommandRecord)
    BY <2>1, HeadIs
  <2> HIDE DEF c
  <2>3. queue' \in [Instances -> Seq(CommandRecord)]
    BY <2>1, <2>2 DEF EnginesOK
  <2>4. started' \in [Instances -> [Dirs -> 0 .. MaxStreams]]
    BY <2>1, <2>2 DEF EnginesOK
  <2>5. EnginesOK'
    BY <2>1, <2>3, <2>4 DEF EnginesOK
  <2>6. StreamsOK' /\ HandlesOK'
    BY <2>1 DEF StreamsOK, HandlesOK, appVars
  <2>7. QED
    BY <2>5, <2>6
<1>3. CASE StopStream(i)
  <2> DEFINE c == Head(queue[i])
             s == started[i][c.dir]
  <2>1. /\ queue[i] # <<>>
        /\ queue' = [queue EXCEPT ![i] = Tail(@)]
        /\ started' = [started EXCEPT ![i][c.dir] = 0]
        /\ IF s = 0
           THEN engine' = [engine EXCEPT ![i] = "panicked"] /\ UNCHANGED joining
           ELSE /\ engine' = [engine EXCEPT ![i] = "joining"]
                /\ joining' = [joining EXCEPT ![i] = {s}]
        /\ UNCHANGED <<appVars, streamVars, overlay, instance, flags>>
    BY <1>3 DEF StopStream, Next1
  <2>2. c.dir \in Dirs /\ Tail(queue[i]) \in Seq(CommandRecord)
    BY <2>1, HeadIs
  <2>3. s \in 0 .. MaxStreams
    BY <2>2 DEF EnginesOK
  <2> HIDE DEF c, s
  <2>4. queue' \in [Instances -> Seq(CommandRecord)]
    BY <2>1, <2>2 DEF EnginesOK
  <2>5. started' \in [Instances -> [Dirs -> 0 .. MaxStreams]]
    BY <2>1, <2>2 DEF EnginesOK
  <2>6. joining' \in [Instances -> SUBSET Streams]
    <3>1. joining \in [Instances -> SUBSET Streams]
      BY DEF EnginesOK
    <3>2. CASE s = 0
      BY <2>1, <3>1, <3>2
    <3>3. CASE s # 0
      <4>1. {s} \in SUBSET Streams
        BY <2>3, <3>3 DEF Streams
      <4>2. joining' = [joining EXCEPT ![i] = {s}]
        BY <2>1, <3>3
      <4>3. QED
        BY <3>1, <4>1, <4>2
    <3>4. QED
      BY <3>2, <3>3
  <2>7. EnginesOK'
    BY <2>1, <2>4, <2>5, <2>6 DEF EnginesOK
  <2>8. StreamsOK' /\ HandlesOK'
    BY <2>1 DEF StreamsOK, HandlesOK, appVars, streamVars
  <2>9. QED
    BY <2>7, <2>8
<1>4. CASE ShutDown(i)
  <2>1. /\ queue[i] # <<>>
        /\ queue' = [queue EXCEPT ![i] = Tail(@)]
        /\ engine' = [engine EXCEPT ![i] = "closing"]
        /\ joining' = [joining EXCEPT ![i] = {started[i][d] : d \in Dirs} \ {0}]
        /\ started' = [started EXCEPT ![i] = [d \in Dirs |-> 0]]
        /\ UNCHANGED <<appVars, streamVars, overlay, instance, flags>>
    BY <1>4 DEF ShutDown, Next1
  <2>2. Tail(queue[i]) \in Seq(CommandRecord)
    BY <2>1, HeadIs
  <2>3. queue' \in [Instances -> Seq(CommandRecord)]
    BY <2>1, <2>2 DEF EnginesOK
  <2>4. started' \in [Instances -> [Dirs -> 0 .. MaxStreams]]
    BY <2>1 DEF EnginesOK
  <2>5. joining' \in [Instances -> SUBSET Streams]
    <3>1. started[i] \in [Dirs -> 0 .. MaxStreams]
      BY DEF EnginesOK
    <3>2. {started[i][d] : d \in Dirs} \ {0} \subseteq Streams
      BY <3>1 DEF Streams
    <3>3. QED
      BY <2>1, <3>2 DEF EnginesOK
  <2>6. EnginesOK'
    BY <2>1, <2>3, <2>4, <2>5 DEF EnginesOK
  <2>7. StreamsOK' /\ HandlesOK'
    BY <2>1 DEF StreamsOK, HandlesOK, appVars, streamVars
  <2>8. QED
    BY <2>6, <2>7
<1>5. CASE Joined(i)
  BY <1>5 DEF Joined, HandlesOK, StreamsOK, EnginesOK, appVars, streamVars
<1>6. CASE OverlayComes(i)
  BY <1>6 DEF OverlayComes, HandlesOK, StreamsOK, EnginesOK, appVars, streamVars
<1>7. QED
  BY <1>1, <1>2, <1>3, <1>4, <1>5, <1>6 DEF EngineStep

LEMMA ThreadTypes ==
    ASSUME TypesOK, NEW s \in Streams, ThreadStep(s)
    PROVE  TypesOK'
<1>1. /\ \E t \in {"none", "waitStart", "waitClock", "run", "gone"} :
            thread' = [thread EXCEPT ![s] = t]
      /\ UNCHANGED <<appVars, stream, startTx, engineVars, instance, flags>>
  BY DEF ThreadStep
<1>2. thread' \in [Streams -> {"none", "waitStart", "waitClock", "run", "gone"}]
  BY <1>1 DEF TypesOK, StreamsOK
<1>3. QED
  BY <1>1, <1>2 DEF TypesOK, HandlesOK, StreamsOK, EnginesOK, appVars, engineVars

LEMMA NextTypes == TypesOK /\ [Next]_vars => TypesOK'
<1> SUFFICES ASSUME TypesOK, [Next]_vars
             PROVE  TypesOK'
  OBVIOUS
<1>1. CASE UNCHANGED vars
  BY <1>1 DEF vars, appVars, streamVars, engineVars, TypesOK, HandlesOK, StreamsOK, EnginesOK
<1>2. CASE Next
  BY <1>2, PrepareTypes, HandleTypes, EngineTypes, ThreadTypes DEF Next
<1>3. QED
  BY <1>1, <1>2
-----------------------------------------------------------------------------
(* The engine finds what it is to stop: the steps of the handles *)

LEMMA InitEngine == Init => EngineInv
<1> SUFFICES ASSUME Init
             PROVE  EngineInv
  OBVIOUS
<1>1. Known = {}
  BY DEF Init, Known
<1>2. FlagsComeTrue
  <2>1. ASSUME NEW i \in Instances
        PROVE  CommandsLead(queue[i], InUse(started[i]), flags[i])
    <3>1. queue[i] = <<>> /\ flags[i] = {} /\ InUse(started[i]) = {}
      BY DEF Init, InUse
    <3>2. QED
      BY <3>1, NothingLeads
  <2>2. QED
    BY <2>1 DEF FlagsComeTrue
<1>3. StartsWait /\ StartsInOrder
  <2>1. \A i \in Instances : 1 .. Len(queue[i]) = {}
    BY DEF Init
  <2>2. QED
    BY <2>1 DEF StartsWait, StartsInOrder
<1>4. ThreadsAreHeld /\ JoinsNothingElse /\ NoThreadYet /\ NobodyPanics
  BY <1>1 DEF Init, ThreadsAreHeld, JoinsNothingElse, NoThreadYet, NobodyPanics
<1>5. QED
  BY <1>2, <1>3, <1>4 DEF EngineInv

LEMMA EngineStays ==
    ASSUME EngineInv,
           UNCHANGED <<stream, thread, queue, engine, started, joining, flags>>
    PROVE  EngineInv'
  BY DEF EngineInv, FlagsComeTrue, StartsWait, IsStartOf, StartsInOrder, ThreadsAreHeld,
         Alive, JoinsNothingElse, NoThreadYet, NobodyPanics, Known

\* Another command that is not a start.
LEMMA NoStartMore ==
    ASSUME NEW q \in Seq(CommandRecord), NEW c \in CommandRecord, c.op # "start"
    PROVE  \A k \in 1 .. Len(Append(q, c)) :
               Append(q, c)[k].op = "start" => k \in 1 .. Len(q) /\ Append(q, c)[k] = q[k]
<1>1. Len(q) \in Nat /\ Len(Append(q, c)) = Len(q) + 1
  OBVIOUS
<1>2. \A k \in 1 .. Len(q) : Append(q, c)[k] = q[k]
  OBVIOUS
<1>3. Append(q, c)[Len(q) + 1] = c
  OBVIOUS
<1>4. QED
  BY <1>1, <1>2, <1>3

\* A Stop or a Shutdown is sent.
LEMMA SentInv ==
    ASSUME TypesOK, EngineInv, NEW i \in Instances, NEW c \in CommandRecord, c.op # "start",
           NEW use \in SUBSET Dirs, Leads(c, flags[i], use),
           queue' = [queue EXCEPT ![i] = Append(@, c)],
           flags' = [flags EXCEPT ![i] = use],
           UNCHANGED <<stream, thread, engine, started, joining>>
    PROVE  EngineInv'
<1>1. /\ queue \in [Instances -> Seq(CommandRecord)]
      /\ flags \in [Instances -> SUBSET Dirs]
      /\ queue[i] \in Seq(CommandRecord)
  BY DEF TypesOK, EnginesOK
<1>2. /\ queue'[i] = Append(queue[i], c) /\ flags'[i] = use
      /\ \A j \in Instances : j # i => queue'[j] = queue[j] /\ flags'[j] = flags[j]
  BY <1>1
<1>3. FlagsComeTrue'
  <2>1. ASSUME NEW j \in Instances
        PROVE  CommandsLead(queue'[j], InUse(started[j]), flags'[j])
    <3>1. CommandsLead(queue[j], InUse(started[j]), flags[j])
      BY DEF EngineInv, FlagsComeTrue
    <3>2. CASE j = i
      <4>1. CommandsLead(Append(queue[i], c), InUse(started[i]), use)
        BY <1>1, <3>1, <3>2, OneMoreLeads
      <4>2. QED
        BY <1>2, <3>2, <4>1
    <3>3. CASE j # i
      BY <1>2, <3>1, <3>3
    <3>4. QED
      BY <3>2, <3>3
  <2>2. QED
    BY <2>1 DEF FlagsComeTrue
<1>4. \A j \in Instances : \A k \in 1 .. Len(queue'[j]) :
         queue'[j][k].op = "start" => k \in 1 .. Len(queue[j]) /\ queue'[j][k] = queue[j][k]
  BY <1>1, <1>2, NoStartMore
<1>5. StartsWait'
  <2>1. \A d : \A j : IsStartOf(d, j) => IsStartOf(d, j)'
    BY DEF IsStartOf, Known
  <2>2. QED
    BY <1>4, <2>1 DEF EngineInv, StartsWait, IsStartOf, Known
<1>6. StartsInOrder'
  BY <1>4 DEF EngineInv, StartsInOrder
<1>7. (ThreadsAreHeld /\ JoinsNothingElse /\ NoThreadYet /\ NobodyPanics)'
  BY DEF EngineInv, ThreadsAreHeld, Alive, JoinsNothingElse, NoThreadYet, NobodyPanics, Known
<1>8. QED
  BY <1>3, <1>5, <1>6, <1>7 DEF EngineInv

LEMMA StopInv ==
    ASSUME TypesOK, EngineInv, NEW h \in Handles, Stop(h)
    PROVE  EngineInv'
<1>1. UNCHANGED <<stream, thread, engine, started, joining>>
  BY DEF Stop, Stops
<1>2. CASE instance # NoInstance /\ Dir(h) \in flags[instance]
  <2> DEFINE c == Command("stop", Dir(h), 0)
             use == flags[instance] \ {Dir(h)}
  <2>1. instance \in Instances
    BY <1>2 DEF TypesOK, EnginesOK
  <2>2. /\ queue' = [queue EXCEPT ![instance] = Append(@, c)]
        /\ flags' = [flags EXCEPT ![instance] = use]
    BY <1>2 DEF Stop, Stops
  <2>3. c \in CommandRecord /\ c.op = "stop" /\ c.dir = Dir(h)
    BY DirIs, CommandIs, EngineAssumption
  <2>4. use \in SUBSET Dirs
    BY <2>1 DEF TypesOK, EnginesOK
  <2>5. Leads(c, flags[instance], use)
    BY <1>2, <2>3 DEF Leads
  <2> HIDE DEF c, use
  <2>6. QED
    BY <1>1, <2>1, <2>2, <2>3, <2>4, <2>5, SentInv
<1>3. CASE ~(instance # NoInstance /\ Dir(h) \in flags[instance])
  <2>1. UNCHANGED <<queue, flags>>
    BY <1>3 DEF Stop, Stops
  <2>2. QED
    BY <1>1, <2>1, EngineStays
<1>4. QED
  BY <1>2, <1>3

LEMMA CloseInv ==
    ASSUME TypesOK, EngineInv, NEW h \in Handles, Close(h)
    PROVE  EngineInv'
<1>1. UNCHANGED <<stream, thread, engine, started, joining, flags>>
  BY DEF Close, streamVars
<1>2. CASE instance # NoInstance /\ flags[instance] = {}
  <2> DEFINE c == Command("shutdown", Dir(h), 0)
  <2>1. instance \in Instances
    BY <1>2 DEF TypesOK, EnginesOK
  <2>2. queue' = [queue EXCEPT ![instance] = Append(@, c)]
    BY <1>2 DEF Close
  <2>3. flags' = [flags EXCEPT ![instance] = {}]
    BY <1>1, <1>2, <2>1 DEF TypesOK, EnginesOK
  <2>4. c \in CommandRecord /\ c.op = "shutdown"
    BY DirIs, CommandIs, EngineAssumption
  <2>5. Leads(c, flags[instance], {})
    BY <1>2, <2>4 DEF Leads
  <2> HIDE DEF c
  <2>6. QED
    BY <1>1, <2>1, <2>2, <2>3, <2>4, <2>5, SentInv
<1>3. CASE ~(instance # NoInstance /\ flags[instance] = {})
  <2>1. UNCHANGED queue
    BY <1>3 DEF Close
  <2>2. QED
    BY <1>1, <2>1, EngineStays
<1>4. QED
  BY <1>2, <1>3

\* The streams after a prepare.
LEMMA PrepareAdds ==
    ASSUME TypesOK, NoThreadYet, NEW h \in Handles, Prepare(h)
    PROVE  LET s == Len(stream) + 1
           IN  /\ s \in Nat /\ s \notin Known /\ s \in Streams
               /\ Known' = Known \cup {s}
               /\ \A t \in Known : t < s /\ stream'[t] = stream[t]
               /\ stream'[s] = [handle |-> h, instance |-> Instance, buffers |-> buffers[h]]
               /\ thread' = thread /\ thread[s] = "none"
<1> DEFINE s == Len(stream) + 1
           record == [handle |-> h, instance |-> Instance, buffers |-> buffers[h]]
<1>1. s \in Streams /\ Instance \in Instances /\ stream' = Append(stream, record)
      /\ thread' = thread
  BY PrepareSends
<1>2. stream \in Seq(StreamRecord) /\ Len(stream) \in Nat
  BY DEF TypesOK, StreamsOK
<1>3. record \in StreamRecord
  BY <1>1 DEF TypesOK, HandlesOK, StreamRecord
<1> HIDE DEF record
<1>4. Len(stream') = s /\ stream'[s] = record /\ \A t \in 1 .. Len(stream) : stream'[t] = stream[t]
  BY <1>1, <1>2, <1>3
<1>5. Known' = Known \cup {s} /\ s \notin Known /\ s \in Nat /\ \A t \in Known : t < s
  BY <1>2, <1>4 DEF Known
<1>6. thread[s] = "none"
  BY <1>1, <1>5 DEF NoThreadYet
<1>7. QED
  BY <1>1, <1>4, <1>5, <1>6 DEF Known, record
LEMMA PrepareInv ==
    ASSUME TypesOK, EngineInv, NEW h \in Handles, Prepare(h)
    PROVE  EngineInv'
<1> DEFINE i == Instance
           s == Len(stream) + 1
           stop == Command("stop", Dir(h), 0)
           start == Command("start", Dir(h), s)
           base == IF Dir(h) \in flags[i] THEN Append(queue[i], stop) ELSE queue[i]
           free == flags[i] \ {Dir(h)}
<1>1. /\ i \in Instances /\ s \in Streams
      /\ queue' = [queue EXCEPT ![i] = IF Dir(h) \in flags[i]
                                       THEN Append(Append(queue[i], stop), start)
                                       ELSE Append(queue[i], start)]
      /\ flags' = [flags EXCEPT ![i] = @ \cup {Dir(h)}]
      /\ engine' = [engine EXCEPT ![i] = IF @ = "unused" THEN "starting" ELSE @]
      /\ UNCHANGED <<thread, started, joining>>
  BY PrepareSends
<1>2. queue' = [queue EXCEPT ![i] = Append(base, start)]
  BY <1>1
<1>3. /\ queue \in [Instances -> Seq(CommandRecord)]
      /\ flags \in [Instances -> SUBSET Dirs]
      /\ queue[i] \in Seq(CommandRecord) /\ flags[i] \in SUBSET Dirs
  BY <1>1 DEF TypesOK, EnginesOK
<1>4. /\ stop \in CommandRecord /\ stop.op = "stop" /\ stop.dir = Dir(h)
      /\ start \in CommandRecord /\ start.op = "start" /\ start.dir = Dir(h) /\ start.stream = s
      /\ Dir(h) \in Dirs
  BY <1>1, DirIs, CommandIs, EngineAssumption DEF Streams
<1>5. /\ s \in Nat /\ s \notin Known /\ Known' = Known \cup {s}
      /\ \A t \in Known : t < s /\ stream'[t] = stream[t]
      /\ stream'[s] = [handle |-> h, instance |-> i, buffers |-> buffers[h]]
      /\ thread[s] = "none"
  BY PrepareAdds DEF EngineInv
<1>6. stream'[s].instance = i /\ stream'[s].handle = h
  BY <1>5
<1> HIDE DEF i, s, stop, start
<1>7. base \in Seq(CommandRecord) /\ Len(base) \in Nat
  BY <1>3, <1>4
<1>8. \A k \in 1 .. Len(base) :
         base[k].op = "start" => k \in 1 .. Len(queue[i]) /\ base[k] = queue[i][k]
  BY <1>3, <1>4, NoStartMore
<1>9. CommandsLead(base, InUse(started[i]), free)
  <2>1. CommandsLead(queue[i], InUse(started[i]), flags[i])
    BY <1>1 DEF EngineInv, FlagsComeTrue
  <2>2. CASE Dir(h) \in flags[i]
    <3>1. Leads(stop, flags[i], free)
      BY <1>4, <2>2 DEF Leads
    <3>2. CommandsLead(Append(queue[i], stop), InUse(started[i]), free)
      BY <1>3, <1>4, <2>1, <3>1, OneMoreLeads
    <3>3. QED
      BY <2>2, <3>2
  <2>3. CASE Dir(h) \notin flags[i]
    <3>1. free = flags[i] /\ base = queue[i]
      BY <2>3
    <3>2. QED
      BY <2>1, <3>1
  <2>4. QED
    BY <2>2, <2>3
<1>10. CommandsLead(Append(base, start), InUse(started[i]), flags[i] \cup {Dir(h)})
  <2>1. Leads(start, free, flags[i] \cup {Dir(h)})
    BY <1>4 DEF Leads
  <2>2. flags[i] \cup {Dir(h)} \in SUBSET Dirs
    BY <1>3, <1>4
  <2> HIDE DEF base, free
  <2>3. QED
    BY <1>4, <1>7, <1>9, <2>1, <2>2, OneMoreLeads
<1> HIDE DEF base, free
<1>11. /\ queue'[i] = Append(base, start) /\ flags'[i] = flags[i] \cup {Dir(h)}
       /\ \A j \in Instances : j # i => queue'[j] = queue[j] /\ flags'[j] = flags[j]
  BY <1>1, <1>2, <1>3
<1>12. FlagsComeTrue'
  <2>1. ASSUME NEW j \in Instances
        PROVE  CommandsLead(queue'[j], InUse(started[j]), flags'[j])
    BY <1>10, <1>11 DEF EngineInv, FlagsComeTrue
  <2>2. QED
    BY <1>1, <2>1 DEF FlagsComeTrue
<1>13. /\ Len(queue'[i]) = Len(base) + 1 /\ queue'[i][Len(base) + 1] = start
       /\ \A k \in 1 .. Len(base) : queue'[i][k] = base[k]
  BY <1>4, <1>7, <1>11
<1> DEFINE StartsNow(c, j) ==
               /\ c.stream \in Known'
               /\ stream'[c.stream].instance = j
               /\ c.dir = Dir(stream'[c.stream].handle)
               /\ \A t \in Known' :
                    stream'[t].instance = j /\ thread'[t] # "none" => t < c.stream
<1>14. ASSUME NEW c, NEW j \in Instances, IsStartOf(c, j)
       PROVE  StartsNow(c, j)
  <2>1. c.stream \in Known /\ c.stream \in Known' /\ stream'[c.stream] = stream[c.stream]
    BY <1>5, <1>14 DEF IsStartOf
  <2>2. ASSUME NEW t \in Known', stream'[t].instance = j, thread'[t] # "none"
        PROVE  t < c.stream
    <3>1. t \in Known /\ stream'[t] = stream[t] /\ thread[t] # "none"
      BY <1>1, <1>5, <2>2
    <3>2. QED
      BY <1>14, <2>2, <3>1 DEF IsStartOf
  <2>3. QED
    BY <1>14, <2>1, <2>2 DEF IsStartOf
<1>15. StartsWait'
  <2>1. ASSUME NEW j \in Instances, NEW k \in 1 .. Len(queue'[j]), queue'[j][k].op = "start"
        PROVE  StartsNow(queue'[j][k], j)
    <3> HIDE DEF StartsNow
    <3>1. CASE j # i
      <4>1. queue'[j] = queue[j]
        BY <1>11, <3>1
      <4>2. IsStartOf(queue[j][k], j)
        BY <2>1, <4>1 DEF EngineInv, StartsWait
      <4>3. QED
        BY <1>14, <4>1, <4>2
    <3>2. CASE j = i /\ k \in 1 .. Len(base)
      <4>1. k \in 1 .. Len(queue[i]) /\ queue'[i][k] = queue[i][k]
        BY <1>8, <1>13, <2>1, <3>2
      <4>2. IsStartOf(queue[i][k], i)
        BY <1>1, <2>1, <3>2, <4>1 DEF EngineInv, StartsWait
      <4>3. QED
        BY <1>1, <1>14, <3>2, <4>1, <4>2
    <3>3. CASE j = i /\ k = Len(base) + 1
      <4>1. queue'[i][k] = start
        BY <1>13, <3>3
      <4>2. \A t \in Known' : thread'[t] # "none" => t < s
        BY <1>1, <1>5
      <4>3. s \in Known'
        BY <1>5
      <4>4. StartsNow(start, i)
        BY <1>4, <1>6, <4>2, <4>3 DEF StartsNow
      <4>5. QED
        BY <3>3, <4>1, <4>4
    <3>4. QED
      BY <1>7, <1>13, <3>1, <3>2, <3>3
  <2>2. QED
    BY <2>1 DEF StartsWait, IsStartOf
<1> HIDE DEF StartsNow
<1>16. StartsInOrder'
  <2>1. ASSUME NEW j \in Instances, NEW k \in 1 .. Len(queue'[j]), NEW l \in 1 .. Len(queue'[j]),
               k < l, queue'[j][k].op = "start", queue'[j][l].op = "start"
        PROVE  queue'[j][k].stream < queue'[j][l].stream
    <3>1. CASE j # i
      BY <1>11, <2>1, <3>1 DEF EngineInv, StartsInOrder
    <3>2. CASE j = i
      <4>1. k \in 1 .. Len(base)
        BY <1>7, <1>13, <2>1, <3>2
      <4>2. k \in 1 .. Len(queue[i]) /\ queue'[i][k] = queue[i][k]
        BY <1>8, <1>13, <2>1, <3>2, <4>1
      <4>3. CASE l \in 1 .. Len(base)
        <5>1. l \in 1 .. Len(queue[i]) /\ queue'[i][l] = queue[i][l]
          BY <1>8, <1>13, <2>1, <3>2, <4>3
        <5>2. QED
          BY <1>1, <2>1, <3>2, <4>2, <5>1 DEF EngineInv, StartsInOrder
      <4>4. CASE l = Len(base) + 1
        <5>1. IsStartOf(queue[i][k], i)
          BY <1>1, <2>1, <3>2, <4>2 DEF EngineInv, StartsWait
        <5>2. queue[i][k].stream < s
          BY <1>5, <5>1 DEF IsStartOf
        <5>3. QED
          BY <1>4, <1>13, <3>2, <4>2, <4>4, <5>2
      <4>5. QED
        BY <1>7, <1>13, <3>2, <4>3, <4>4
    <3>3. QED
      BY <3>1, <3>2
  <2>2. QED
    BY <2>1 DEF StartsInOrder
<1>17. ThreadsAreHeld'
  <2>1. ASSUME NEW t \in Known', Alive(t)'
        PROVE  t \in joining[stream'[t].instance]
               \/ started[stream'[t].instance][Dir(stream'[t].handle)] = t
    <3>1. t \in Known /\ stream'[t] = stream[t] /\ Alive(t)
      BY <1>1, <1>5, <2>1 DEF Alive
    <3>2. QED
      BY <3>1 DEF EngineInv, ThreadsAreHeld
  <2>2. QED
    BY <1>1, <2>1 DEF ThreadsAreHeld
<1>18. JoinsNothingElse' /\ NobodyPanics'
  <2>1. \A j \in Instances : \/ engine'[j] = engine[j]
                             \/ engine[j] = "unused" /\ engine'[j] = "starting"
    BY <1>1 DEF TypesOK, EnginesOK
  <2>2. QED
    BY <1>1, <2>1 DEF EngineInv, JoinsNothingElse, NobodyPanics
<1>19. NoThreadYet'
  BY <1>1, <1>5 DEF EngineInv, NoThreadYet
<1>20. QED
  BY <1>12, <1>15, <1>16, <1>17, <1>18, <1>19 DEF EngineInv

-----------------------------------------------------------------------------
(* ... and the steps of the engine *)

\* What is left when the first command is taken.
LEMMA TailIs ==
    ASSUME NEW q \in Seq(CommandRecord), q # <<>>
    PROVE  /\ Len(q) \in Nat \ {0} /\ Len(Tail(q)) = Len(q) - 1 /\ Head(q) = q[1]
           /\ \A k \in 1 .. Len(Tail(q)) : k + 1 \in 1 .. Len(q) /\ Tail(q)[k] = q[k + 1]
<1>1. Len(q) \in Nat \ {0} /\ Len(Tail(q)) = Len(q) - 1 /\ Head(q) = q[1]
  OBVIOUS
<1>2. \A k \in 1 .. Len(Tail(q)) : k + 1 \in 1 .. Len(q) /\ Tail(q)[k] = q[k + 1]
  BY <1>1
<1>3. QED
  BY <1>1, <1>2

LEMMA TakenOrder ==
    ASSUME TypesOK, StartsInOrder, NEW i \in Instances, queue[i] # <<>>,
           queue' = [queue EXCEPT ![i] = Tail(@)]
    PROVE  StartsInOrder'
<1>1. queue \in [Instances -> Seq(CommandRecord)] /\ queue[i] \in Seq(CommandRecord)
  BY DEF TypesOK, EnginesOK
<1>2. queue'[i] = Tail(queue[i]) /\ \A j \in Instances : j # i => queue'[j] = queue[j]
  BY <1>1
<1>3. ASSUME NEW j \in Instances, NEW k \in 1 .. Len(queue'[j]), NEW l \in 1 .. Len(queue'[j]),
             k < l, queue'[j][k].op = "start", queue'[j][l].op = "start"
      PROVE  queue'[j][k].stream < queue'[j][l].stream
  <2>1. CASE j # i
    BY <1>2, <1>3, <2>1 DEF StartsInOrder
  <2>2. CASE j = i
    <3>1. /\ k + 1 \in 1 .. Len(queue[i]) /\ queue'[i][k] = queue[i][k + 1]
          /\ l + 1 \in 1 .. Len(queue[i]) /\ queue'[i][l] = queue[i][l + 1]
      BY <1>1, <1>2, <2>2, TailIs
    <3>2. k + 1 < l + 1
      BY <1>3
    <3>3. QED
      BY <1>3, <2>2, <3>1, <3>2 DEF StartsInOrder
  <2>3. QED
    BY <2>1, <2>2
<1>4. QED
  BY <1>3 DEF StartsInOrder

\* A command is taken that leaves the threads alone.
LEMMA TakenWait ==
    ASSUME TypesOK, StartsWait, NEW i \in Instances, queue[i] # <<>>,
           queue' = [queue EXCEPT ![i] = Tail(@)], UNCHANGED <<stream, thread>>
    PROVE  StartsWait'
<1>1. queue \in [Instances -> Seq(CommandRecord)] /\ queue[i] \in Seq(CommandRecord)
  BY DEF TypesOK, EnginesOK
<1>2. queue'[i] = Tail(queue[i]) /\ \A j \in Instances : j # i => queue'[j] = queue[j]
  BY <1>1
<1>3. ASSUME NEW j \in Instances, NEW k \in 1 .. Len(queue'[j]), queue'[j][k].op = "start"
      PROVE  IsStartOf(queue'[j][k], j)
  <2>1. CASE j # i
    BY <1>2, <1>3, <2>1 DEF StartsWait
  <2>2. CASE j = i
    <3>1. k + 1 \in 1 .. Len(queue[i]) /\ queue'[i][k] = queue[i][k + 1]
      BY <1>1, <1>2, <2>2, TailIs
    <3>2. QED
      BY <1>3, <2>2, <3>1 DEF StartsWait
  <2>3. QED
    BY <2>1, <2>2
<1>4. QED
  BY <1>3 DEF StartsWait, IsStartOf, Known

\* The flags still come true when the first command has been executed.
LEMMA TakenFlags ==
    ASSUME TypesOK, FlagsComeTrue, NEW i \in Instances, queue[i] # <<>>,
           queue' = [queue EXCEPT ![i] = Tail(@)], flags' = flags,
           \A j \in Instances : j # i => started'[j] = started[j],
           \A use \in SUBSET Dirs :
               Leads(Head(queue[i]), InUse(started[i]), use) => InUse(started'[i]) = use
    PROVE  FlagsComeTrue'
<1>1. queue \in [Instances -> Seq(CommandRecord)] /\ queue[i] \in Seq(CommandRecord)
  BY DEF TypesOK, EnginesOK
<1>2. queue'[i] = Tail(queue[i]) /\ \A j \in Instances : j # i => queue'[j] = queue[j]
  BY <1>1
<1>3. CommandsLead(queue[i], InUse(started[i]), flags[i])
  BY DEF FlagsComeTrue
<1>4. PICK use \in SUBSET Dirs : /\ Leads(Head(queue[i]), InUse(started[i]), use)
                                 /\ CommandsLead(Tail(queue[i]), use, flags[i])
  BY <1>1, <1>3, FirstLeads
<1>5. ASSUME NEW j \in Instances
      PROVE  CommandsLead(queue'[j], InUse(started'[j]), flags[j])
  <2>1. CASE j # i
    <3>1. CommandsLead(queue[j], InUse(started[j]), flags[j])
      BY DEF FlagsComeTrue
    <3>2. QED
      BY <1>2, <2>1, <3>1
  <2>2. CASE j = i
    <3>1. InUse(started'[i]) = use
      BY <1>4
    <3>2. QED
      BY <1>2, <1>4, <2>2, <3>1
  <2>3. QED
    BY <2>1, <2>2
<1>6. QED
  BY <1>5 DEF FlagsComeTrue, InUse
\* A start that is executed: nothing is started in its direction, and no stream
\* of its direction lives.
LEMMA StartIsFree ==
    ASSUME TypesOK, EngineInv, NEW i \in Instances, Next1(i, "start")
    PROVE  LET c == Head(queue[i])
           IN  /\ IsStartOf(c, i) /\ c.dir \in Dirs /\ started[i][c.dir] = 0
               /\ \A s \in Known : /\ stream[s].instance = i
                                   /\ Dir(stream[s].handle) = c.dir
                                   => ~Alive(s)
<1> DEFINE c == Head(queue[i])
<1>1. engine[i] = "idle" /\ queue[i] # <<>> /\ c.op = "start"
  BY DEF Next1
<1>2. queue[i] \in Seq(CommandRecord) /\ c \in CommandRecord /\ c.dir \in Dirs
  BY <1>1, HeadIs DEF TypesOK
<1>3. IsStartOf(c, i)
  <2>1. 1 \in 1 .. Len(queue[i]) /\ c = queue[i][1]
    BY <1>1, <1>2
  <2> HIDE DEF c
  <2>2. QED
    BY <1>1, <2>1 DEF EngineInv, StartsWait
<1>4. started[i][c.dir] = 0
  <2>1. CommandsLead(queue[i], InUse(started[i]), flags[i])
    BY DEF EngineInv, FlagsComeTrue
  <2>2. PICK use : Leads(c, InUse(started[i]), use)
    BY <1>1, <1>2, <2>1, FirstLeads
  <2>3. c.dir \notin InUse(started[i])
    BY <1>1, <2>2 DEF Leads
  <2>4. QED
    BY <1>2, <2>3 DEF InUse
<1> HIDE DEF c
<1>5. joining[i] = {}
  BY <1>1 DEF EngineInv, JoinsNothingElse
<1>6. ASSUME NEW s \in Known, stream[s].instance = i, Dir(stream[s].handle) = c.dir
      PROVE  ~Alive(s)
  <2>1. s # 0
    BY DEF Known
  <2>2. QED
    BY <1>4, <1>5, <1>6, <2>1 DEF EngineInv, ThreadsAreHeld
<1>7. QED
  BY <1>2, <1>3, <1>4, <1>6 DEF c

LEMMA StartStreamInv ==
    ASSUME TypesOK, EngineInv, NEW i \in Instances, StartStream(i)
    PROVE  EngineInv'
<1> DEFINE c == Head(queue[i])
           t == c.stream
           first == IF c.dir = "capture" THEN "run" ELSE "waitStart"
<1>1. /\ Next1(i, "start")
      /\ queue' = [queue EXCEPT ![i] = Tail(@)]
      /\ started' = [started EXCEPT ![i][c.dir] = t]
      /\ thread' = [thread EXCEPT ![t] = first]
      /\ UNCHANGED <<stream, engine, joining, flags>>
  BY DEF StartStream
<1>2. engine[i] = "idle" /\ queue[i] # <<>> /\ c.op = "start"
  BY <1>1 DEF Next1
<1>3. IsStartOf(c, i) /\ c.dir \in Dirs /\ started[i][c.dir] = 0
  BY <1>1, StartIsFree
<1>4. t \in Known /\ stream[t].instance = i /\ c.dir = Dir(stream[t].handle)
  BY <1>3 DEF IsStartOf
<1>5. t \in Streams /\ t # 0
  BY <1>4, KnownAre DEF Known
<1>6. queue[i] \in Seq(CommandRecord)
  BY DEF TypesOK, EnginesOK
<1>7. /\ started'[i][c.dir] = t
      /\ \A d \in Dirs : d # c.dir => started'[i][d] = started[i][d]
      /\ \A j \in Instances : j # i => started'[j] = started[j]
  BY <1>1, <1>3 DEF TypesOK, EnginesOK
<1>8. /\ queue'[i] = Tail(queue[i])
      /\ \A j \in Instances : j # i => queue'[j] = queue[j]
  BY <1>1 DEF TypesOK, EnginesOK
<1>9. \A s \in Streams : s # t => thread'[s] = thread[s]
  BY <1>1 DEF TypesOK, StreamsOK
<1> HIDE DEF first
<1>10. FlagsComeTrue'
  <2>1. ASSUME NEW use \in SUBSET Dirs, Leads(c, InUse(started[i]), use)
        PROVE  InUse(started'[i]) = use
    <3>1. use = InUse(started[i]) \cup {c.dir}
      BY <1>2, <2>1 DEF Leads
    <3>2. QED
      BY <1>3, <1>5, <1>7, <3>1 DEF InUse
  <2>2. QED
    BY <1>1, <1>2, <1>7, <2>1, TakenFlags DEF EngineInv
<1>11. StartsInOrder'
  BY <1>1, <1>2, TakenOrder DEF EngineInv
<1>12. StartsWait'
  <2> DEFINE StartsNow(d, j) ==
                 /\ d.stream \in Known
                 /\ stream[d.stream].instance = j
                 /\ d.dir = Dir(stream[d.stream].handle)
                 /\ \A s \in Known :
                      stream[s].instance = j /\ thread'[s] # "none" => s < d.stream
  <2>1. ASSUME NEW j \in Instances, NEW k \in 1 .. Len(queue'[j]), queue'[j][k].op = "start"
        PROVE  StartsNow(queue'[j][k], j)
    <3>1. CASE j # i
      <4>1. IsStartOf(queue'[j][k], j)
        BY <1>8, <2>1, <3>1 DEF EngineInv, StartsWait
      <4>2. ASSUME NEW s \in Known, stream[s].instance = j
            PROVE  thread'[s] = thread[s]
        BY <1>4, <1>9, <3>1, <4>2, KnownAre
      <4>3. QED
        BY <4>1, <4>2 DEF IsStartOf
    <3>2. CASE j = i
      <4>1. k + 1 \in 1 .. Len(queue[i]) /\ queue'[i][k] = queue[i][k + 1]
        BY <1>2, <1>6, <1>8, <3>2, TailIs
      <4>2. IsStartOf(queue'[i][k], i)
        BY <2>1, <3>2, <4>1 DEF EngineInv, StartsWait
      <4>3. t < queue'[i][k].stream
        <5>1. 1 \in 1 .. Len(queue[i]) /\ c = queue[i][1] /\ 1 < k + 1
          BY <1>2, <1>6, <3>2, <4>1, TailIs
        <5> HIDE DEF c, t
        <5>2. queue[i][1].stream < queue[i][k + 1].stream
          BY <1>2, <2>1, <3>2, <4>1, <5>1 DEF EngineInv, StartsInOrder
        <5>3. QED
          BY <4>1, <5>1, <5>2 DEF t
      <4>4. ASSUME NEW s \in Known, stream[s].instance = i, thread'[s] # "none"
            PROVE  s < queue'[i][k].stream
        <5>1. CASE s = t
          BY <4>3, <5>1
        <5>2. CASE s # t
          <6>1. thread'[s] = thread[s]
            BY <1>9, <5>2, KnownAre
          <6>2. QED
            BY <4>2, <4>4, <6>1 DEF IsStartOf
        <5>3. QED
          BY <5>1, <5>2
      <4>5. QED
        BY <3>2, <4>2, <4>4 DEF IsStartOf
    <3>3. QED
      BY <3>1, <3>2
  <2>2. QED
    BY <1>1, <2>1 DEF StartsWait, IsStartOf, Known
<1>13. ThreadsAreHeld'
  <2>1. ASSUME NEW s \in Known, Alive(s)'
        PROVE  \/ s \in joining[stream[s].instance]
               \/ started'[stream[s].instance][Dir(stream[s].handle)] = s
    <3>1. CASE s = t
      BY <1>4, <1>7, <3>1
    <3>2. CASE s # t
      <4>1. thread'[s] = thread[s] /\ stream[s].instance \in Instances
            /\ stream[s].handle \in Handles
        BY <1>9, <3>2, KnownAre
      <4>2. Alive(s)
        BY <2>1, <4>1 DEF Alive
      <4>3. ~(stream[s].instance = i /\ Dir(stream[s].handle) = c.dir)
        BY <1>1, <4>2, StartIsFree
      <4>4. Dir(stream[s].handle) \in Dirs
        BY <4>1, DirIs
      <4>5. started'[stream[s].instance][Dir(stream[s].handle)] =
              started[stream[s].instance][Dir(stream[s].handle)]
        BY <1>7, <4>1, <4>3, <4>4
      <4>6. QED
        BY <4>2, <4>5 DEF EngineInv, ThreadsAreHeld
    <3>3. QED
      BY <3>1, <3>2
  <2>2. QED
    BY <1>1, <2>1 DEF ThreadsAreHeld, Known
<1>14. NoThreadYet'
  BY <1>1, <1>4, <1>9 DEF EngineInv, NoThreadYet, Known
<1>15. JoinsNothingElse' /\ NobodyPanics'
  BY <1>1 DEF EngineInv, JoinsNothingElse, NobodyPanics
<1>16. QED
  BY <1>10, <1>11, <1>12, <1>13, <1>14, <1>15 DEF EngineInv

LEMMA StopStreamInv ==
    ASSUME TypesOK, EngineInv, NEW i \in Instances, StopStream(i)
    PROVE  EngineInv'
<1> DEFINE c == Head(queue[i])
           s == started[i][c.dir]
<1>1. /\ Next1(i, "stop")
      /\ queue' = [queue EXCEPT ![i] = Tail(@)]
      /\ started' = [started EXCEPT ![i][c.dir] = 0]
      /\ IF s = 0
         THEN engine' = [engine EXCEPT ![i] = "panicked"] /\ UNCHANGED joining
         ELSE /\ engine' = [engine EXCEPT ![i] = "joining"]
              /\ joining' = [joining EXCEPT ![i] = {s}]
      /\ UNCHANGED <<stream, thread, flags>>
  BY DEF StopStream, streamVars
<1>2. engine[i] = "idle" /\ queue[i] # <<>> /\ c.op = "stop"
  BY <1>1 DEF Next1
<1>3. queue[i] \in Seq(CommandRecord) /\ c.dir \in Dirs
  BY <1>2, HeadIs DEF TypesOK
<1>4. s # 0
  <2>1. CommandsLead(queue[i], InUse(started[i]), flags[i])
    BY DEF EngineInv, FlagsComeTrue
  <2>2. PICK use : Leads(c, InUse(started[i]), use)
    BY <1>2, <1>3, <2>1, FirstLeads
  <2>3. c.dir \in InUse(started[i])
    BY <1>2, <2>2 DEF Leads
  <2>4. QED
    BY <2>3 DEF InUse
<1>5. joining[i] = {}
  BY <1>2 DEF EngineInv, JoinsNothingElse
<1>6. /\ engine' = [engine EXCEPT ![i] = "joining"]
      /\ joining' = [joining EXCEPT ![i] = {s}]
  BY <1>1, <1>4
<1>7. /\ started'[i][c.dir] = 0
      /\ \A d \in Dirs : d # c.dir => started'[i][d] = started[i][d]
      /\ \A j \in Instances : j # i => started'[j] = started[j]
  BY <1>1, <1>3 DEF TypesOK, EnginesOK
<1> HIDE DEF c, s
<1>8. /\ engine'[i] = "joining" /\ joining'[i] = {s}
      /\ \A j \in Instances : j # i => engine'[j] = engine[j] /\ joining'[j] = joining[j]
  BY <1>6 DEF TypesOK, EnginesOK
<1>9. FlagsComeTrue'
  <2>1. ASSUME NEW use \in SUBSET Dirs, Leads(c, InUse(started[i]), use)
        PROVE  InUse(started'[i]) = use
    <3>1. use = InUse(started[i]) \ {c.dir}
      BY <1>2, <2>1 DEF Leads
    <3>2. QED
      BY <1>3, <1>7, <3>1 DEF InUse
  <2>2. QED
    BY <1>1, <1>2, <1>7, <2>1, TakenFlags DEF EngineInv, c
<1>10. StartsInOrder' /\ StartsWait'
  BY <1>1, <1>2, TakenOrder, TakenWait DEF EngineInv
<1>11. ThreadsAreHeld'
  <2>1. ASSUME NEW t \in Known, Alive(t)
        PROVE  \/ t \in joining'[stream[t].instance]
               \/ started'[stream[t].instance][Dir(stream[t].handle)] = t
    <3>1. stream[t].instance \in Instances /\ Dir(stream[t].handle) \in Dirs
      BY KnownAre, DirIs
    <3>2. \/ t \in joining[stream[t].instance]
          \/ started[stream[t].instance][Dir(stream[t].handle)] = t
      BY <2>1 DEF EngineInv, ThreadsAreHeld
    <3>3. CASE stream[t].instance # i
      BY <1>7, <1>8, <3>1, <3>2, <3>3
    <3>4. CASE stream[t].instance = i /\ Dir(stream[t].handle) = c.dir
      BY <1>5, <1>8, <3>2, <3>4 DEF s
    <3>5. CASE stream[t].instance = i /\ Dir(stream[t].handle) # c.dir
      BY <1>5, <1>7, <3>1, <3>2, <3>5
    <3>6. QED
      BY <3>3, <3>4, <3>5
  <2>2. QED
    BY <1>1, <2>1 DEF ThreadsAreHeld, Known, Alive
<1>12. JoinsNothingElse' /\ NobodyPanics' /\ NoThreadYet'
  BY <1>1, <1>8 DEF EngineInv, JoinsNothingElse, NobodyPanics, NoThreadYet, Known
<1>13. QED
  BY <1>9, <1>10, <1>11, <1>12 DEF EngineInv

LEMMA ShutDownInv ==
    ASSUME TypesOK, EngineInv, NEW i \in Instances, ShutDown(i)
    PROVE  EngineInv'
<1> DEFINE c == Head(queue[i])
           rest == {started[i][d] : d \in Dirs} \ {0}
<1>1. /\ Next1(i, "shutdown")
      /\ queue' = [queue EXCEPT ![i] = Tail(@)]
      /\ engine' = [engine EXCEPT ![i] = "closing"]
      /\ joining' = [joining EXCEPT ![i] = rest]
      /\ started' = [started EXCEPT ![i] = [d \in Dirs |-> 0]]
      /\ UNCHANGED <<stream, thread, flags>>
  BY DEF ShutDown, streamVars
<1>2. engine[i] = "idle" /\ queue[i] # <<>> /\ c.op = "shutdown"
  BY <1>1 DEF Next1
<1>3. joining[i] = {}
  BY <1>2 DEF EngineInv, JoinsNothingElse
<1>4. /\ engine'[i] = "closing" /\ joining'[i] = rest /\ started'[i] = [d \in Dirs |-> 0]
      /\ \A j \in Instances :
            j # i => engine'[j] = engine[j] /\ joining'[j] = joining[j] /\ started'[j] = started[j]
  BY <1>1 DEF TypesOK, EnginesOK
<1>5. FlagsComeTrue'
  <2>1. ASSUME NEW use \in SUBSET Dirs, Leads(c, InUse(started[i]), use)
        PROVE  InUse(started'[i]) = use
    <3>1. use = {}
      BY <1>2, <2>1 DEF Leads
    <3>2. QED
      BY <1>4, <3>1 DEF InUse
  <2>2. \A j \in Instances : j # i => started'[j] = started[j]
    BY <1>4
  <2>3. flags' = flags /\ queue[i] # <<>> /\ FlagsComeTrue
    BY <1>1, <1>2 DEF EngineInv
  <2>4. queue' = [queue EXCEPT ![i] = Tail(@)]
    BY <1>1
  <2>5. QED
    BY <2>1, <2>2, <2>3, <2>4, TakenFlags
<1>6. StartsInOrder' /\ StartsWait'
  BY <1>1, <1>2, TakenOrder, TakenWait DEF EngineInv
<1>7. ThreadsAreHeld'
  <2>1. ASSUME NEW t \in Known, Alive(t)
        PROVE  \/ t \in joining'[stream[t].instance]
               \/ started'[stream[t].instance][Dir(stream[t].handle)] = t
    <3>1. stream[t].instance \in Instances /\ Dir(stream[t].handle) \in Dirs /\ t # 0
      BY KnownAre, DirIs DEF Known
    <3>2. \/ t \in joining[stream[t].instance]
          \/ started[stream[t].instance][Dir(stream[t].handle)] = t
      BY <2>1 DEF EngineInv, ThreadsAreHeld
    <3>3. CASE stream[t].instance # i
      BY <1>4, <3>1, <3>2, <3>3
    <3>4. CASE stream[t].instance = i
      BY <1>3, <1>4, <3>1, <3>2, <3>4
    <3>5. QED
      BY <3>3, <3>4
  <2>2. QED
    BY <1>1, <2>1 DEF ThreadsAreHeld, Known, Alive
<1>8. JoinsNothingElse' /\ NobodyPanics' /\ NoThreadYet'
  BY <1>1, <1>4 DEF EngineInv, JoinsNothingElse, NobodyPanics, NoThreadYet, Known
<1>9. QED
  BY <1>5, <1>6, <1>7, <1>8 DEF EngineInv

LEMMA JoinedInv ==
    ASSUME TypesOK, EngineInv, NEW i \in Instances, Joined(i)
    PROVE  EngineInv'
<1>1. /\ \A s \in joining[i] : thread[s] = "gone"
      /\ joining' = [joining EXCEPT ![i] = {}]
      /\ UNCHANGED <<stream, thread, queue, started, flags>>
      /\ engine'[i] \in {"idle", "gone"}
      /\ \A j \in Instances : j # i => engine'[j] = engine[j]
  BY DEF Joined, streamVars, TypesOK, EnginesOK
<1>2. joining'[i] = {} /\ \A j \in Instances : j # i => joining'[j] = joining[j]
  BY <1>1 DEF TypesOK, EnginesOK
<1>3. ThreadsAreHeld'
  <2>1. ASSUME NEW t \in Known, Alive(t)
        PROVE  \/ t \in joining'[stream[t].instance]
               \/ started[stream[t].instance][Dir(stream[t].handle)] = t
    <3>1. stream[t].instance \in Instances
      BY KnownAre
    <3>2. t \notin joining[i]
      BY <1>1, <2>1 DEF Alive
    <3>3. QED
      BY <1>2, <2>1, <3>1, <3>2 DEF EngineInv, ThreadsAreHeld
  <2>2. QED
    BY <1>1, <2>1 DEF ThreadsAreHeld, Known, Alive
<1>4. FlagsComeTrue' /\ StartsWait' /\ StartsInOrder' /\ NoThreadYet'
  BY <1>1 DEF EngineInv, FlagsComeTrue, StartsWait, IsStartOf, StartsInOrder, NoThreadYet, Known
<1>5. JoinsNothingElse' /\ NobodyPanics'
  BY <1>1, <1>2 DEF EngineInv, JoinsNothingElse, NobodyPanics
<1>6. QED
  BY <1>3, <1>4, <1>5 DEF EngineInv

\* A thread goes on, and once it is gone it stays so.
LEMMA ThreadGoesOn ==
    ASSUME TypesOK, NEW s \in Streams, ThreadStep(s)
    PROVE  /\ UNCHANGED <<stream, startTx, queue, engine, started, joining, flags, appVars>>
           /\ s \in Known
           /\ \A t \in Streams : /\ Alive(t)' => Alive(t)
                                 /\ thread'[t] # "none" <=> thread[t] # "none"
<1>1. /\ Alive(s) /\ s \in Known
      /\ \E t \in {"waitClock", "run", "gone"} : thread' = [thread EXCEPT ![s] = t]
      /\ UNCHANGED <<stream, startTx, queue, engine, started, joining, flags, appVars>>
  BY DEF ThreadStep, Alive, engineVars, Known
<1>2. /\ thread'[s] \in {"waitClock", "run", "gone"}
      /\ \A t \in Streams : t # s => thread'[t] = thread[t]
  BY <1>1 DEF TypesOK, StreamsOK
<1>3. QED
  BY <1>1, <1>2 DEF Alive

LEMMA ThreadInv ==
    ASSUME TypesOK, EngineInv, NEW s \in Streams, ThreadStep(s)
    PROVE  EngineInv'
<1>1. /\ UNCHANGED <<stream, queue, engine, started, joining, flags>>
      /\ \A t \in Streams : /\ Alive(t)' => Alive(t)
                            /\ thread'[t] # "none" <=> thread[t] # "none"
  BY ThreadGoesOn
<1>2. Known \subseteq Streams
  BY KnownAre
<1>3. ThreadsAreHeld' /\ NoThreadYet'
  BY <1>1, <1>2 DEF EngineInv, ThreadsAreHeld, NoThreadYet, Known
<1>4. StartsWait'
  BY <1>1, <1>2 DEF EngineInv, StartsWait, IsStartOf, Known
<1>5. FlagsComeTrue' /\ StartsInOrder' /\ JoinsNothingElse' /\ NobodyPanics'
  BY <1>1 DEF EngineInv, FlagsComeTrue, StartsInOrder, JoinsNothingElse, NobodyPanics
<1>6. QED
  BY <1>3, <1>4, <1>5 DEF EngineInv

LEMMA EngineNext == TypesOK /\ EngineInv /\ [Next]_vars => EngineInv'
<1> SUFFICES ASSUME TypesOK, EngineInv, [Next]_vars
             PROVE  EngineInv'
  OBVIOUS
<1>1. ASSUME NEW h \in Handles, Open(h) \/ HwParams(h) \/ PrepareStep(h) \/ Start(h)
      PROVE  EngineInv'
  <2>1. UNCHANGED <<stream, thread, queue, engine, started, joining, flags>>
    BY <1>1 DEF Open, HwParams, PrepareStep, Answered, Prepared, PrepareTimesOut, Start,
                streamVars, engineVars
  <2>2. QED
    BY <2>1, EngineStays
<1>2. ASSUME NEW i \in Instances, EngineStarts(i)
      PROVE  EngineInv'
  <2>1. /\ UNCHANGED <<stream, thread, queue, started, joining, flags>>
        /\ engine[i] = "starting" /\ engine'[i] = "idle"
        /\ \A j \in Instances : j # i => engine'[j] = engine[j]
    BY <1>2 DEF EngineStarts, streamVars, TypesOK, EnginesOK
  <2>2. JoinsNothingElse' /\ NobodyPanics'
    BY <2>1 DEF EngineInv, JoinsNothingElse, NobodyPanics
  <2>3. FlagsComeTrue' /\ StartsWait' /\ StartsInOrder' /\ ThreadsAreHeld' /\ NoThreadYet'
    BY <2>1 DEF EngineInv, FlagsComeTrue, StartsWait, IsStartOf, StartsInOrder, ThreadsAreHeld,
                Alive, NoThreadYet, Known
  <2>4. QED
    BY <2>2, <2>3 DEF EngineInv
<1>3. ASSUME NEW i \in Instances, OverlayComes(i)
      PROVE  EngineInv'
  <2>1. UNCHANGED <<stream, thread, queue, engine, started, joining, flags>>
    BY <1>3 DEF OverlayComes, streamVars
  <2>2. QED
    BY <2>1, EngineStays
<1>4. CASE UNCHANGED vars
  BY <1>4, EngineStays DEF vars, streamVars, engineVars
<1>5. CASE Next
  BY <1>1, <1>2, <1>3, <1>5, PrepareInv, StopInv, CloseInv, StartStreamInv, StopStreamInv,
     ShutDownInv, JoinedInv, ThreadInv
     DEF Next, EngineStep
<1>6. QED
  BY <1>4, <1>5
-----------------------------------------------------------------------------
(* Instances, streams and buffers are created in order *)

LEMMA InitBuffers == Init => BuffersInv
<1> SUFFICES ASSUME Init
             PROVE  BuffersInv
  OBVIOUS
<1>1. Known = {}
  BY DEF Init, Known
<1>2. CreatedUpTo(0)
  BY <1>1 DEF Init, CreatedUpTo, Instances
<1>3. 0 \in 0 .. MaxInstances
  BY EngineAssumption
<1>4. HandlesInUse
  BY DEF Init, HandlesInUse, HandleInUse
<1>5. QED
  BY <1>1, <1>2, <1>3, <1>4
     DEF BuffersInv, InstancesInOrder, BuffersInOrder, OneAfterTheOther, PendingIsCurrent

LEMMA InstancesStay ==
    ASSUME InstancesInOrder, UNCHANGED stream, instance' \in {instance, NoInstance},
           \A i \in Instances : engine'[i] # "unused" <=> engine[i] # "unused"
    PROVE  InstancesInOrder'
<1>1. PICK n \in 0 .. MaxInstances : CreatedUpTo(n)
  BY DEF InstancesInOrder
<1>2. CreatedUpTo(n)'
  BY <1>1 DEF CreatedUpTo, Known
<1>3. QED
  BY <1>2 DEF InstancesInOrder, Known

LEMMA PrepareInstances ==
    ASSUME TypesOK, EngineInv, InstancesInOrder, NEW h \in Handles, Prepare(h)
    PROVE  InstancesInOrder'
<1> DEFINE i == Instance
           s == Len(stream) + 1
<1>1. PICK n \in 0 .. MaxInstances : CreatedUpTo(n)
  BY DEF InstancesInOrder
<1>2. \/ instance # NoInstance /\ i = instance /\ i = n
      \/ instance = NoInstance /\ i = n + 1
  BY <1>1, InstanceIs
<1>3. /\ i \in Instances /\ instance' = i
      /\ engine' = [engine EXCEPT ![i] = IF @ = "unused" THEN "starting" ELSE @]
  BY PrepareSends
<1>4. /\ s \in Nat /\ s \notin Known /\ Known' = Known \cup {s}
      /\ \A t \in Known : t < s /\ stream'[t] = stream[t]
      /\ stream'[s] = [handle |-> h, instance |-> i, buffers |-> buffers[h]]
  BY PrepareAdds DEF EngineInv
<1>5. stream'[s].instance = i
  BY <1>4
<1>6. n \in Nat /\ MaxInstances \in Nat /\ Instances = 1 .. MaxInstances
  BY EngineAssumption DEF Instances
<1> HIDE DEF i, s
<1>7. i \in 0 .. MaxInstances
  BY <1>3, <1>6
<1>8. \A j \in Instances : engine'[j] # "unused" <=> engine[j] # "unused" \/ j = i
  BY <1>3 DEF TypesOK, EnginesOK
<1>9. \A t \in Known : stream[t].instance \in Nat /\ stream[t].instance <= n
  BY <1>1, <1>6, KnownAre DEF CreatedUpTo
<1>10. \A t \in Known : stream[t].instance <= i
  BY <1>2, <1>6, <1>9
<1>11. PICK m \in 0 .. MaxInstances : m = i
  BY <1>7
<1>12. CreatedUpTo(m)'
  <2>1. \A j \in Instances : engine'[j] # "unused" <=> j <= m
    BY <1>1, <1>2, <1>3, <1>6, <1>8, <1>11 DEF CreatedUpTo
  <2>2. \A t \in Known' : stream'[t].instance <= m
    BY <1>4, <1>5, <1>6, <1>7, <1>10, <1>11
  <2>3. QED
    BY <1>3, <1>11, <2>1, <2>2 DEF CreatedUpTo
<1>13. ASSUME NEW t \in Known', NEW u \in Known', t < u
       PROVE  stream'[t].instance <= stream'[u].instance
  <2>1. \A k \in Known : k \in Nat
    BY KnownAre
  <2>2. t \in Known
    BY <1>4, <1>13, <2>1
  <2>3. QED
    BY <1>4, <1>5, <1>10, <1>13, <2>2 DEF InstancesInOrder
<1>14. QED
  BY <1>12, <1>13 DEF InstancesInOrder

LEMMA InstancesNext == TypesOK /\ EngineInv /\ InstancesInOrder /\ [Next]_vars => InstancesInOrder'
<1> SUFFICES ASSUME TypesOK, EngineInv, InstancesInOrder, [Next]_vars
             PROVE  InstancesInOrder'
  OBVIOUS
<1>1. ASSUME NEW h \in Handles,
             Open(h) \/ HwParams(h) \/ PrepareStep(h) \/ Start(h) \/ Stop(h) \/ Close(h)
      PROVE  InstancesInOrder'
  <2>1. UNCHANGED <<stream, engine>> /\ instance' \in {instance, NoInstance}
    BY <1>1 DEF Open, HwParams, PrepareStep, Answered, Prepared, PrepareTimesOut, Start, Stop,
                Stops, Close, streamVars, engineVars
  <2>2. QED
    BY <2>1, InstancesStay
<1>2. ASSUME NEW i \in Instances, EngineStep(i) \/ OverlayComes(i)
      PROVE  InstancesInOrder'
  <2>1. /\ UNCHANGED <<stream, instance>>
        /\ \/ engine' = engine
           \/ /\ engine[i] # "unused"
              /\ \E e \in {"idle", "panicked", "joining", "closing", "gone"} :
                    engine' = [engine EXCEPT ![i] = e]
    <3>1. CASE EngineStarts(i)
      BY <3>1 DEF EngineStarts, streamVars
    <3>2. CASE StartStream(i)
      BY <3>2 DEF StartStream
    <3>3. CASE StopStream(i)
      BY <3>3 DEF StopStream, Next1, streamVars
    <3>4. CASE ShutDown(i)
      BY <3>4 DEF ShutDown, Next1, streamVars
    <3>5. CASE Joined(i)
      BY <3>5 DEF Joined, streamVars
    <3>6. CASE OverlayComes(i)
      BY <3>6 DEF OverlayComes, streamVars
    <3>7. QED
      BY <1>2, <3>1, <3>2, <3>3, <3>4, <3>5, <3>6 DEF EngineStep
  <2>2. \A j \in Instances : engine'[j] # "unused" <=> engine[j] # "unused"
    BY <2>1 DEF TypesOK, EnginesOK
  <2>3. QED
    BY <2>1, <2>2, InstancesStay
<1>3. ASSUME NEW s \in Streams, ThreadStep(s)
      PROVE  InstancesInOrder'
  <2>1. UNCHANGED <<stream, engine, instance>>
    BY <1>3 DEF ThreadStep, engineVars
  <2>2. QED
    BY <2>1, InstancesStay
<1>4. CASE UNCHANGED vars
  BY <1>4, InstancesStay DEF vars, streamVars, engineVars
<1>5. CASE Next
  BY <1>1, <1>2, <1>3, <1>5, PrepareInstances DEF Next
<1>6. QED
  BY <1>4, <1>5

\* All other steps leave the streams and the buffers of the handles alone.
LEMMA StreamsStay ==
    ASSUME [Next]_vars, \A h \in Handles : ~Prepare(h) /\ ~HwParams(h)
    PROVE  UNCHANGED <<stream, buffers>>
<1>1. ASSUME NEW h \in Handles, Open(h) \/ PrepareStep(h) \/ Start(h) \/ Stop(h) \/ Close(h)
      PROVE  UNCHANGED <<stream, buffers>>
  BY <1>1 DEF Open, PrepareStep, Answered, Prepared, PrepareTimesOut, Start, Stop, Stops, Close,
              streamVars
<1>2. ASSUME NEW i \in Instances, EngineStep(i) \/ OverlayComes(i)
      PROVE  UNCHANGED <<stream, buffers>>
  BY <1>2 DEF EngineStep, EngineStarts, StartStream, StopStream, ShutDown, Joined, OverlayComes,
              streamVars, appVars
<1>3. ASSUME NEW s \in Streams, ThreadStep(s)
      PROVE  UNCHANGED <<stream, buffers>>
  BY <1>3 DEF ThreadStep, appVars
<1>4. QED
  BY <1>1, <1>2, <1>3 DEF Next, vars, appVars, streamVars

LEMMA BuffersNext == TypesOK /\ EngineInv /\ BuffersInOrder /\ [Next]_vars => BuffersInOrder'
<1> SUFFICES ASSUME TypesOK, EngineInv, BuffersInOrder, [Next]_vars
             PROVE  BuffersInOrder'
  OBVIOUS
<1>1. /\ buffers \in [Handles -> 0 .. MaxBuffers] /\ MaxBuffers \in Nat
      /\ \A t \in Known : /\ t \in Nat /\ stream[t].handle \in Handles
                          /\ stream[t].buffers \in Nat
                          /\ stream[t].buffers <= buffers[stream[t].handle]
  BY KnownAre, EngineAssumption DEF TypesOK, HandlesOK, BuffersInOrder
<1>2. ASSUME NEW h \in Handles, Prepare(h)
      PROVE  BuffersInOrder'
  <2> DEFINE s == Len(stream) + 1
  <2>1. /\ s \in Nat /\ s \notin Known /\ Known' = Known \cup {s}
        /\ \A t \in Known : t < s /\ stream'[t] = stream[t]
        /\ stream'[s] = [handle |-> h, instance |-> Instance, buffers |-> buffers[h]]
    BY <1>2, PrepareAdds DEF EngineInv
  <2>2. stream'[s].handle = h /\ stream'[s].buffers = buffers[h] /\ buffers' = buffers
    BY <1>2, <2>1, PrepareSends
  <2> HIDE DEF s
  <2>3. \A t \in Known' : stream'[t].buffers <= buffers'[stream'[t].handle]
    BY <1>1, <2>1, <2>2
  <2>4. ASSUME NEW t \in Known', NEW u \in Known', t < u, stream'[t].handle = stream'[u].handle
        PROVE  stream'[t].buffers <= stream'[u].buffers
    <3>1. t \in Known
      BY <1>1, <2>1, <2>4
    <3>2. QED
      BY <1>1, <2>1, <2>2, <2>4, <3>1 DEF BuffersInOrder
  <2>5. QED
    BY <2>3, <2>4 DEF BuffersInOrder
<1>3. ASSUME NEW h \in Handles, HwParams(h)
      PROVE  BuffersInOrder'
  <2>1. stream' = stream /\ buffers' = [buffers EXCEPT ![h] = @ + 1]
    BY <1>3 DEF HwParams, streamVars
  <2>2. \A t \in Known : stream[t].buffers <= buffers'[stream[t].handle]
    BY <1>1, <2>1
  <2>3. QED
    BY <2>1, <2>2 DEF BuffersInOrder, Known
<1>4. CASE UNCHANGED <<stream, buffers>>
  BY <1>4 DEF BuffersInOrder, Known
<1>5. QED
  BY <1>2, <1>3, <1>4, StreamsStay
-----------------------------------------------------------------------------
(* Streams of one direction live one after the other *)

LEMMA OneStays ==
    ASSUME TypesOK, OneAfterTheOther, UNCHANGED stream,
           \A t \in Streams : /\ Alive(t)' => Alive(t)
                              /\ thread'[t] # "none" <=> thread[t] # "none"
    PROVE  OneAfterTheOther'
<1>1. Known \subseteq Streams
  BY KnownAre
<1>2. QED
  BY <1>1 DEF OneAfterTheOther, Known

LEMMA OneNext == TypesOK /\ EngineInv /\ OneAfterTheOther /\ [Next]_vars => OneAfterTheOther'
<1> SUFFICES ASSUME TypesOK, EngineInv, OneAfterTheOther, [Next]_vars
             PROVE  OneAfterTheOther'
  OBVIOUS
<1>1. ASSUME NEW h \in Handles, Prepare(h)
      PROVE  OneAfterTheOther'
  <2> DEFINE s == Len(stream) + 1
  <2>1. /\ s \in Nat /\ s \notin Known /\ Known' = Known \cup {s}
        /\ \A t \in Known : t < s /\ stream'[t] = stream[t]
        /\ thread' = thread /\ thread[s] = "none"
    BY <1>1, PrepareAdds DEF EngineInv
  <2> HIDE DEF s
  <2>2. \A t \in Known : t \in Nat
    BY KnownAre
  <2>3. ASSUME NEW t \in Known', NEW u \in Known', t < u, thread'[u] # "none",
               stream'[t].instance = stream'[u].instance,
               Dir(stream'[t].handle) = Dir(stream'[u].handle)
        PROVE  ~Alive(t)'
    <3>1. u \in Known /\ t \in Known
      BY <2>1, <2>2, <2>3
    <3>2. ~Alive(t)
      BY <2>1, <2>3, <3>1 DEF OneAfterTheOther
    <3>3. QED
      BY <2>1, <3>2 DEF Alive
  <2>4. QED
    BY <2>3 DEF OneAfterTheOther
<1>2. ASSUME NEW i \in Instances, StartStream(i)
      PROVE  OneAfterTheOther'
  <2> DEFINE c == Head(queue[i])
             x == c.stream
  <2>1. /\ Next1(i, "start") /\ stream' = stream
        /\ thread' = [thread EXCEPT ![x] = IF c.dir = "capture" THEN "run" ELSE "waitStart"]
    BY <1>2 DEF StartStream
  <2>2. /\ IsStartOf(c, i)
        /\ \A s \in Known : /\ stream[s].instance = i
                            /\ Dir(stream[s].handle) = c.dir
                            => ~Alive(s)
    BY <2>1, StartIsFree
  <2>3. /\ x \in Known /\ stream[x].instance = i /\ c.dir = Dir(stream[x].handle)
        /\ \A s \in Known : stream[s].instance = i /\ thread[s] # "none" => s < x
    BY <2>2 DEF IsStartOf
  <2> HIDE DEF x, c
  <2>4. \A s \in Known : s # x => thread'[s] = thread[s]
    BY <2>1, KnownAre DEF TypesOK, StreamsOK
  <2>5. \A s \in Known : s \in Nat
    BY KnownAre
  <2>6. ASSUME NEW t \in Known, NEW u \in Known, t < u, thread'[u] # "none",
               stream[t].instance = stream[u].instance,
               Dir(stream[t].handle) = Dir(stream[u].handle)
        PROVE  ~Alive(t)'
    <3>1. CASE u = x
      <4>1. ~Alive(t) /\ t # x
        BY <2>2, <2>3, <2>5, <2>6, <3>1
      <4>2. QED
        BY <2>4, <4>1 DEF Alive
    <3>2. CASE u # x
      <4>1. thread[u] # "none"
        BY <2>4, <2>6, <3>2
      <4>2. t # x
        BY <2>3, <2>5, <2>6, <4>1
      <4>3. ~Alive(t)
        BY <2>6, <4>1 DEF OneAfterTheOther
      <4>4. QED
        BY <2>4, <4>2, <4>3 DEF Alive
    <3>3. QED
      BY <3>1, <3>2
  <2>7. QED
    BY <2>1, <2>6 DEF OneAfterTheOther, Known
<1>3. ASSUME NEW s \in Streams, ThreadStep(s)
      PROVE  OneAfterTheOther'
  <2>1. UNCHANGED stream /\ \A t \in Streams : /\ Alive(t)' => Alive(t)
                                               /\ thread'[t] # "none" <=> thread[t] # "none"
    BY <1>3, ThreadGoesOn
  <2>2. QED
    BY <2>1, OneStays
<1>4. ASSUME UNCHANGED <<stream, thread>>
      PROVE  OneAfterTheOther'
  BY <1>4 DEF OneAfterTheOther, Known, Alive
<1>5. ASSUME NEW h \in Handles,
             Open(h) \/ HwParams(h) \/ PrepareStep(h) \/ Start(h) \/ Stop(h) \/ Close(h)
      PROVE  UNCHANGED <<stream, thread>>
  BY <1>5 DEF Open, HwParams, PrepareStep, Answered, Prepared, PrepareTimesOut, Start, Stop, Stops,
              Close, streamVars
<1>6. ASSUME NEW i \in Instances,
             EngineStarts(i) \/ StopStream(i) \/ ShutDown(i) \/ Joined(i) \/ OverlayComes(i)
      PROVE  UNCHANGED <<stream, thread>>
  BY <1>6 DEF EngineStarts, StopStream, ShutDown, Joined, OverlayComes, streamVars
<1>7. CASE UNCHANGED vars
  BY <1>4, <1>7 DEF vars, streamVars
<1>8. CASE Next
  BY <1>1, <1>2, <1>3, <1>4, <1>5, <1>6, <1>8 DEF Next, EngineStep
<1>9. QED
  BY <1>7, <1>8

-----------------------------------------------------------------------------
(* What a handle that is in use relies on *)

\* Steps of other handles, of the engine and of the threads.
LEMMA HandleStays ==
    ASSUME NEW h \in Handles, HandleInUse(h),
           app'[h] = app[h], valid'[h] = valid[h], current'[h] = current[h],
           buffers'[h] = buffers[h], Known \subseteq Known',
           \A s \in Known : stream'[s] = stream[s] /\ (thread[s] # "none" => thread'[s] # "none")
    PROVE  HandleInUse(h)'
<1>1. \A s : Uses(h, s) => Uses(h, s)'
  BY DEF Uses
<1>2. app'[h] \in {"open", "closed"} => ~valid'[h] /\ current'[h] = 0
  BY DEF HandleInUse
<1>3. app'[h] \notin {"open", "closed"} => Uses(h, current[h]) /\ Uses(h, current[h])'
  BY DEF HandleInUse, Uses
<1>4. app'[h] = "waiting" => thread'[current'[h]] # "none"
  BY <1>3 DEF HandleInUse, Uses
<1>5. ASSUME valid'[h]
      PROVE  (\E s \in Known : Uses(h, s) /\ thread[s] # "none")'
  <2>1. PICK s \in Known : Uses(h, s) /\ thread[s] # "none"
    BY <1>5 DEF HandleInUse
  <2>2. s \in Known' /\ Uses(h, s)' /\ thread'[s] # "none"
    BY <1>1, <2>1
  <2>3. QED
    BY <2>2
<1>6. QED
  BY <1>2, <1>3, <1>4, <1>5 DEF HandleInUse

\* The steps of a handle on its way through a prepare and a start.
LEMMA PreparedHandles ==
    ASSUME TypesOK, HandlesInUse, NEW h \in Handles, PrepareStep(h) \/ Start(h)
    PROVE  HandlesInUse'
<1>1. UNCHANGED <<current, buffers, stream, thread>>
  BY DEF PrepareStep, Answered, Prepared, PrepareTimesOut, Start, streamVars
<1>2. app[h] \notin {"open", "closed"} /\ app'[h] \notin {"open", "closed"}
  BY DEF PrepareStep, Answered, Prepared, PrepareTimesOut, Start, TypesOK, HandlesOK
<1>3. \A g \in Handles : g # h => app'[g] = app[g] /\ valid'[g] = valid[g]
  BY DEF PrepareStep, Answered, Prepared, PrepareTimesOut, Start, TypesOK, HandlesOK
<1>4. Uses(h, current[h])
  BY <1>2 DEF HandlesInUse, HandleInUse
<1>5. app'[h] = "waiting" => thread[current[h]] # "none"
  BY DEF PrepareStep, Answered, Prepared, PrepareTimesOut, Start, TypesOK, HandlesOK
<1>6. ASSUME valid'[h]
      PROVE  \E s \in Known : Uses(h, s) /\ thread[s] # "none"
  <2>1. CASE Prepared(h)
    <3>1. thread[current[h]] # "none"
      BY <2>1 DEF Prepared, HandlesInUse, HandleInUse
    <3>2. QED
      BY <1>4, <3>1 DEF Uses
  <2>2. CASE ~Prepared(h)
    <3>1. valid' = valid
      BY <2>2 DEF PrepareStep, Answered, PrepareTimesOut, Start
    <3>2. QED
      BY <1>6, <3>1 DEF HandlesInUse, HandleInUse
  <2>3. QED
    BY <2>1, <2>2
<1>7. HandleInUse(h)'
  BY <1>1, <1>2, <1>4, <1>5, <1>6 DEF HandleInUse, Uses, Known
<1>8. ASSUME NEW g \in Handles, g # h
      PROVE  HandleInUse(g)'
  <2>1. HandleInUse(g)
    BY DEF HandlesInUse
  <2>2. Known' = Known
    BY <1>1 DEF Known
  <2>3. QED
    BY <1>1, <1>3, <1>8, <2>1, <2>2, HandleStays
<1>9. QED
  BY <1>7, <1>8 DEF HandlesInUse

LEMMA PrepareHandles ==
    ASSUME TypesOK, EngineInv, HandlesInUse, NEW h \in Handles, Prepare(h)
    PROVE  HandlesInUse'
<1> DEFINE s == Len(stream) + 1
<1>1. /\ s \in Streams /\ Known' = Known \cup {s}
      /\ \A t \in Known : stream'[t] = stream[t]
      /\ stream'[s] = [handle |-> h, instance |-> Instance, buffers |-> buffers[h]]
      /\ thread' = thread
  BY PrepareAdds DEF EngineInv
<1>2. /\ app' = [app EXCEPT ![h] = "blocked"] /\ current' = [current EXCEPT ![h] = s]
      /\ UNCHANGED <<valid, buffers>>
  BY DEF Prepare, Prepares
<1> HIDE DEF s
<1>3. /\ app'[h] = "blocked" /\ current'[h] = s
      /\ \A g \in Handles : g # h => app'[g] = app[g] /\ current'[g] = current[g]
  BY <1>2 DEF TypesOK, HandlesOK
<1>4. s \in Known' /\ stream'[s].handle = h /\ stream'[s].buffers = buffers'[h]
  BY <1>1, <1>2
<1>5. ASSUME valid'[h]
      PROVE  (\E t \in Known : Uses(h, t) /\ thread[t] # "none")'
  <2>1. PICK t \in Known : Uses(h, t) /\ thread[t] # "none"
    BY <1>2, <1>5 DEF HandlesInUse, HandleInUse
  <2>2. t \in Known' /\ Uses(h, t)' /\ thread'[t] # "none"
    BY <1>1, <1>2, <2>1 DEF Uses
  <2>3. QED
    BY <2>2
<1>6. HandleInUse(h)'
  BY <1>3, <1>4, <1>5 DEF HandleInUse, Uses
<1>7. ASSUME NEW g \in Handles, g # h
      PROVE  HandleInUse(g)'
  <2>1. HandleInUse(g)
    BY DEF HandlesInUse
  <2>2. QED
    BY <1>1, <1>2, <1>3, <1>7, <2>1, HandleStays
<1>8. QED
  BY <1>6, <1>7 DEF HandlesInUse

\* The steps of a handle whose buffers are not valid afterwards.
LEMMA IdleHandles ==
    ASSUME TypesOK, HandlesInUse, NEW h \in Handles,
           Open(h) \/ HwParams(h) \/ Stop(h) \/ Close(h)
    PROVE  HandlesInUse'
<1>1. UNCHANGED <<stream, thread>>
  BY DEF Open, HwParams, Stop, Stops, Close, streamVars
<1>2. \A g \in Handles : g # h => /\ app'[g] = app[g] /\ valid'[g] = valid[g]
                                  /\ current'[g] = current[g] /\ buffers'[g] = buffers[g]
  BY DEF Open, HwParams, Stop, Stops, Close, TypesOK, HandlesOK
<1>3. app'[h] \in {"open", "closed"} /\ current'[h] = 0 /\ ~valid'[h]
  <2>1. CASE Stop(h)
    BY <2>1 DEF Stop, Stops, TypesOK, HandlesOK
  <2>2. CASE ~Stop(h)
    <3>1. app[h] \in {"open", "closed"} /\ UNCHANGED <<valid, current>>
      BY <2>2 DEF Open, HwParams, Close
    <3>2. app'[h] \in {"open", "closed"}
      BY <2>2 DEF Open, HwParams, Close, TypesOK, HandlesOK
    <3>3. QED
      BY <3>1, <3>2 DEF HandlesInUse, HandleInUse
  <2>3. QED
    BY <2>1, <2>2
<1>4. HandleInUse(h)'
  BY <1>3 DEF HandleInUse
<1>5. ASSUME NEW g \in Handles, g # h
      PROVE  HandleInUse(g)'
  <2>1. HandleInUse(g)
    BY DEF HandlesInUse
  <2>2. Known' = Known
    BY <1>1 DEF Known
  <2>3. QED
    BY <1>1, <1>2, <1>5, <2>1, <2>2, HandleStays
<1>6. QED
  BY <1>4, <1>5 DEF HandlesInUse

LEMMA HandlesNext == TypesOK /\ EngineInv /\ HandlesInUse /\ [Next]_vars => HandlesInUse'
<1> SUFFICES ASSUME TypesOK, EngineInv, HandlesInUse, [Next]_vars
             PROVE  HandlesInUse'
  OBVIOUS
<1>1. ASSUME UNCHANGED <<appVars, stream>>,
             \A s \in Known : thread[s] # "none" => thread'[s] # "none"
      PROVE  HandlesInUse'
  <2>1. UNCHANGED <<app, valid, current, buffers>> /\ Known' = Known
    BY <1>1 DEF appVars, Known
  <2>2. ASSUME NEW h \in Handles
        PROVE  HandleInUse(h)'
    BY <1>1, <2>1, HandleStays DEF HandlesInUse
  <2>3. QED
    BY <2>2 DEF HandlesInUse
<1>2. ASSUME NEW i \in Instances, StartStream(i)
      PROVE  HandlesInUse'
  <2> DEFINE x == Head(queue[i]).stream
             first == IF Head(queue[i]).dir = "capture" THEN "run" ELSE "waitStart"
  <2>1. UNCHANGED <<appVars, stream>> /\ thread' = [thread EXCEPT ![x] = first]
    BY <1>2 DEF StartStream
  <2>2. first # "none"
    OBVIOUS
  <2> HIDE DEF x, first
  <2>3. \A s \in Known : thread[s] # "none" => thread'[s] # "none"
    BY <2>1, <2>2, KnownAre DEF TypesOK, StreamsOK
  <2>4. QED
    BY <1>1, <2>1, <2>3
<1>3. ASSUME NEW i \in Instances,
             EngineStarts(i) \/ StopStream(i) \/ ShutDown(i) \/ Joined(i) \/ OverlayComes(i)
      PROVE  HandlesInUse'
  <2>1. UNCHANGED <<appVars, stream, thread>>
    BY <1>3 DEF EngineStarts, StopStream, ShutDown, Joined, OverlayComes, streamVars
  <2>2. QED
    BY <1>1, <2>1
<1>4. ASSUME NEW s \in Streams, ThreadStep(s)
      PROVE  HandlesInUse'
  <2>1. UNCHANGED <<appVars, stream>>
        /\ \A t \in Streams : thread'[t] # "none" <=> thread[t] # "none"
    BY <1>4, ThreadGoesOn
  <2>2. QED
    BY <1>1, <2>1, KnownAre
<1>5. CASE UNCHANGED vars
  BY <1>1, <1>5 DEF vars, streamVars
<1>6. CASE Next
  BY <1>2, <1>3, <1>4, <1>6, PreparedHandles, PrepareHandles, IdleHandles DEF Next, EngineStep
<1>7. QED
  BY <1>5, <1>6
\* A start time is dropped before the next prepare or with the stop.
LEMMA PendingNext == TypesOK /\ BuffersInv /\ EngineInv /\ [Next]_vars => PendingIsCurrent'
<1> SUFFICES ASSUME TypesOK, BuffersInv, EngineInv, [Next]_vars
             PROVE  PendingIsCurrent'
  OBVIOUS
<1>1. \A s \in Known : s \in Streams /\ s # 0 /\ stream[s].handle \in Handles
  BY KnownAre DEF Known
<1>2. \A s \in Known : startTx[s] = "pending" => current[stream[s].handle] = s
  BY DEF BuffersInv, PendingIsCurrent
<1>3. ASSUME UNCHANGED <<startTx, current, stream>>
      PROVE  PendingIsCurrent'
  BY <1>3 DEF BuffersInv, PendingIsCurrent, Known
<1>4. ASSUME NEW h \in Handles, Prepare(h)
      PROVE  PendingIsCurrent'
  <2> DEFINE s == Len(stream) + 1
  <2>1. /\ s \in Streams /\ s \notin Known /\ Known' = Known \cup {s}
        /\ \A t \in Known : stream'[t] = stream[t]
        /\ stream'[s] = [handle |-> h, instance |-> Instance, buffers |-> buffers[h]]
    BY <1>4, PrepareAdds DEF EngineInv
  <2>2. startTx' = [Dropped(h) EXCEPT ![s] = "pending"] /\ current' = [current EXCEPT ![h] = s]
    BY <1>4, PrepareSends DEF Prepare, Prepares
  <2> HIDE DEF s
  <2>3. stream'[s].handle = h /\ current'[h] = s
    BY <2>1, <2>2 DEF TypesOK, HandlesOK
  <2>4. ASSUME NEW t \in Known, startTx'[t] = "pending"
        PROVE  current'[stream[t].handle] = t
    <3>1. Dropped(h)[t] = "pending"
      BY <1>1, <2>1, <2>2, <2>4, DroppedIs DEF TypesOK
    <3>2. startTx[t] = "pending" /\ t # current[h]
      BY <1>1, <3>1, DroppedIs DEF TypesOK
    <3>3. current[stream[t].handle] = t /\ stream[t].handle # h
      BY <1>2, <3>2
    <3>4. QED
      BY <1>1, <2>2, <3>3 DEF TypesOK, HandlesOK
  <2>5. QED
    BY <2>1, <2>3, <2>4 DEF PendingIsCurrent
<1>5. ASSUME NEW h \in Handles, Start(h)
      PROVE  PendingIsCurrent'
  <2>1. startTx' = [startTx EXCEPT ![current[h]] = "sent"] /\ UNCHANGED <<current, stream>>
    BY <1>5 DEF Start
  <2>2. \A s \in Known : startTx'[s] = "pending" => startTx[s] = "pending"
    BY <1>1, <2>1 DEF TypesOK, StreamsOK
  <2>3. QED
    BY <1>2, <2>1, <2>2 DEF PendingIsCurrent, Known
<1>6. ASSUME NEW h \in Handles, Stop(h)
      PROVE  PendingIsCurrent'
  <2>1. startTx' = Dropped(h) /\ current' = [current EXCEPT ![h] = 0] /\ stream' = stream
    BY <1>6 DEF Stop, Stops
  <2>2. ASSUME NEW t \in Known, startTx'[t] = "pending"
        PROVE  current'[stream[t].handle] = t
    <3>1. startTx[t] = "pending" /\ t # current[h]
      BY <1>1, <2>1, <2>2, DroppedIs DEF TypesOK
    <3>2. current[stream[t].handle] = t /\ stream[t].handle # h
      BY <1>2, <3>1
    <3>3. QED
      BY <1>1, <2>1, <3>2 DEF TypesOK, HandlesOK
  <2>3. QED
    BY <2>1, <2>2 DEF PendingIsCurrent, Known
<1>7. ASSUME NEW h \in Handles, Open(h) \/ HwParams(h) \/ PrepareStep(h) \/ Close(h)
      PROVE  PendingIsCurrent'
  <2>1. UNCHANGED <<startTx, current, stream>>
    BY <1>7 DEF Open, HwParams, PrepareStep, Answered, Prepared, PrepareTimesOut, Close, streamVars
  <2>2. QED
    BY <1>3, <2>1
<1>8. ASSUME NEW i \in Instances, EngineStep(i) \/ OverlayComes(i)
      PROVE  PendingIsCurrent'
  <2>1. UNCHANGED <<startTx, current, stream>>
    BY <1>8 DEF EngineStep, EngineStarts, StartStream, StopStream, ShutDown, Joined, OverlayComes,
                appVars, streamVars
  <2>2. QED
    BY <1>3, <2>1
<1>9. ASSUME NEW s \in Streams, ThreadStep(s)
      PROVE  PendingIsCurrent'
  <2>1. UNCHANGED <<startTx, current, stream>>
    BY <1>9 DEF ThreadStep, appVars
  <2>2. QED
    BY <1>3, <2>1
<1>10. CASE UNCHANGED vars
  BY <1>3, <1>10 DEF vars, appVars, streamVars
<1>11. CASE Next
  BY <1>4, <1>5, <1>6, <1>7, <1>8, <1>9, <1>11 DEF Next
<1>12. QED
  BY <1>10, <1>11

-----------------------------------------------------------------------------
(* Theorems *)

LEMMA EngineInvariant == Spec => [](TypesOK /\ EngineInv /\ BuffersInv)
<1>1. Init => TypesOK /\ EngineInv /\ BuffersInv
  BY InitTypes, InitEngine, InitBuffers
<1>2. TypesOK /\ EngineInv /\ BuffersInv /\ [Next]_vars => (TypesOK /\ EngineInv /\ BuffersInv)'
  <2> SUFFICES ASSUME TypesOK, EngineInv, BuffersInv, [Next]_vars
               PROVE  (TypesOK /\ EngineInv /\ BuffersInv)'
    OBVIOUS
  <2>1. TypesOK' /\ EngineInv'
    BY NextTypes, EngineNext
  <2>2. BuffersInv'
    BY InstancesNext, BuffersNext, OneNext, HandlesNext, PendingNext DEF BuffersInv
  <2>3. QED
    BY <2>1, <2>2
<1>3. QED
  BY <1>1, <1>2, PTL DEF Spec

\* Whatever the handles of a process do, no Stop ends the engine because there is
\* nothing to stop (device_server/mod.rs:466-479), and no Start leaves a stream
\* behind that nobody can stop any more (alsa-plugin/src/lib.rs:333-389).
THEOREM StreamsKept == Spec => []StreamsAreKept
<1>1. TypesOK /\ EngineInv => StreamsAreKept
  <2> SUFFICES ASSUME TypesOK, EngineInv
               PROVE  StreamsAreKept
    OBVIOUS
  <2>1. \A i \in Instances : engine[i] # "panicked"
    BY DEF EngineInv, NobodyPanics
  <2>2. ASSUME NEW s \in Known, Alive(s)
        PROVE  s \in joining[stream[s].instance]
               \/ \E d \in Dirs : started[stream[s].instance][d] = s
    BY <2>2, KnownAre, DirIs DEF EngineInv, ThreadsAreHeld
  <2>3. QED
    BY <2>1, <2>2 DEF StreamsAreKept, Known
<1>2. QED
  BY <1>1, EngineInvariant, PTL

\* buffers_valid, which the streams of a handle share, is true only when none of
\* them is left in the instance in use that reads or writes buffers that libasound
\* has freed (alsa-plugin/src/lib.rs:333-341, 445-462).
THEOREM BuffersAreCurrent == Spec => []NoStaleBuffers
<1>1. TypesOK /\ BuffersInv => NoStaleBuffers
  <2> SUFFICES ASSUME TypesOK, BuffersInv, NEW s \in 1 .. Len(stream), StaleStream(s),
                      stream[s].instance = stream[Len(stream)].instance
               PROVE  FALSE
    BY DEF NoStaleBuffers
  <2> DEFINE h == stream[s].handle
             last == Len(stream)
  <2>1. /\ s \in Known /\ h \in Handles /\ last \in Known /\ last \in Nat
        /\ \A t \in Known : /\ t \in Nat /\ t <= last
                            /\ stream[t].buffers \in Nat /\ stream[t].instance \in Nat
    BY KnownAre DEF Known, Instances
  <2>2. Alive(s) /\ valid[h] /\ stream[s].buffers # buffers[h]
    BY DEF StaleStream
  <2>3. PICK t \in Known : Uses(h, t) /\ thread[t] # "none"
    BY <2>1, <2>2 DEF BuffersInv, HandlesInUse, HandleInUse
  <2>4. stream[t].handle = h /\ stream[t].buffers = buffers[h]
    BY <2>3 DEF Uses
  <2> HIDE DEF h, last
  <2>5. s < t
    <3>1. s # t
      BY <2>2, <2>4
    <3>2. CASE t < s
      <4>1. stream[t].buffers <= stream[s].buffers /\ stream[s].buffers <= buffers[h]
        BY <2>1, <2>4, <3>2 DEF BuffersInv, BuffersInOrder, h
      <4>2. QED
        <5>1. /\ stream[s].buffers \in Nat /\ stream[t].buffers \in Nat
              /\ stream[t].buffers = buffers[h]
          BY <2>1, <2>4
        <5>2. stream[s].buffers = buffers[h]
          BY <4>1, <5>1
        <5>3. QED
          BY <2>2, <5>2
    <3>3. QED
      BY <2>1, <3>1, <3>2
  <2>6. stream[t].instance = stream[s].instance
    <3>1. stream[s].instance <= stream[t].instance
      BY <2>1, <2>5 DEF BuffersInv, InstancesInOrder
    <3>2. stream[t].instance <= stream[last].instance
      <4>1. CASE t = last
        BY <2>1, <4>1
      <4>2. CASE t < last
        BY <2>1, <4>2 DEF BuffersInv, InstancesInOrder
      <4>3. QED
        BY <2>1, <4>1, <4>2
    <3>3. stream[s].instance = stream[last].instance
      BY DEF last
    <3>4. QED
      BY <2>1, <3>1, <3>2, <3>3
  <2>7. ~Alive(s)
    BY <2>1, <2>3, <2>4, <2>5, <2>6 DEF BuffersInv, OneAfterTheOther, h
  <2>8. QED
    BY <2>2, <2>7
<1>2. QED
  BY <1>1, EngineInvariant, PTL
=============================================================================
