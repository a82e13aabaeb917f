--------------------------- MODULE TransmitProofs ---------------------------
(***************************************************************************)
(* The TX thread against time, for any flows, commands, keepalives and     *)
(* refusals of the kernel, however late the thread wakes up: no timestamp  *)
(* is sent twice as long as the clock does not jump back by more than the  *)
(* threshold of a new timeline, and the application is told of no position *)
(* that is still to be sent as long as the clock does not jump at all.     *)
(*                                                                         *)
(* When only the last flow may fail to be sent, no flow is without packets *)
(* for longer than that threshold, a receiver that sends keepalives keeps  *)
(* its flow, as long as the timeout has room for the jump, and a receiver  *)
(* that has gone loses it.                                                 *)
(***************************************************************************)
EXTENDS Transmit, WellFoundedInduction, TLAPS

\* A jump back leaves what was due next within DISCONTINUITY_THRESHOLD_SAMPLES.
JumpsAreShort ==
    \A f \in Flows : \A j \in Jumps \cup {0} : Fpp[f] - j <= Discontinuity

\* A packet is short against SELECT_THRESHOLD (256 samples, and 100 ms).
PacketsAreShort == \A f \in Flows : Fpp[f] < SelectThreshold

NumbersOK == time \in Int /\ jump \in Int /\ overlay \in Int

IsEntry(r) ==
    /\ r = [next |-> r.next, expires |-> r.expires, expired |-> r.expired]
    /\ r.next \in Int

IsOverFlows(table) == table = [f \in Flows |-> table[f]]

TableOK ==
    /\ IsOverFlows(flow)
    /\ \A f \in Flows : IsEntry(flow[f])

\* The thread sees the clock before or after its jump.
ClockInv ==
    /\ time > 0 /\ time + jump > 0
    /\ jump \in Jumps \cup {0} /\ overlay \in {0, jump}

\* A flow is at most a packet ahead of the clock that the thread has seen.
Ahead(f) == time + Greatest(overlay, 0) + Fpp[f]

AheadInv ==
    \A f \in Flows : Active(f) => flow[f].next > 0 /\ flow[f].next <= Ahead(f)

TimeInv == NumbersOK /\ TableOK /\ ClockInv /\ AheadInv

LEMMA Constants ==
    /\ N \in Nat
    /\ \A f \in Flows : Fpp[f] \in Int /\ Fpp[f] > 0
    /\ MaxLag \in Int /\ MaxLag >= 0 /\ Discontinuity \in Int /\ Discontinuity >= 0
    /\ KeepaliveTimeout \in Int /\ SelectThreshold \in Int /\ SelectThreshold >= 0
    /\ MaxAwake \in Int /\ MaxAwake >= 0 /\ MaxStall \in Int
    /\ Jumps \subseteq Int /\ Unset \in Int
  BY TransmitAssumption DEF Flows, Unset

\* The next multiple of fpp lies ahead, by a packet at most.
LEMMA BootstrappedFacts ==
    ASSUME NEW f \in Flows, NEW now \in Int
    PROVE  /\ Bootstrapped(f, now) \in Int
           /\ Bootstrapped(f, now) > now
           /\ Bootstrapped(f, now) <= now + Fpp[f]
<1>1. Fpp[f] \in Int /\ Fpp[f] > 0
  BY Constants
<1>2. now % Fpp[f] \in 0..(Fpp[f] - 1)
  BY <1>1
<1>3. QED
  BY <1>1, <1>2 DEF Bootstrapped

\* transmit stops at the first packet that is not due.
LEMMA DrainedFacts ==
    ASSUME NEW f \in Flows, NEW next \in Int, Now \in Int
    PROVE  /\ Drained(f, next) \in Int
           /\ Drained(f, next) > Now
           /\ Drained(f, next) >= next
           /\ Drained(f, next) = next \/ Drained(f, next) <= Now + Fpp[f]
<1>1. Fpp[f] \in Int /\ Fpp[f] > 0
  BY Constants
<1>2. CASE next > Now
  BY <1>2 DEF Drained
<1>3. CASE ~(next > Now)
  <2> DEFINE p == Fpp[f]
             q == (Now - next) \div p
             rest == (Now - next) % p
  <2>0. p \in Int /\ p > 0 /\ Now - next \in Int /\ Now - next >= 0
    BY <1>1, <1>3
  <2>1. q \in Int /\ q >= 0 /\ rest \in 0..(p - 1) /\ Now - next = p * q + rest
    <3> HIDE DEF p
    <3>1. QED
      BY <2>0
  <2>2. p * (q + 1) = p * q + p /\ p * q \in Int
    <3> HIDE DEF p, q
    <3>1. QED
      BY <2>0, <2>1
  <2>3. Drained(f, next) = next + p * (q + 1)
    BY <1>3 DEF Drained
  <2> HIDE DEF p, q, rest
  <2>4. p * q >= 0
    BY <2>0, <2>1
  <2>5. /\ Drained(f, next) \in Int
        /\ Drained(f, next) > Now
        /\ Drained(f, next) >= next
        /\ Drained(f, next) <= Now + p
    BY <2>0, <2>1, <2>2, <2>3, <2>4
  <2>6. QED
    BY <2>5 DEF p
<1>4. QED
  BY <1>2, <1>3

LEMMA SynchronizedFacts ==
    ASSUME NEW f \in Flows, flow[f].next \in Int, Now \in Int
    PROVE  /\ Synchronized(f, Now) \in Int
           /\ \/ Synchronized(f, Now) = flow[f].next
              \/ /\ Synchronized(f, Now) > Now
                 /\ Synchronized(f, Now) <= Now + Fpp[f]
                 /\ \/ flow[f].next < Now
                    \/ flow[f].next > Now + Discontinuity
<1>1. /\ Bootstrapped(f, Now) \in Int /\ Bootstrapped(f, Now) > Now
      /\ Bootstrapped(f, Now) <= Now + Fpp[f]
  BY BootstrappedFacts
<1>2. CASE Now - flow[f].next > MaxLag \/ Now - flow[f].next < -Discontinuity
  <2>1. Synchronized(f, Now) = Bootstrapped(f, Now)
    BY <1>2 DEF Synchronized
  <2>2. flow[f].next < Now \/ flow[f].next > Now + Discontinuity
    BY <1>2, Constants
  <2>3. QED
    BY <1>1, <2>1, <2>2
<1>3. CASE ~(Now - flow[f].next > MaxLag \/ Now - flow[f].next < -Discontinuity)
  BY <1>3 DEF Synchronized
<1>4. QED
  BY <1>2, <1>3

\* What transmit makes of an entry: an expired one stays, another one goes
\* forward or starts anew after the present, never by more than a packet.
LEMMA TransmittedFacts ==
    ASSUME TableOK, Now \in Int, NEW events, NEW f \in Flows
    PROVE  /\ IsEntry(Transmitted(events)[f])
           /\ ~Active(f) => Transmitted(events)[f] = flow[f]
           /\ \/ Transmitted(events)[f].next = flow[f].next
              \/ Transmitted(events)[f].next <= Now + Fpp[f]
           /\ \/ Transmitted(events)[f].next >= flow[f].next
              \/ /\ Transmitted(events)[f].next > Now
                 /\ flow[f].next > Now + Discontinuity
<1> DEFINE r == Transmitted(events)[f]
           s == Synchronized(f, Now)
           d == Drained(f, s)
<1>0. /\ flow[f] = [next |-> flow[f].next, expires |-> flow[f].expires,
                    expired |-> flow[f].expired]
      /\ flow[f].next \in Int /\ Fpp[f] \in Int /\ Fpp[f] > 0
  BY Constants DEF TableOK, IsEntry
<1>1. /\ s \in Int
      /\ \/ s = flow[f].next
         \/ /\ s > Now /\ s <= Now + Fpp[f]
            /\ flow[f].next < Now \/ flow[f].next > Now + Discontinuity
  BY <1>0, SynchronizedFacts
<1>2. d \in Int /\ d > Now /\ d >= s /\ (d = s \/ d <= Now + Fpp[f])
  BY <1>1, DrainedFacts
<1>3. r = (IF f \notin Reached THEN flow[f]
           ELSE IF f \in Blocking THEN [flow[f] EXCEPT !.next = s]
           ELSE [next |-> d,
                 expires |-> IF events /\ f \in pending
                             THEN Now + KeepaliveTimeout ELSE flow[f].expires,
                 expired |-> events /\ ExpiresNow(f)])
  BY DEF Transmitted
<1> HIDE DEF r, s, d
<1>4. f \in Reached => Active(f)
  BY DEF Reached
<1>5. IsEntry(r) /\ r.next \in {flow[f].next, s, d} /\ (~Active(f) => r = flow[f])
  <2>1. CASE f \notin Reached
    BY <1>0, <1>3, <2>1 DEF IsEntry
  <2>2. CASE f \in Reached /\ f \in Blocking
    <3> DEFINE a == flow[f].next
               b == flow[f].expires
               c == flow[f].expired
    <3>1. flow[f] = [next |-> a, expires |-> b, expired |-> c]
      BY <1>0
    <3>2. r = [flow[f] EXCEPT !.next = s]
      BY <1>3, <2>2
    <3> HIDE DEF a, b, c
    <3>3. r = [next |-> s, expires |-> b, expired |-> c]
      BY <3>1, <3>2
    <3>4. QED
      BY <1>1, <1>4, <2>2, <3>3 DEF IsEntry
  <2>3. CASE f \in Reached /\ f \notin Blocking
    <3> DEFINE b == IF events /\ f \in pending
                    THEN Now + KeepaliveTimeout ELSE flow[f].expires
               c == events /\ ExpiresNow(f)
    <3>1. r = [next |-> d, expires |-> b, expired |-> c]
      BY <1>3, <2>3
    <3> HIDE DEF b, c
    <3>2. QED
      BY <1>2, <1>4, <2>3, <3>1 DEF IsEntry
  <2>4. QED
    BY <2>1, <2>2, <2>3
<1>6. r.next = flow[f].next \/ r.next <= Now + Fpp[f]
  BY <1>0, <1>1, <1>2, <1>5
<1>7. r.next >= flow[f].next \/ (r.next > Now /\ flow[f].next > Now + Discontinuity)
  BY <1>0, <1>1, <1>2, <1>5, Constants
<1>8. QED
  BY <1>5, <1>6, <1>7 DEF r

\* What becomes of a flow in the rest of an iteration, when `table` is what
\* transmit has left: it is given up, begins anew with the next packet, or
\* stays.
LastSent(table, sent, g) ==
    IF g \in sent THEN table[g].next - Fpp[g] ELSE last[g]

Fate(table, sent, g) ==
    /\ IsEntry(flow'[g])
    /\ \/ flow'[g].expired
       \/ flow'[g].next = Bootstrapped(g, Now) /\ last'[g] = Unset
       \/ /\ ~table[g].expired
          /\ flow'[g].next = table[g].next
          /\ last'[g] = LastSent(table, sent, g)

LEMMA BegunFacts ==
    ASSUME NEW f, NEW next \in Int
    PROVE  IsEntry(Begun(f, next)) /\ Begun(f, next).next = next
  BY DEF Begun, IsEntry

LEMMA IterateFacts ==
    ASSUME ClockInv, NumbersOK, NEW table, NEW sent, NEW read, NEW busy,
           NEW allowed \in SUBSET Commands,
           IsOverFlows(table), \A f \in Flows : IsEntry(table[f]),
           Iterate(table, sent, read, busy, allowed)
    PROVE  /\ IsOverFlows(flow')
           /\ \A g \in Flows : Fate(table, sent, g)
           /\ UNCHANGED <<time, jump>>
           /\ overlay' = jump
           /\ LoopTop(flow', busy)
<1>1. PICK c \in allowed, f \in Flows :
          /\ IsLegal(table, c, f)
          /\ LoopTop(Executed(table, c, f), busy)
          /\ LET fresh == IF c \in {"AddFlow", "RemoveFlow"} THEN {f} ELSE {}
                 asked == IF c \in {"AddFlow", "SetChannels"} THEN {f} ELSE {}
                 begun == {g \in asked : table[g].expired}
             IN  last' = [g \in Flows |->
                             IF g \in fresh \cup begun THEN Unset
                             ELSE IF g \in sent THEN table[g].next - Fpp[g] ELSE last[g]]
  BY DEF Iterate
<1>2. /\ flow' = Executed(table, c, f) /\ overlay' = jump /\ UNCHANGED <<time, jump>>
  BY <1>1 DEF LoopTop, Iterate, clockVars
<1>3. Now \in Int /\ \A g \in Flows : Bootstrapped(g, Now) \in Int
  BY BootstrappedFacts DEF Now, NumbersOK
<1>4. ASSUME NEW g \in Flows, flow'[g] = table[g],
             last'[g] = LastSent(table, sent, g)
      PROVE  Fate(table, sent, g)
  BY <1>4 DEF Fate
<1>6. ASSUME c = "NoOp"
      PROVE  IsOverFlows(flow') /\ \A g \in Flows : Fate(table, sent, g)
  <2>1. flow' = table /\ \A g \in Flows : last'[g] = LastSent(table, sent, g)
    BY <1>1, <1>2, <1>6 DEF Executed, LastSent
  <2>2. IsOverFlows(flow')
    BY <2>1 DEF IsOverFlows
  <2>3. QED
    BY <1>4, <2>1, <2>2
<1>7. ASSUME c = "AddFlow"
      PROVE  IsOverFlows(flow') /\ \A g \in Flows : Fate(table, sent, g)
  <2>1. flow' = [table EXCEPT ![f] = Begun(f, Bootstrapped(f, Now))]
    BY <1>2, <1>7 DEF Executed
  <2>2. IsOverFlows(flow')
    BY <2>1 DEF IsOverFlows
  <2>3. ASSUME NEW g \in Flows, g # f PROVE Fate(table, sent, g)
    <3>1. flow'[g] = table[g] /\ last'[g] = LastSent(table, sent, g)
      BY <1>1, <1>7, <2>1, <2>3 DEF LastSent
    <3>2. QED
      BY <1>4, <3>1
  <2>4. flow'[f] = Begun(f, Bootstrapped(f, Now)) /\ last'[f] = Unset
    BY <1>1, <1>7, <2>1 DEF IsOverFlows
  <2>5. Fate(table, sent, f)
    BY <1>3, <2>4, BegunFacts DEF Fate
  <2>6. QED
    BY <2>2, <2>3, <2>5
<1>8. ASSUME c = "RemoveFlow"
      PROVE  IsOverFlows(flow') /\ \A g \in Flows : Fate(table, sent, g)
  <2>1. flow' = [table EXCEPT ![f] = NoFlow]
    BY <1>2, <1>8 DEF Executed
  <2>2. IsOverFlows(flow')
    BY <2>1 DEF IsOverFlows
  <2>3. ASSUME NEW g \in Flows, g # f PROVE Fate(table, sent, g)
    <3>1. flow'[g] = table[g] /\ last'[g] = LastSent(table, sent, g)
      BY <1>1, <1>8, <2>1, <2>3 DEF LastSent
    <3>2. QED
      BY <1>4, <3>1
  <2>4. flow'[f] = NoFlow
    BY <2>1 DEF IsOverFlows
  <2>5. IsEntry(NoFlow) /\ NoFlow.expired
    BY Constants DEF NoFlow, IsEntry
  <2>6. Fate(table, sent, f)
    BY <2>4, <2>5 DEF Fate
  <2>7. QED
    BY <2>2, <2>3, <2>6
<1>9. ASSUME c = "SetChannels"
      PROVE  IsOverFlows(flow') /\ \A g \in Flows : Fate(table, sent, g)
  <2>1. flow' = [table EXCEPT ![f] = Changed(table, f)]
    BY <1>2, <1>9 DEF Executed
  <2>2. IsOverFlows(flow')
    BY <2>1 DEF IsOverFlows
  <2>3. ASSUME NEW g \in Flows, g # f PROVE Fate(table, sent, g)
    <3>1. flow'[g] = table[g] /\ last'[g] = LastSent(table, sent, g)
      BY <1>1, <1>9, <2>1, <2>3 DEF LastSent
    <3>2. QED
      BY <1>4, <3>1
  <2>4. flow'[f] = Changed(table, f)
    BY <2>1 DEF IsOverFlows
  <2>5. CASE table[f].expired
    <3>1. flow'[f] = Begun(f, Bootstrapped(f, Now))
      BY <2>4, <2>5 DEF Changed
    <3>2. last'[f] = Unset
      BY <1>1, <1>9, <2>5
    <3>3. Fate(table, sent, f)
      BY <1>3, <3>1, <3>2, BegunFacts DEF Fate
    <3>4. QED
      BY <2>2, <2>3, <3>3
  <2>6. CASE ~table[f].expired
    <3>1. flow'[f] = Begun(f, table[f].next) /\ table[f].next \in Int
      BY <2>4, <2>6 DEF Changed, IsEntry
    <3>2. last'[f] = LastSent(table, sent, f)
      BY <1>1, <1>9, <2>6 DEF LastSent
    <3>3. Fate(table, sent, f)
      BY <2>6, <3>1, <3>2, BegunFacts DEF Fate
    <3>4. QED
      BY <2>2, <2>3, <3>3
  <2>7. QED
    BY <2>5, <2>6
<1>10. c \in {"NoOp", "AddFlow", "RemoveFlow", "SetChannels"}
  BY DEF Commands
<1>11. LoopTop(flow', busy)
  BY <1>1, <1>2
<1>12. QED
  BY <1>2, <1>6, <1>7, <1>8, <1>9, <1>10, <1>11

\* What an iteration of the thread makes of the flows: `table` and `sent` are
\* what transmit has left, or the table as it was.
Left(table) ==
    \A g \in Flows :
        /\ ~Active(g) => table[g].expired
        /\ \/ table[g].next = flow[g].next
           \/ table[g].next <= Now + Fpp[g]
        /\ \/ table[g].next >= flow[g].next
           \/ /\ table[g].next > Now
              /\ flow[g].next > Now + Discontinuity
        /\ table[g].next \in Int

LEMMA ThreadFacts ==
    ASSUME ClockInv, NumbersOK, TableOK, TxThread
    PROVE  /\ IsOverFlows(flow')
           /\ UNCHANGED <<time, jump>>
           /\ overlay' = jump
           /\ selects \/ wait <= 0
           /\ \E table, sent, busy :
                  /\ Left(table)
                  /\ \A g \in Flows : Fate(table, sent, g)
                  /\ busy \in Int /\ busy >= 0
                  /\ LoopTop(flow', busy)
<1>0. Now \in Int /\ IsOverFlows(flow) /\ \A g \in Flows : IsEntry(flow[g])
  BY DEF Now, NumbersOK, TableOK
<1>1. ASSUME NEW events, NEW allowed \in SUBSET Commands,
             TransmitThen(events, allowed)
      PROVE  /\ IsOverFlows(flow') /\ UNCHANGED <<time, jump>> /\ overlay' = jump
             /\ wait <= 0
             /\ \E table, sent, busy :
                    /\ Left(table)
                    /\ \A g \in Flows : Fate(table, sent, g)
                    /\ busy \in Int /\ busy >= 0
                    /\ LoopTop(flow', busy)
  <2> DEFINE table == Transmitted(events)
             sent == {f \in Served : HasDue(f)}
             read == IF events THEN Served ELSE {}
             busy == IF Blocking = {} THEN 0 ELSE MaxAwake
  <2>1. wait <= 0 /\ Iterate(table, sent, read, busy, allowed)
    BY <1>1 DEF TransmitThen
  <2>2. IsOverFlows(table)
    BY DEF Transmitted, IsOverFlows
  <2>3. ASSUME NEW g \in Flows
        PROVE  /\ IsEntry(table[g])
               /\ ~Active(g) => table[g] = flow[g]
               /\ \/ table[g].next = flow[g].next
                  \/ table[g].next <= Now + Fpp[g]
               /\ \/ table[g].next >= flow[g].next
                  \/ /\ table[g].next > Now
                     /\ flow[g].next > Now + Discontinuity
    BY <1>0, TransmittedFacts
  <2>4. busy \in Int /\ busy >= 0
    BY Constants
  <2> HIDE DEF table, sent, read, busy
  <2>5. \A g \in Flows : IsEntry(table[g])
    BY <2>3
  <2>6. /\ IsOverFlows(flow')
        /\ \A g \in Flows : Fate(table, sent, g)
        /\ UNCHANGED <<time, jump>>
        /\ overlay' = jump
        /\ LoopTop(flow', busy)
    BY <2>1, <2>2, <2>5, IterateFacts
  <2>7. Left(table)
    <3>1. \A g \in Flows : ~Active(g) => table[g].expired
      BY <2>3, Zenon DEF Active
    <3>2. QED
      BY <2>3, <3>1 DEF Left, IsEntry
  <2>8. QED
    BY <2>1, <2>4, <2>6, <2>7
<1>2. CASE Poll
  <2> DEFINE events == Now >= nextEvents
             allowed == IF events THEN Commands ELSE {"NoOp"}
  <2>1. TransmitThen(events, allowed)
    BY <1>2, Zenon DEF Poll
  <2>2. allowed \in SUBSET Commands
    BY DEF Commands
  <2> HIDE DEF events, allowed
  <2>3. QED
    BY <1>1, <2>1, <2>2
<1>3. CASE SelectTimer
  <2>1. TransmitThen(TRUE, {"NoOp"})
    BY <1>3 DEF SelectTimer
  <2>2. {"NoOp"} \in SUBSET Commands
    BY DEF Commands
  <2>3. QED
    BY <1>1, <2>1, <2>2
<1>4. CASE SelectCommand
  <2>1. selects /\ Iterate(flow, {}, {}, 0, Commands \ {"NoOp"})
    BY <1>4 DEF SelectCommand
  <2>2. \A g \in Flows : IsEntry(flow[g])
    BY <1>0
  <2>3. (Commands \ {"NoOp"}) \in SUBSET Commands
    OBVIOUS
  <2>4. /\ IsOverFlows(flow')
        /\ \A g \in Flows : Fate(flow, {}, g)
        /\ UNCHANGED <<time, jump>>
        /\ overlay' = jump
        /\ LoopTop(flow', 0)
    BY <1>0, <2>1, <2>2, <2>3, IterateFacts
  <2>5. Left(flow)
    <3>1. ASSUME NEW g \in Flows
          PROVE  flow[g].next \in Int /\ flow[g].next >= flow[g].next
      <4>1. flow[g].next \in Int
        BY <2>2 DEF IsEntry
      <4>2. PICK n \in Int : n = flow[g].next
        BY <4>1
      <4>3. n >= n
        OBVIOUS
      <4>4. QED
        BY <4>2, <4>3
    <3>2. \A g \in Flows : ~Active(g) => flow[g].expired
      BY DEF Active
    <3>3. QED
      BY <3>1, <3>2 DEF Left
  <2>6. QED
    BY <2>1, <2>4, <2>5
<1>5. QED
  BY <1>2, <1>3, <1>4 DEF TxThread

-----------------------------------------------------------------------------
(* Time *)

LEMMA TimeInit == Init => TimeInv
<1> SUFFICES ASSUME Init PROVE TimeInv
  OBVIOUS
<1>1. flow = [f \in Flows |-> NoFlow] /\ time = 1 /\ jump = 0 /\ overlay = 0
  BY DEF Init
<1>2. IsEntry(NoFlow) /\ NoFlow.expired
  BY Constants DEF NoFlow, IsEntry
<1>3. \A f \in Flows : flow[f] = NoFlow
  BY <1>1
<1>4. TableOK /\ AheadInv
  BY <1>1, <1>2, <1>3 DEF TableOK, AheadInv, Active, IsOverFlows
<1>5. QED
  BY <1>1, <1>4 DEF TimeInv, NumbersOK, ClockInv

\* Time passes, the clock jumps: what was ahead stays ahead by as much at most.
LEMMA TimePasses ==
    ASSUME TimeInv, UNCHANGED <<overlay, flow>>, NEW now \in Int, now >= time,
           time' = now, NEW j \in Int, jump' = j, now + j > 0,
           j \in Jumps \cup {0}, overlay \in {0, j}
    PROVE  TimeInv'
<1>1. NumbersOK' /\ TableOK' /\ ClockInv'
  BY DEF TimeInv, NumbersOK, TableOK, ClockInv, IsOverFlows
<1>2. ASSUME NEW f \in Flows, Active(f)'
      PROVE  flow'[f].next > 0 /\ flow'[f].next <= Ahead(f)'
  <2>1. flow' = flow /\ overlay' = overlay /\ Active(f)
    BY <1>2 DEF Active
  <2>2. flow[f].next \in Int /\ flow[f].next > 0 /\ flow[f].next <= Ahead(f)
    BY <2>1 DEF TimeInv, AheadInv, TableOK, IsEntry
  <2>3. time \in Int /\ overlay \in Int /\ Fpp[f] \in Int
    BY Constants DEF TimeInv, NumbersOK
  <2>4. Greatest(overlay, 0) \in Int
    BY <2>3 DEF Greatest
  <2>5. Ahead(f) = time + Greatest(overlay, 0) + Fpp[f]
    BY DEF Ahead
  <2>6. Ahead(f)' = now + Greatest(overlay, 0) + Fpp[f]
    BY <2>1 DEF Ahead, Greatest
  <2>7. QED
    BY <2>1, <2>2, <2>3, <2>4, <2>5, <2>6
<1>3. QED
  BY <1>1, <1>2 DEF TimeInv, AheadInv

\* The next packet of a flow that goes on, or begins.
LEMMA NextIsNear ==
    ASSUME TimeInv, NEW table, NEW sent, Left(table), NEW g \in Flows,
           Fate(table, sent, g), ~flow'[g].expired
    PROVE  /\ flow'[g].next \in Int /\ flow'[g].next > 0
           /\ flow'[g].next <= time + Greatest(overlay, 0) + Fpp[g]
           /\ \/ flow'[g].next > Now /\ last'[g] = Unset
              \/ /\ Active(g)
                 /\ flow'[g].next = table[g].next
                 /\ last'[g] = LastSent(table, sent, g)
                 /\ \/ table[g].next >= flow[g].next
                    \/ /\ table[g].next > Now
                       /\ flow[g].next > Now + Discontinuity
<1>1. Now \in Int /\ Now > 0 /\ Now <= time + Greatest(overlay, 0)
      /\ time + Greatest(overlay, 0) \in Int
  BY DEF TimeInv, NumbersOK, ClockInv, Now, Greatest
<1>2. Fpp[g] \in Int /\ Fpp[g] > 0
  BY Constants
<1>3. CASE flow'[g].next = Bootstrapped(g, Now) /\ last'[g] = Unset
  BY <1>1, <1>2, <1>3, BootstrappedFacts
<1>4. CASE /\ ~table[g].expired
           /\ flow'[g].next = table[g].next
           /\ last'[g] = LastSent(table, sent, g)
  <2>1. Active(g) /\ table[g].next \in Int
    BY <1>4 DEF Left
  <2>2. /\ flow[g].next \in Int /\ flow[g].next > 0
        /\ flow[g].next <= time + Greatest(overlay, 0) + Fpp[g]
    BY <2>1 DEF TimeInv, AheadInv, Ahead, TableOK, IsEntry
  <2>3. /\ \/ table[g].next = flow[g].next
           \/ table[g].next <= Now + Fpp[g]
        /\ \/ table[g].next >= flow[g].next
           \/ /\ table[g].next > Now
              /\ flow[g].next > Now + Discontinuity
    BY DEF Left
  <2>4. table[g].next > 0 /\ table[g].next <= time + Greatest(overlay, 0) + Fpp[g]
    BY <1>1, <1>2, <2>1, <2>2, <2>3
  <2>5. QED
    BY <1>4, <2>1, <2>3, <2>4
<1>5. QED
  BY <1>3, <1>4 DEF Fate

LEMMA ThreadKeepsTime ==
    ASSUME TimeInv, TxThread
    PROVE  TimeInv'
<1>1. PICK table, sent, busy :
          /\ Left(table)
          /\ \A g \in Flows : Fate(table, sent, g)
          /\ busy \in Int /\ busy >= 0
          /\ LoopTop(flow', busy)
  BY ThreadFacts DEF TimeInv
<1>2. IsOverFlows(flow') /\ UNCHANGED <<time, jump>> /\ overlay' = jump
  BY ThreadFacts DEF TimeInv
<1>3. NumbersOK' /\ ClockInv'
  BY <1>2 DEF TimeInv, NumbersOK, ClockInv
<1>4. TableOK'
  BY <1>1, <1>2 DEF TableOK, IsOverFlows, Fate
<1>5. ASSUME NEW g \in Flows, Active(g)'
      PROVE  flow'[g].next > 0 /\ flow'[g].next <= Ahead(g)'
  <2>1. ~flow'[g].expired
    BY <1>5 DEF Active
  <2>2. /\ flow'[g].next \in Int /\ flow'[g].next > 0
        /\ flow'[g].next <= time + Greatest(overlay, 0) + Fpp[g]
    BY <1>1, <2>1, NextIsNear
  <2>3. /\ Greatest(overlay, 0) \in Int /\ Greatest(jump, 0) \in Int
        /\ Greatest(overlay, 0) <= Greatest(jump, 0)
    BY DEF TimeInv, NumbersOK, ClockInv, Greatest
  <2>4. Ahead(g)' = time + Greatest(jump, 0) + Fpp[g]
    BY <1>2 DEF Ahead, Greatest
  <2>5. time \in Int /\ Fpp[g] \in Int
    BY Constants DEF TimeInv, NumbersOK
  <2>6. QED
    BY <2>2, <2>3, <2>4, <2>5
<1>6. QED
  BY <1>3, <1>4, <1>5 DEF TimeInv, AheadInv

LEMMA TimeNext == TimeInv /\ [Next]_vars => TimeInv'
<1> SUFFICES ASSUME TimeInv, [Next]_vars PROVE TimeInv'
  OBVIOUS
<1>0. /\ time \in Int /\ jump \in Int /\ overlay \in Int /\ time + jump > 0
      /\ jump \in Jumps \cup {0} /\ overlay \in {0, jump}
  BY DEF TimeInv, NumbersOK, ClockInv
<1>1. CASE UNCHANGED <<time, jump, overlay, flow>>
  BY <1>0, <1>1, TimePasses
<1>2. CASE Tick
  <2>1. time' = time + 1 /\ UNCHANGED <<jump, overlay, flow>>
    BY <1>2 DEF Tick
  <2>2. time + 1 \in Int /\ time + 1 >= time /\ time + 1 + jump > 0
    BY <1>0
  <2>3. QED
    BY <1>0, <2>1, <2>2, TimePasses
<1>3. CASE Jump
  <2>1. PICK j \in Jumps : jump' = j /\ time + j > 0 /\ jump = 0
    BY <1>3 DEF Jump
  <2>2. UNCHANGED <<time, overlay, flow>>
    BY <1>3 DEF Jump, txVars
  <2>3. j \in Int /\ time >= time
    BY <1>0, Constants
  <2>4. QED
    BY <1>0, <2>1, <2>2, <2>3, TimePasses
<1>4. CASE TxThread
  BY <1>4, ThreadKeepsTime
<1>5. CASE \E f \in Flows : Keepalive(f) \/ Abandon(f) \/ Break(f)
  <2>1. UNCHANGED <<time, jump, overlay, flow>>
    BY <1>5 DEF Keepalive, Abandon, Break, clockVars, txVars
  <2>2. QED
    BY <1>1, <2>1
<1>6. CASE UNCHANGED vars
  BY <1>1, <1>6 DEF vars, clockVars, txVars
<1>7. QED
  BY <1>2, <1>3, <1>4, <1>5, <1>6 DEF Next, Environment

-----------------------------------------------------------------------------
(* Timestamps *)

\* What a flow has sent lies before its next packet.
LastInv == \A f \in Flows : Active(f) => last[f] \in Int /\ flow[f].next > last[f]

\* Seen from the thread, which may not have noticed a jump back, no flow is so
\* far ahead that it would start a new timeline.
LEMMA NobodyIsFarAhead ==
    ASSUME JumpsAreShort, TimeInv, NEW g \in Flows, Active(g)
    PROVE  flow[g].next <= Now + Discontinuity
<1>1. /\ flow[g].next \in Int
      /\ flow[g].next <= time + Greatest(overlay, 0) + Fpp[g]
  BY DEF TimeInv, AheadInv, Ahead, TableOK, IsEntry
<1>2. overlay \in Jumps \cup {0} /\ overlay \in Int /\ time \in Int
  BY DEF TimeInv, ClockInv, NumbersOK
<1>3. Fpp[g] \in Int /\ Fpp[g] > 0 /\ Discontinuity \in Int
  BY Constants
<1>4. Fpp[g] - overlay <= Discontinuity /\ Fpp[g] - 0 <= Discontinuity
  BY <1>2 DEF JumpsAreShort
<1>5. Greatest(overlay, 0) + Fpp[g] <= overlay + Discontinuity
  BY <1>2, <1>3, <1>4 DEF Greatest
<1>6. Greatest(overlay, 0) \in Int
  BY <1>2 DEF Greatest
<1>7. QED
  BY <1>1, <1>2, <1>3, <1>5, <1>6 DEF Now

LEMMA LastNext == JumpsAreShort /\ TimeInv /\ LastInv /\ [Next]_vars => LastInv'
<1> SUFFICES ASSUME JumpsAreShort, TimeInv, LastInv, [Next]_vars PROVE LastInv'
  OBVIOUS
<1>1. CASE UNCHANGED <<flow, last>>
  BY <1>1 DEF LastInv, Active
<1>2. CASE Environment
  BY <1>1, <1>2 DEF Environment, Tick, Jump, Keepalive, Abandon, Break, txVars, seen
<1>3. CASE TxThread
  <2>1. PICK table, sent, busy :
            /\ Left(table)
            /\ \A g \in Flows : Fate(table, sent, g)
    BY <1>3, ThreadFacts DEF TimeInv
  <2>2. ASSUME NEW g \in Flows, Active(g)'
        PROVE  last'[g] \in Int /\ flow'[g].next > last'[g]
    <3>1. ~flow'[g].expired
      BY <2>2 DEF Active
    <3>2. /\ flow'[g].next \in Int /\ flow'[g].next > 0
          /\ \/ flow'[g].next > Now /\ last'[g] = Unset
             \/ /\ Active(g)
                /\ flow'[g].next = table[g].next
                /\ last'[g] = LastSent(table, sent, g)
                /\ \/ table[g].next >= flow[g].next
                   \/ /\ table[g].next > Now
                      /\ flow[g].next > Now + Discontinuity
      BY <2>1, <3>1, NextIsNear
    <3>3. CASE last'[g] = Unset
      BY <3>2, <3>3 DEF Unset
    <3>4. CASE /\ Active(g)
               /\ flow'[g].next = table[g].next
               /\ last'[g] = LastSent(table, sent, g)
               /\ \/ table[g].next >= flow[g].next
                  \/ /\ table[g].next > Now
                     /\ flow[g].next > Now + Discontinuity
      <4>0. flow[g].next \in Int /\ Now \in Int
        <5>1. flow[g].next \in Int
          BY DEF TimeInv, TableOK, IsEntry
        <5>2. Now \in Int
          BY DEF TimeInv, NumbersOK, Now
        <5>3. QED
          BY <5>1, <5>2
      <4>1. /\ flow[g].next \in Int /\ Now \in Int /\ Discontinuity \in Int
            /\ Fpp[g] \in Int /\ Fpp[g] > 0
        BY <4>0, Constants
      <4>2. table[g].next >= flow[g].next
        BY <3>4, <4>1, NobodyIsFarAhead
      <4>3. last[g] \in Int /\ flow[g].next > last[g]
        BY <3>4 DEF LastInv
      <4>4. table[g].next \in Int
        BY <3>2, <3>4
      <4>5. CASE g \in sent
        BY <3>4, <4>1, <4>4, <4>5 DEF LastSent
      <4>6. CASE g \notin sent
        BY <3>4, <4>1, <4>2, <4>3, <4>4, <4>6 DEF LastSent
      <4>7. QED
        BY <4>5, <4>6
    <3>5. QED
      BY <3>2, <3>3, <3>4
  <2>3. QED
    BY <2>2 DEF LastInv
<1>4. CASE UNCHANGED vars
  BY <1>1, <1>4 DEF vars, txVars, seen
<1>5. QED
  BY <1>2, <1>3, <1>4 DEF Next

\* NeverTwice, for any flows, any number of commands, keepalives and refusals
\* of the kernel, and however late the thread wakes up: no timestamp is sent
\* twice, when the clock's jump is forward or shorter than what transmit takes
\* for a new timeline (flows_tx.rs:138-145).
THEOREM TimestampsGoForward ==
    ASSUME JumpsAreShort
    PROVE  Spec => []NeverTwice
<1>1. Init => TimeInv /\ LastInv
  <2>1. Init => \A f \in Flows : ~Active(f)
    BY DEF Init, NoFlow, Active
  <2>2. QED
    BY <2>1, TimeInit DEF LastInv
<1>2. TimeInv /\ LastInv /\ [Next]_vars => (TimeInv /\ LastInv)'
  BY TimeNext, LastNext
<1>3. TimeInv /\ LastInv => NeverTwice
  BY DEF LastInv, NeverTwice
<1>4. QED
  BY <1>1, <1>2, <1>3, PTL DEF Spec

-----------------------------------------------------------------------------
(* What the application is told *)

\* What it has been told is the present or the next sample due, and the thread
\* that sleeps in select! has no flow: any packet would be due too soon.
ToldInv ==
    jump = 0 =>
        /\ shown \in Int /\ current \in Int /\ wait \in Int
        /\ shown <= Greatest(time, current)
        /\ selects \in BOOLEAN
        /\ selects => current = Unset /\ \A f \in Flows : ~Active(f)
        /\ ~selects => current > 0 /\ current - time <= wait
        /\ ~selects => \A f \in Flows : Active(f) => flow[f].next >= current
        /\ \A f \in Flows : Active(f) => flow[f].next >= shown

\* A set of naturals that is not empty has a least element.
LEMMA Least ==
    ASSUME NEW S \in SUBSET Nat, S # {}
    PROVE  Smallest(S) \in S /\ \A x \in S : Smallest(S) <= x
<1> DEFINE R == OpToRel(<, Nat)
<1>1. IsWellFoundedOn(R, Nat)
  BY NatLessThanWellFounded
<1>2. \A x, y \in Nat : y < x => <<y, x>> \in R
  BY DEF OpToRel
<1> HIDE DEF R
<1>3. PICK x \in S : \A y \in S : <<y, x>> \notin R
  BY <1>1, WFMin
<1>4. ASSUME NEW y \in S PROVE x <= y
  <2>1. x \in Nat /\ y \in Nat /\ ~(y < x)
    BY <1>2, <1>3
  <2>2. QED
    BY <2>1
<1>5. QED
  BY <1>4 DEF Smallest

\* The top of the loop: the thread sleeps in select! without flows only, and
\* otherwise until the first packet is due, which it makes known.
LEMMA LoopTopFacts ==
    ASSUME PacketsAreShort, jump = 0, time \in Int, NEW busy \in Int, busy >= 0,
           LoopTop(flow', busy), shown \in Int, shown <= time,
           \A g \in Flows : ~flow'[g].expired =>
               /\ flow'[g].next \in Int /\ flow'[g].next > 0
               /\ flow'[g].next <= time + Fpp[g]
               /\ flow'[g].next >= shown
    PROVE  /\ shown' \in Int /\ current' \in Int /\ wait' \in Int
           /\ shown' <= Greatest(time, current')
           /\ selects' \in BOOLEAN
           /\ selects' => current' = Unset /\ \A g \in Flows : flow'[g].expired
           /\ ~selects' => current' > 0 /\ current' - time <= wait'
           /\ ~selects' => \A g \in Flows :
                               ~flow'[g].expired => flow'[g].next >= current'
           /\ \A g \in Flows : ~flow'[g].expired => flow'[g].next >= shown'
<1> DEFINE dueAt == {flow'[f].next : f \in {g \in Flows : ~flow'[g].expired}}
           first == Smallest(dueAt)
           sleep == IF dueAt = {} THEN SelectThreshold
                    ELSE IF first > time THEN first - time ELSE 0
<1>0. /\ wait' = sleep + busy
      /\ selects' \in BOOLEAN /\ (selects' <=> sleep >= SelectThreshold)
      /\ sleep >= SelectThreshold => current' = Unset
      /\ ~(sleep >= SelectThreshold) => current' = first
      /\ current' = Unset => shown' = Greatest(shown, time)
      /\ current' # Unset => shown' = Greatest(shown, current')
  <2>1. time + jump = time
    OBVIOUS
  <2>2. /\ wait' = sleep + busy
        /\ selects' = (sleep >= SelectThreshold)
        /\ current' = (IF sleep >= SelectThreshold THEN Unset ELSE first)
        /\ shown' = Pointer(current', time)
    BY <2>1, Zenon DEF LoopTop
  <2>3. shown' = Greatest(shown, IF current' # Unset THEN current' ELSE time)
    BY <2>2 DEF Pointer
  <2> HIDE DEF dueAt, first, sleep
  <2>4. selects' \in BOOLEAN /\ (selects' <=> sleep >= SelectThreshold)
    <3>1. CASE sleep >= SelectThreshold
      <4>1. (sleep >= SelectThreshold) = TRUE
        BY <3>1
      <4>2. QED
        BY <2>2, <3>1, <4>1, Zenon
    <3>2. CASE ~(sleep >= SelectThreshold)
      <4>1. (sleep >= SelectThreshold) = FALSE
        BY <3>2
      <4>2. QED
        BY <2>2, <3>2, <4>1, Zenon
    <3>3. QED
      BY <3>1, <3>2
  <2>5. QED
    BY <2>2, <2>3, <2>4
<1>1. /\ \A x \in dueAt : \E g \in Flows : ~flow'[g].expired /\ x = flow'[g].next
      /\ \A g \in Flows : ~flow'[g].expired => flow'[g].next \in dueAt
  OBVIOUS
<1>2. CASE dueAt = {}
  <2>1. \A g \in Flows : flow'[g].expired
    BY <1>1, <1>2
  <2>2. sleep = SelectThreshold /\ SelectThreshold \in Int
    BY <1>2, Constants
  <2> HIDE DEF dueAt, first, sleep
  <2>3. /\ selects' \in BOOLEAN /\ selects' /\ current' = Unset /\ wait' \in Int
        /\ shown' = Greatest(shown, time)
    BY <1>0, <2>2
  <2>4. shown' = time /\ time <= Greatest(time, Unset)
    BY <2>3 DEF Greatest, Unset
  <2>5. current' \in Int
    BY <2>3 DEF Unset
  <2>6. QED
    BY <2>1, <2>3, <2>4, <2>5
<1>3. CASE dueAt # {}
  <2>1. dueAt \in SUBSET Nat
    <3>1. \A x \in dueAt : x \in Int /\ x > 0
      BY <1>1
    <3> HIDE DEF dueAt
    <3>2. QED
      BY <3>1
  <2>2. first \in dueAt /\ \A x \in dueAt : first <= x
    BY <1>3, <2>1, Least
  <2>3. PICK h \in Flows : ~flow'[h].expired /\ first = flow'[h].next
    BY <1>1, <2>2
  <2>4. first \in Int /\ first > 0 /\ first <= time + Fpp[h]
    BY <2>3
  <2>5. /\ Fpp[h] \in Int /\ Fpp[h] > 0 /\ Fpp[h] < SelectThreshold
        /\ SelectThreshold \in Int
    BY Constants DEF PacketsAreShort
  <2>6. sleep = (IF first > time THEN first - time ELSE 0)
    BY <1>3
  <2>7. \A g \in Flows : ~flow'[g].expired => flow'[g].next >= first
    BY <1>1, <2>2
  <2> HIDE DEF dueAt, first, sleep
  <2>8. sleep \in Int /\ sleep < SelectThreshold /\ first - time <= sleep
    BY <2>4, <2>5, <2>6
  <2>9. /\ selects' \in BOOLEAN /\ ~selects' /\ current' = first /\ wait' = sleep + busy
        /\ shown' = Greatest(shown, first)
    BY <1>0, <2>4, <2>5, <2>8 DEF Unset
  <2>10. first - time <= sleep + busy /\ sleep + busy \in Int
    BY <2>4, <2>8
  <2>11. Greatest(shown, first) \in {shown, first}
    BY DEF Greatest
  <2>12. Greatest(shown, first) <= Greatest(time, first)
    BY <2>4 DEF Greatest
  <2>13. \A g \in Flows : ~flow'[g].expired => flow'[g].next >= Greatest(shown, first)
    BY <2>7, <2>11
  <2>14. QED
    BY <2>4, <2>7, <2>9, <2>10, <2>11, <2>12, <2>13
<1>4. QED
  BY <1>2, <1>3

LEMMA ToldNext == PacketsAreShort /\ TimeInv /\ ToldInv /\ [Next]_vars => ToldInv'
<1> SUFFICES ASSUME PacketsAreShort, TimeInv, ToldInv, [Next]_vars, jump' = 0
             PROVE  ToldInv'
  BY DEF ToldInv
<1>1. CASE UNCHANGED <<time, jump, flow, wait, selects, current, shown>>
  BY <1>1 DEF ToldInv, Active, Greatest
<1>2. CASE Tick
  <2>1. /\ time' = time + 1 /\ jump = 0 /\ UNCHANGED <<jump, flow, selects, current>>
        /\ wait' = (IF wait > -MaxStall THEN wait - 1 ELSE wait)
        /\ shown' = Pointer(current, time' + jump)
    BY <1>2 DEF Tick
  <2>2. /\ shown \in Int /\ current \in Int /\ wait \in Int
        /\ shown <= Greatest(time, current)
        /\ selects \in BOOLEAN
        /\ selects => current = Unset /\ \A f \in Flows : ~Active(f)
        /\ ~selects => current > 0 /\ current - time <= wait
        /\ ~selects => \A f \in Flows : Active(f) => flow[f].next >= current
        /\ \A f \in Flows : Active(f) => flow[f].next >= shown
    BY <2>1 DEF ToldInv
  <2>3. time \in Int /\ time > 0 /\ \A f \in Flows : flow[f].next \in Int
    BY DEF TimeInv, NumbersOK, ClockInv, TableOK, IsEntry
  <2>4. wait' \in Int /\ wait' >= wait - 1
    BY <2>1, <2>2, Constants
  <2>5. shown' = Greatest(shown, IF current # Unset THEN current ELSE time + 1)
    BY <2>1, <2>3 DEF Pointer
  <2>6. CASE selects
    <3>1. shown' = time + 1 /\ time + 1 <= Greatest(time + 1, current)
      BY <2>2, <2>3, <2>5, <2>6 DEF Greatest, Unset
    <3>2. \A f \in Flows : ~Active(f)'
      BY <2>1, <2>2, <2>6 DEF Active
    <3>3. QED
      BY <2>1, <2>2, <2>3, <2>4, <2>6, <3>1, <3>2 DEF ToldInv, Greatest
  <2>7. CASE ~selects
    <3>1. current # Unset
      BY <2>2, <2>7 DEF Unset
    <3>2. shown' = Greatest(shown, current)
      BY <2>5, <3>1
    <3>3. shown' \in {shown, current} /\ shown' <= Greatest(time + 1, current)
      BY <2>2, <2>3, <3>2 DEF Greatest
    <3>4. ASSUME NEW f \in Flows, Active(f)'
          PROVE  flow'[f].next >= current' /\ flow'[f].next >= shown'
      BY <2>1, <2>2, <2>7, <3>3, <3>4 DEF Active
    <3>5. current - (time + 1) <= wait' /\ current > 0
      BY <2>2, <2>3, <2>4, <2>7
    <3>6. shown' \in Int /\ current' \in Int /\ ~selects' /\ selects' \in BOOLEAN
      BY <2>1, <2>2, <2>7, <3>3
    <3>7. shown' <= Greatest(time, current)'
      BY <2>1, <3>3 DEF Greatest
    <3>8. current' > 0 /\ current' - time' <= wait'
      BY <2>1, <3>5
    <3>9. QED
      BY <2>4, <3>4, <3>6, <3>7, <3>8 DEF ToldInv
  <2>8. QED
    BY <2>2, <2>6, <2>7
<1>3. CASE Jump
  BY <1>1, <1>3 DEF Jump, txVars, seen
<1>4. CASE \E f \in Flows : Keepalive(f) \/ Abandon(f) \/ Break(f)
  BY <1>1, <1>4 DEF Keepalive, Abandon, Break, clockVars, txVars, seen
<1>5. CASE TxThread
  <2>1. PICK table, sent, busy :
            /\ Left(table)
            /\ \A g \in Flows : Fate(table, sent, g)
            /\ busy \in Int /\ busy >= 0
            /\ LoopTop(flow', busy)
    BY <1>5, ThreadFacts DEF TimeInv
  <2>2. UNCHANGED <<time, jump>> /\ jump = 0 /\ (selects \/ wait <= 0)
    BY <1>5, ThreadFacts DEF TimeInv
  <2>3. /\ shown \in Int /\ current \in Int /\ wait \in Int
        /\ shown <= Greatest(time, current)
        /\ selects \in BOOLEAN
        /\ selects => current = Unset
        /\ ~selects => current > 0 /\ current - time <= wait
        /\ \A f \in Flows : Active(f) => flow[f].next >= shown
    BY <2>2 DEF ToldInv
  <2>4. time \in Int /\ time > 0 /\ overlay = 0 /\ Now = time
    BY <2>2 DEF TimeInv, NumbersOK, ClockInv, Now
  <2>5. shown <= time
    BY <2>2, <2>3, <2>4 DEF Greatest, Unset
  <2>6. ASSUME NEW g \in Flows, ~flow'[g].expired
        PROVE  /\ flow'[g].next \in Int /\ flow'[g].next > 0
               /\ flow'[g].next <= time + Fpp[g]
               /\ flow'[g].next >= shown
    <3>1. /\ flow'[g].next \in Int /\ flow'[g].next > 0
          /\ flow'[g].next <= time + Greatest(overlay, 0) + Fpp[g]
          /\ \/ flow'[g].next > Now
             \/ /\ Active(g)
                /\ flow'[g].next = table[g].next
                /\ \/ table[g].next >= flow[g].next
                   \/ table[g].next > Now
      BY <2>1, <2>6, NextIsNear
    <3>2. Greatest(overlay, 0) = 0 /\ Fpp[g] \in Int
      BY <2>4, Constants DEF Greatest
    <3>3. flow'[g].next <= time + Fpp[g]
      BY <2>4, <3>1, <3>2
    <3>4. CASE flow'[g].next > Now
      BY <2>3, <2>4, <2>5, <3>1, <3>3, <3>4
    <3>5. CASE Active(g) /\ flow'[g].next >= flow[g].next
      <4>1. flow[g].next \in Int /\ flow[g].next >= shown
        BY <2>3, <3>5 DEF TimeInv, TableOK, IsEntry
      <4>2. QED
        BY <2>3, <3>1, <3>3, <3>5, <4>1
    <3>6. QED
      BY <3>1, <3>4, <3>5
  <2>7. /\ shown' \in Int /\ current' \in Int /\ wait' \in Int
        /\ shown' <= Greatest(time, current')
        /\ selects' \in BOOLEAN
        /\ selects' => current' = Unset /\ \A g \in Flows : flow'[g].expired
        /\ ~selects' => current' > 0 /\ current' - time <= wait'
        /\ ~selects' => \A g \in Flows :
                            ~flow'[g].expired => flow'[g].next >= current'
        /\ \A g \in Flows : ~flow'[g].expired => flow'[g].next >= shown'
    BY <2>1, <2>2, <2>3, <2>4, <2>5, <2>6, LoopTopFacts
  <2>8. Greatest(time, current)' = Greatest(time, current') /\ time' = time
    BY <2>2 DEF Greatest
  <2>9. QED
    BY <2>7, <2>8 DEF ToldInv, Active
<1>6. CASE UNCHANGED vars
  BY <1>1, <1>6 DEF vars, clockVars, txVars, seen
<1>7. QED
  BY <1>2, <1>3, <1>4, <1>5, <1>6 DEF Next, Environment

\* ShownIsSent, for any flows, also of different packet lengths, any refusals
\* of the kernel and however late the thread wakes up: while the clock does not
\* jump, the application is never told of a position that a flow is still to
\* send (alsa-plugin/src/lib.rs:198).
THEOREM ToldPositionsAreSent ==
    ASSUME PacketsAreShort
    PROVE  Spec => []ShownIsSent
<1>1. Init => TimeInv /\ ToldInv
  <2>1. ASSUME Init PROVE \A f \in Flows : ~Active(f)
    BY <2>1 DEF Init, NoFlow, Active
  <2>2. ASSUME Init PROVE ToldInv
    BY <2>1, <2>2 DEF Init, ToldInv, Greatest, Unset
  <2>3. QED
    BY <2>2, TimeInit
<1>2. TimeInv /\ ToldInv /\ [Next]_vars => (TimeInv /\ ToldInv)'
  BY TimeNext, ToldNext
<1>3. TimeInv /\ ToldInv => ShownIsSent
  BY DEF ToldInv, ShownIsSent
<1>4. QED
  BY <1>1, <1>2, <1>3, PTL DEF Spec
-----------------------------------------------------------------------------
(* Packets keep coming *)

\* Only the last flow of the table may be one that cannot be sent: another one
\* holds up those that come after it.
OnlyTheLastFails == Breakable \subseteq {N}

\* How late the thread is at worst, for a flow that can be sent.
StallsAreShort ==
    /\ MaxAwake + 2 * MaxStall <= MaxLag
    /\ SelectThreshold > 0
    /\ \A f \in Flows : Fpp[f] + MaxAwake + 2 * MaxStall <= Discontinuity

SeenOK ==
    /\ wait \in Int /\ wait >= -MaxStall /\ selects \in BOOLEAN
    /\ broken \subseteq Breakable /\ alive \subseteq Flows
    /\ quiet \in [Flows -> Nat] /\ silent \in [Flows -> Nat]
    /\ \A f \in Flows : flow[f].expires \in Int

\* What an iteration makes of a flow, its receiver's view included, when `table`,
\* `sent` and `read` are what transmit has left: it is removed, asked for, or
\* goes on.
QuietAfter(sent, g) == IF g \in sent THEN 0 ELSE quiet[g]

IsAsked(table, sent, g) ==
    /\ ~flow'[g].expired /\ silent'[g] = 0 /\ flow'[g].expires = Now + KeepaliveTimeout
    /\ \/ flow'[g].next = Bootstrapped(g, Now) /\ quiet'[g] = 0
       \/ /\ ~table[g].expired /\ flow'[g].next = table[g].next
          /\ quiet'[g] = QuietAfter(sent, g)

IsKept(table, sent, read, g) ==
    /\ flow'[g] = table[g] /\ silent'[g] = silent[g] /\ quiet'[g] = QuietAfter(sent, g)
    /\ last'[g] = LastSent(table, sent, g)
    /\ g \in alive' => g \in alive
    /\ g \in pending' <=> g \in pending \ read

Outcome(table, sent, read, g) ==
    \/ flow'[g] = NoFlow /\ g \notin alive' /\ silent'[g] = silent[g] /\ quiet'[g] = QuietAfter(sent, g)
    \/ IsAsked(table, sent, g)
    \/ IsKept(table, sent, read, g)

LEMMA IterateOutcome ==
    ASSUME NumbersOK, NEW table, NEW sent, NEW read, NEW busy,
           NEW allowed \in SUBSET Commands,
           IsOverFlows(table), \A f \in Flows : IsEntry(table[f]),
           Iterate(table, sent, read, busy, allowed), NEW g \in Flows
    PROVE  Outcome(table, sent, read, g)
<1>1. PICK c \in allowed, f \in Flows :
          /\ IsLegal(table, c, f)
          /\ LoopTop(Executed(table, c, f), busy)
          /\ LET fresh == IF c \in {"AddFlow", "RemoveFlow"} THEN {f} ELSE {}
                 asked == IF c \in {"AddFlow", "SetChannels"} THEN {f} ELSE {}
                 begun == {h \in asked : table[h].expired}
             IN  /\ alive' = (alive \ fresh) \cup asked
                 /\ pending' = (pending \ read) \ fresh
                 /\ silent' = [h \in Flows |-> IF h \in asked THEN 0 ELSE silent[h]]
                 /\ quiet' = [h \in Flows |-> IF h \in sent \cup begun THEN 0 ELSE quiet[h]]
                 /\ last' = [h \in Flows |->
                        IF h \in fresh \cup begun THEN Unset
                        ELSE IF h \in sent THEN table[h].next - Fpp[h] ELSE last[h]]
  BY DEF Iterate
<1>2. flow' = Executed(table, c, f)
  BY <1>1 DEF LoopTop
<1>3. ASSUME c = "NoOp" \/ f # g
      PROVE  Outcome(table, sent, read, g)
  <2>1. c \in {"NoOp", "AddFlow", "RemoveFlow", "SetChannels"}
    BY DEF Commands
  <2>2. flow'[g] = table[g]
    BY <1>2, <1>3, <2>1 DEF Executed, IsOverFlows
  <2> DEFINE fresh == IF c \in {"AddFlow", "RemoveFlow"} THEN {f} ELSE {}
             asked == IF c \in {"AddFlow", "SetChannels"} THEN {f} ELSE {}
             begun == {h \in asked : table[h].expired}
  <2>3. /\ alive' = (alive \ fresh) \cup asked
        /\ pending' = (pending \ read) \ fresh
        /\ silent'[g] = (IF g \in asked THEN 0 ELSE silent[g])
        /\ quiet'[g] = (IF g \in sent \cup begun THEN 0 ELSE quiet[g])
        /\ last'[g] = (IF g \in fresh \cup begun THEN Unset
                       ELSE IF g \in sent THEN table[g].next - Fpp[g] ELSE last[g])
    BY <1>1
  <2>4. g \notin fresh /\ g \notin asked /\ g \notin begun
    BY <1>3
  <2> HIDE DEF fresh, asked, begun
  <2>5. IsKept(table, sent, read, g)
    BY <2>2, <2>3, <2>4 DEF IsKept, QuietAfter, LastSent
  <2>6. QED
    BY <2>5 DEF Outcome
<1>4. ASSUME c = "AddFlow", f = g
      PROVE  Outcome(table, sent, read, g)
  <2>1. flow'[g] = Begun(g, Bootstrapped(g, Now))
    BY <1>2, <1>4 DEF Executed, IsOverFlows
  <2>2. table[g] = NoFlow
    BY <1>1, <1>4 DEF IsLegal
  <2>3. table[g].expired
    BY <2>2 DEF NoFlow
  <2>4. silent'[g] = 0 /\ quiet'[g] = 0
    BY <1>1, <1>4, <2>3
  <2>5. IsAsked(table, sent, g)
    BY <2>1, <2>4 DEF IsAsked, Begun
  <2>6. QED
    BY <2>5 DEF Outcome
<1>5. ASSUME c = "RemoveFlow", f = g
      PROVE  Outcome(table, sent, read, g)
  <2>1. flow'[g] = NoFlow
    BY <1>2, <1>5 DEF Executed, IsOverFlows
  <2>2. g \notin alive' /\ silent'[g] = silent[g] /\ quiet'[g] = QuietAfter(sent, g)
    BY <1>1, <1>5 DEF QuietAfter
  <2>3. QED
    BY <2>1, <2>2 DEF Outcome
<1>6. ASSUME c = "SetChannels", f = g
      PROVE  Outcome(table, sent, read, g)
  <2>1. flow'[g] = Changed(table, g)
    BY <1>2, <1>6 DEF Executed, IsOverFlows
  <2>2. silent'[g] = 0 /\ quiet'[g] = (IF g \in sent \/ table[g].expired THEN 0 ELSE quiet[g])
    BY <1>1, <1>6
  <2>3. CASE table[g].expired
    <3>1. flow'[g] = Begun(g, Bootstrapped(g, Now)) /\ quiet'[g] = 0
      BY <2>1, <2>2, <2>3 DEF Changed
    <3>2. QED
      BY <2>2, <3>1 DEF Outcome, IsAsked, Begun
  <2>4. CASE ~table[g].expired
    <3>1. flow'[g] = Begun(g, table[g].next) /\ quiet'[g] = QuietAfter(sent, g)
      BY <2>1, <2>2, <2>4 DEF Changed, QuietAfter
    <3>2. QED
      BY <2>2, <2>4, <3>1 DEF Outcome, IsAsked, Begun
  <2>5. QED
    BY <2>3, <2>4
<1>7. c \in {"NoOp", "AddFlow", "RemoveFlow", "SetChannels"}
  BY DEF Commands
<1>8. QED
  BY <1>3, <1>4, <1>5, <1>6, <1>7

\* A flow that can be sent is served in every iteration.
LEMMA NothingBlocks ==
    ASSUME OnlyTheLastFails, broken \subseteq Breakable, NEW f \in Flows \ broken, Active(f)
    PROVE  f \in Reached /\ f \notin Blocking /\ f \in Served
<1>1. f \notin Blocking
  BY DEF Blocking
<1>2. \A g \in Blocking : g = N
  BY DEF Blocking, OnlyTheLastFails
<1>3. f <= N
  BY Constants DEF Flows
<1>4. f \in Reached
  BY <1>2, <1>3 DEF Reached
<1>5. QED
  BY <1>1, <1>4 DEF Served

LEMMA ServedFacts ==
    ASSUME TimeInv, OnlyTheLastFails, broken \subseteq Breakable, NEW f \in Flows \ broken, Active(f),
           NEW events
    PROVE  /\ Transmitted(events)[f].next = Drained(f, Synchronized(f, Now))
           /\ Transmitted(events)[f].expired = (events /\ ExpiresNow(f))
           /\ Transmitted(events)[f].expires = IF events /\ f \in pending
                                               THEN Now + KeepaliveTimeout ELSE flow[f].expires
<1>1. f \in Reached /\ f \notin Blocking
  BY NothingBlocks
<1> DEFINE d == Drained(f, Synchronized(f, Now))
           e == IF events /\ f \in pending THEN Now + KeepaliveTimeout ELSE flow[f].expires
           x == events /\ ExpiresNow(f)
<1>2. Transmitted(events)[f] = [next |-> d, expires |-> e, expired |-> x]
  BY <1>1 DEF Transmitted
<1> HIDE DEF d, e, x
<1>3. Transmitted(events)[f].next = d /\ Transmitted(events)[f].expires = e /\ Transmitted(events)[f].expired = x
  BY <1>2
<1>4. QED
  BY <1>3 DEF d, e, x

LEMMA TransmittedExpires ==
    ASSUME TableOK, NEW events, NEW f \in Flows
    PROVE  Transmitted(events)[f].expires \in {flow[f].expires, Now + KeepaliveTimeout}
<1> DEFINE d == Drained(f, Synchronized(f, Now))
           s == Synchronized(f, Now)
           e == IF events /\ f \in pending THEN Now + KeepaliveTimeout ELSE flow[f].expires
           x == events /\ ExpiresNow(f)
<1>1. Transmitted(events)[f] = (IF f \notin Reached THEN flow[f]
                                ELSE IF f \in Blocking THEN [flow[f] EXCEPT !.next = s]
                                ELSE [next |-> d, expires |-> e, expired |-> x])
  BY DEF Transmitted
<1>2. e \in {flow[f].expires, Now + KeepaliveTimeout}
  OBVIOUS
<1> HIDE DEF d, s, e, x
<1>3. flow[f] = [next |-> flow[f].next, expires |-> flow[f].expires, expired |-> flow[f].expired]
  BY DEF TableOK, IsEntry
<1>4. [flow[f] EXCEPT !.next = s].expires = flow[f].expires
  BY <1>3
<1>5. QED
  BY <1>1, <1>2, <1>4

LEMMA IterateSeen ==
    ASSUME SeenOK, NEW table, NEW sent, NEW read, NEW busy, NEW allowed \in SUBSET Commands,
           Iterate(table, sent, read, busy, allowed)
    PROVE  /\ alive' \subseteq Flows /\ broken' = broken
           /\ quiet' \in [Flows -> {quiet[g] : g \in Flows} \cup {0}]
           /\ silent' \in [Flows -> {silent[g] : g \in Flows} \cup {0}]
<1>1. PICK c \in allowed, f \in Flows :
          LET fresh == IF c \in {"AddFlow", "RemoveFlow"} THEN {f} ELSE {}
              asked == IF c \in {"AddFlow", "SetChannels"} THEN {f} ELSE {}
              begun == {h \in asked : table[h].expired}
          IN  /\ alive' = (alive \ fresh) \cup asked
              /\ silent' = [g \in Flows |-> IF g \in asked THEN 0 ELSE silent[g]]
              /\ quiet' = [g \in Flows |-> IF g \in sent \cup begun THEN 0 ELSE quiet[g]]
  BY DEF Iterate
<1>2. broken' = broken
  BY DEF Iterate
<1>3. alive' \subseteq Flows
  BY <1>1 DEF SeenOK
<1>4. quiet' \in [Flows -> {quiet[g] : g \in Flows} \cup {0}]
  BY <1>1
<1>5. silent' \in [Flows -> {silent[g] : g \in Flows} \cup {0}]
  BY <1>1
<1>6. QED
  BY <1>2, <1>3, <1>4, <1>5

\* The top of the loop: the thread wakes up when the first packet is due, or at
\* once.
WakesFor(g, busy) ==
    \/ wait' = busy /\ ~selects'
    \/ time + wait' + jump <= flow'[g].next + busy

LEMMA WakesInTime ==
    ASSUME NumbersOK, SelectThreshold > 0, NEW busy \in Int, busy >= 0, LoopTop(flow', busy),
           \A g \in Flows : ~flow'[g].expired => flow'[g].next \in Int /\ flow'[g].next > 0
    PROVE  /\ wait' \in Int /\ wait' >= 0 /\ selects' \in BOOLEAN
           /\ \A g \in Flows : ~flow'[g].expired => WakesFor(g, busy)
<1> DEFINE dueAt == {flow'[f].next : f \in {g \in Flows : ~flow'[g].expired}}
           now == time + jump
           first == Smallest(dueAt)
           sleep == IF dueAt = {} THEN SelectThreshold
                    ELSE IF first > now THEN first - now ELSE 0
<1>1. wait' = sleep + busy /\ selects' = (sleep >= SelectThreshold)
  BY Zenon DEF LoopTop
<1>2. now \in Int /\ now = time + jump /\ time \in Int /\ jump \in Int /\ SelectThreshold \in Int
  BY Constants DEF NumbersOK
<1>3. \A g \in Flows : ~flow'[g].expired => flow'[g].next \in dueAt
  OBVIOUS
<1>4. CASE dueAt = {}
  <2>1. sleep = SelectThreshold
    BY <1>4
  <2> HIDE DEF dueAt, sleep, now, first
  <2>2. wait' \in Int /\ wait' >= 0 /\ selects' \in BOOLEAN
    BY <1>1, <1>2, <2>1
  <2>3. QED
    BY <1>3, <1>4, <2>2
<1>5. CASE dueAt # {}
  <2>1. dueAt \in SUBSET Nat
    <3>1. \A x \in dueAt : x \in Int /\ x > 0
      OBVIOUS
    <3> HIDE DEF dueAt
    <3>2. QED
      BY <3>1
  <2>2. first \in dueAt /\ \A x \in dueAt : first <= x
    BY <1>5, <2>1, Least
  <2>3. sleep = (IF first > now THEN first - now ELSE 0)
    BY <1>5
  <2> HIDE DEF dueAt, sleep, now, first
  <2>4. first \in Int
    BY <2>1, <2>2
  <2>5. wait' \in Int /\ wait' >= 0 /\ selects' \in BOOLEAN
    BY <1>1, <1>2, <2>3, <2>4
  <2>6. ASSUME NEW g \in Flows, ~flow'[g].expired
        PROVE  WakesFor(g, busy)
    <3>1. first <= flow'[g].next /\ flow'[g].next \in Int
      BY <1>3, <2>2, <2>6
    <3>2. CASE first > now
      <4>1. wait' = first - now + busy
        BY <1>1, <2>3, <3>2
      <4>2. time + wait' + jump <= flow'[g].next + busy
        BY <1>2, <2>4, <3>1, <4>1
      <4>3. QED
        BY <4>2 DEF WakesFor
    <3>3. CASE ~(first > now)
      <4>1. sleep = 0
        BY <2>3, <3>3
      <4>2. wait' = busy
        BY <1>1, <4>1
      <4>3. (sleep >= SelectThreshold) = FALSE
        BY <1>2, <4>1
      <4>4. ~selects'
        BY <1>1, <4>3, Zenon
      <4>5. QED
        BY <4>2, <4>4 DEF WakesFor
    <3>4. QED
      BY <3>2, <3>3
  <2>7. QED
    BY <2>5, <2>6
<1>6. QED
  BY <1>4, <1>5

\* The inductive invariant.  `Wake`, the time when the thread means to go on, is
\* tied to what is due and to how long ago a flow has sent.  A flow is on its
\* first timeline since, or it has begun another one, as the clock jumped ahead.
Wake == time + wait
Slack == MaxAwake + (IF selects THEN 0 ELSE MaxStall)
Backward == IF overlay < 0 THEN -overlay ELSE 0

IsAwaited(f) == Wake + overlay <= flow[f].next + Slack

First(f) ==
    /\ overlay <= 0 => IsAwaited(f)
    /\ flow[f].next <= time - quiet[f] + Greatest(overlay, 0) + Fpp[f]
    /\ Wake <= time - quiet[f] + Fpp[f] + Backward + Slack

Second(f) ==
    /\ overlay > 0 /\ IsAwaited(f)
    /\ flow[f].next <= time + overlay + Fpp[f]
    /\ flow[f].next <= time - quiet[f] + overlay + 2 * Fpp[f] + MaxAwake + 2 * MaxStall
    /\ Wake <= time - quiet[f] + 2 * Fpp[f] + MaxAwake + 2 * MaxStall + Slack

StreamInv == \A f \in Flows \ broken : Active(f) => First(f) \/ Second(f)

\* What an iteration finds, and the sleep that follows it.
LoopOK(busy) ==
    /\ TimeInv /\ SeenOK
    /\ overlay' = jump /\ time' = time
    /\ busy \in Int /\ busy >= 0 /\ busy <= MaxAwake
    /\ wait' \in Int /\ wait' >= 0 /\ selects' \in BOOLEAN

LEMMA StreamNumbers ==
    ASSUME TimeInv, SeenOK, NEW f \in Flows
    PROVE  /\ {time, jump, overlay, wait, quiet[f], flow[f].next, Now} \subseteq Int
           /\ {MaxAwake, MaxStall, MaxLag, Discontinuity, Fpp[f]} \subseteq Int
           /\ overlay \in {0, jump} /\ quiet[f] >= 0 /\ wait >= -MaxStall
           /\ MaxAwake >= 0 /\ MaxStall >= 0 /\ Fpp[f] > 0
           /\ Now = time + overlay /\ selects \in BOOLEAN
<1>1. MaxStall \in Int /\ MaxStall >= 0
  BY TransmitAssumption
<1>2. flow[f].next \in Int
  BY DEF TimeInv, TableOK, IsEntry
<1>3. QED
  BY <1>1, <1>2, Constants DEF TimeInv, NumbersOK, ClockInv, SeenOK, Now

LEMMA LoopNumbers ==
    ASSUME NEW busy, LoopOK(busy), NEW f \in Flows
    PROVE  /\ {time, jump, overlay, wait, wait', quiet[f], flow[f].next, busy} \subseteq Int
           /\ {MaxAwake, MaxStall, MaxLag, Discontinuity, Fpp[f]} \subseteq Int
           /\ overlay \in {0, jump} /\ quiet[f] >= 0 /\ wait >= -MaxStall
           /\ MaxAwake >= 0 /\ MaxStall >= 0 /\ Fpp[f] > 0
           /\ Now = time + overlay
           /\ selects \in BOOLEAN /\ selects' \in BOOLEAN
  BY StreamNumbers DEF LoopOK

\* A flow that has just sent, or begins.
LEMMA AnewIsFirst ==
    ASSUME NEW busy, LoopOK(busy), NEW f \in Flows, WakesFor(f, busy),
           quiet'[f] = 0, flow'[f].next \in Int, flow'[f].next > Now, flow'[f].next <= Now + Fpp[f]
    PROVE  First(f)'
<1>1. /\ {time, jump, overlay, wait', busy} \subseteq Int
      /\ {MaxAwake, MaxStall, Fpp[f]} \subseteq Int
      /\ overlay \in {0, jump} /\ MaxAwake >= 0 /\ MaxStall >= 0 /\ Fpp[f] > 0
      /\ Now = time + overlay /\ selects' \in BOOLEAN
  BY LoopNumbers
<1>2. overlay' = jump /\ time' = time /\ busy >= 0 /\ busy <= MaxAwake
  BY DEF LoopOK
<1> DEFINE slack == MaxAwake + (IF selects' THEN 0 ELSE MaxStall)
<1>3. Slack' = slack /\ slack \in Int /\ slack >= MaxAwake /\ (~selects' => slack = MaxAwake + MaxStall)
  BY <1>1 DEF Slack
<1> HIDE DEF slack
<1>4. \/ wait' = busy /\ ~selects'
      \/ time + wait' + jump <= flow'[f].next + busy
  BY DEF WakesFor
<1>5. jump <= 0 => time + wait' + jump <= flow'[f].next + slack
  BY <1>1, <1>2, <1>3, <1>4
<1>6. flow'[f].next <= time - 0 + Greatest(jump, 0) + Fpp[f]
  BY <1>1 DEF Greatest
<1>7. time + wait' <= time - 0 + Fpp[f] + (IF jump < 0 THEN -jump ELSE 0) + slack
  BY <1>1, <1>2, <1>3, <1>4
<1>8. QED
  BY <1>2, <1>3, <1>5, <1>6, <1>7 DEF First, IsAwaited, Wake, Backward, Greatest

\* A flow that goes on as it was: it has nothing due, or the thread has looked at
\* its commands only.
LEMMA FirstStays ==
    ASSUME NEW busy, LoopOK(busy), NEW f \in Flows, WakesFor(f, busy), First(f),
           quiet'[f] = quiet[f], flow'[f].next = flow[f].next,
           flow[f].next > Now \/ (selects /\ busy = 0)
    PROVE  First(f)'
<1>1. /\ {time, jump, overlay, wait, wait', quiet[f], flow[f].next, busy} \subseteq Int
      /\ {MaxAwake, MaxStall, Fpp[f]} \subseteq Int
      /\ overlay \in {0, jump} /\ MaxAwake >= 0 /\ MaxStall >= 0 /\ Fpp[f] > 0
      /\ wait >= -MaxStall
      /\ Now = time + overlay /\ selects \in BOOLEAN /\ selects' \in BOOLEAN
  BY LoopNumbers
<1>2. overlay' = jump /\ time' = time /\ busy >= 0 /\ busy <= MaxAwake
  BY DEF LoopOK
<1> DEFINE slack == MaxAwake + (IF selects' THEN 0 ELSE MaxStall)
           next == flow[f].next
           q == quiet[f]
<1>3. Slack' = slack /\ slack \in Int /\ slack >= MaxAwake /\ (~selects' => slack = MaxAwake + MaxStall)
  BY <1>1 DEF Slack
<1>4. selects => Slack = MaxAwake
  BY <1>1 DEF Slack
<1>5. \/ wait' = busy /\ ~selects'
      \/ time + wait' + jump <= next + busy
  BY DEF WakesFor
<1>6. /\ overlay <= 0 => time + wait + overlay <= next + Slack
      /\ next <= time - q + (IF overlay > 0 THEN overlay ELSE 0) + Fpp[f]
      /\ time + wait <= time - q + Fpp[f] + (IF overlay < 0 THEN -overlay ELSE 0) + Slack
  BY DEF First, IsAwaited, Wake, Backward, Greatest
<1>7. next > time + overlay \/ (selects /\ busy = 0 /\ Slack = MaxAwake)
  BY <1>1, <1>4
<1>8. next \in Int /\ q \in Int
  BY <1>1
<1> HIDE DEF slack, next, q
<1>9. jump <= 0 => time + wait' + jump <= next + slack
  BY <1>1, <1>2, <1>3, <1>5, <1>6, <1>7, <1>8
<1>10. next <= time - q + (IF jump > 0 THEN jump ELSE 0) + Fpp[f]
  BY <1>1, <1>6, <1>8
<1>11. time + wait' <= time - q + Fpp[f] + (IF jump < 0 THEN -jump ELSE 0) + slack
  BY <1>1, <1>2, <1>3, <1>5, <1>6, <1>7, <1>8
<1>12. QED
  BY <1>2, <1>3, <1>9, <1>10, <1>11 DEF First, IsAwaited, Wake, Backward, Greatest, next, q

LEMMA SecondStays ==
    ASSUME NEW busy, LoopOK(busy), NEW f \in Flows, WakesFor(f, busy), Second(f),
           quiet'[f] = quiet[f], flow'[f].next = flow[f].next,
           flow[f].next > Now \/ (selects /\ busy = 0)
    PROVE  Second(f)'
<1>1. /\ {time, jump, overlay, wait, wait', quiet[f], flow[f].next, busy} \subseteq Int
      /\ {MaxAwake, MaxStall, Fpp[f]} \subseteq Int
      /\ overlay \in {0, jump} /\ MaxAwake >= 0 /\ MaxStall >= 0 /\ Fpp[f] > 0
      /\ wait >= -MaxStall
      /\ Now = time + overlay /\ selects \in BOOLEAN /\ selects' \in BOOLEAN
  BY LoopNumbers
<1>2. overlay' = jump /\ time' = time /\ busy >= 0 /\ busy <= MaxAwake
  BY DEF LoopOK
<1> DEFINE slack == MaxAwake + (IF selects' THEN 0 ELSE MaxStall)
           next == flow[f].next
           q == quiet[f]
           more == 2 * Fpp[f] + MaxAwake + 2 * MaxStall
<1>3. Slack' = slack /\ slack \in Int /\ slack >= MaxAwake /\ (~selects' => slack = MaxAwake + MaxStall)
  BY <1>1 DEF Slack
<1>4. selects => Slack = MaxAwake
  BY <1>1 DEF Slack
<1>5. \/ wait' = busy /\ ~selects'
      \/ time + wait' + jump <= next + busy
  BY DEF WakesFor
<1>6. /\ overlay > 0 /\ overlay = jump
      /\ time + wait + overlay <= next + Slack
      /\ next <= time + overlay + Fpp[f]
      /\ next <= time - q + overlay + more
      /\ time + wait <= time - q + more + Slack
  BY <1>1 DEF Second, IsAwaited, Wake
<1>7. next > time + overlay \/ (selects /\ busy = 0 /\ Slack = MaxAwake)
  BY <1>1, <1>4
<1>8. next \in Int /\ q \in Int /\ more \in Int
  BY <1>1
<1> HIDE DEF slack, next, q, more
<1>9. time + wait' + jump <= next + slack
  BY <1>1, <1>2, <1>3, <1>5, <1>6, <1>7, <1>8
<1>10. time + wait' <= time - q + more + slack
  BY <1>1, <1>2, <1>3, <1>5, <1>6, <1>7, <1>8
<1>11. jump > 0 /\ next <= time + jump + Fpp[f] /\ next <= time - q + jump + more
  BY <1>6
<1>12. QED
  BY <1>1, <1>2, <1>3, <1>9, <1>10, <1>11 DEF Second, IsAwaited, Wake, next, q, more

\* A flow that begins another timeline.
LEMMA FirstBeginsSecond ==
    ASSUME NEW busy, LoopOK(busy), NEW f \in Flows, WakesFor(f, busy), First(f), overlay > 0,
           quiet'[f] = quiet[f], flow'[f].next \in Int, flow'[f].next > Now, flow'[f].next <= Now + Fpp[f]
    PROVE  Second(f)'
<1>1. /\ {time, jump, overlay, wait, wait', quiet[f], busy} \subseteq Int
      /\ {MaxAwake, MaxStall, Fpp[f]} \subseteq Int
      /\ overlay \in {0, jump} /\ MaxAwake >= 0 /\ MaxStall >= 0 /\ Fpp[f] > 0
      /\ wait >= -MaxStall
      /\ Now = time + overlay /\ selects \in BOOLEAN /\ selects' \in BOOLEAN
  BY LoopNumbers
<1>2. overlay' = jump /\ time' = time /\ busy >= 0 /\ busy <= MaxAwake /\ overlay = jump
  BY <1>1 DEF LoopOK
<1> DEFINE slack == MaxAwake + (IF selects' THEN 0 ELSE MaxStall)
           next == flow'[f].next
           q == quiet[f]
           more == 2 * Fpp[f] + MaxAwake + 2 * MaxStall
<1>3. Slack' = slack /\ slack \in Int /\ slack >= MaxAwake /\ (~selects' => slack = MaxAwake + MaxStall)
  BY <1>1 DEF Slack
<1>4. Slack \in Int /\ Slack <= MaxAwake + MaxStall
  BY <1>1 DEF Slack
<1>5. \/ wait' = busy /\ ~selects'
      \/ time + wait' + jump <= next + busy
  BY DEF WakesFor
<1>6. time + wait <= time - q + Fpp[f] + Slack
  BY <1>1 DEF First, Wake, Backward
<1>7. next > time + overlay /\ next <= time + overlay + Fpp[f] /\ next \in Int /\ q \in Int
  BY <1>1
<1>8. more = 2 * Fpp[f] + MaxAwake + 2 * MaxStall /\ more \in Int
  BY <1>1
<1> HIDE DEF slack, next, q, more
<1>9. time + wait' + jump <= next + slack
  BY <1>1, <1>2, <1>3, <1>5, <1>7
<1>10. time <= time - q + Fpp[f] + MaxAwake + 2 * MaxStall
  BY <1>1, <1>4, <1>6, <1>7
<1>11. next <= time - q + jump + more
  BY <1>1, <1>2, <1>7, <1>8, <1>10
<1>12. time + wait' <= time - q + more + slack
  BY <1>1, <1>2, <1>3, <1>5, <1>7, <1>8, <1>10
<1>13. jump > 0 /\ next <= time + jump + Fpp[f]
  BY <1>2, <1>7
<1>14. QED
  BY <1>1, <1>2, <1>3, <1>9, <1>11, <1>12, <1>13 DEF Second, IsAwaited, Wake, next, q, more

\* A thread step, as what it does to the flows: `table`, `sent` and `read` are
\* what transmit leaves, or what a command that wakes the thread finds.
LoopDoes(table, sent, read, busy) ==
    /\ LoopOK(busy)
    /\ \A g \in Flows : Outcome(table, sent, read, g)
    /\ \A g \in Flows : ~flow'[g].expired => WakesFor(g, busy)
    /\ quiet' \in [Flows -> {quiet[g] : g \in Flows} \cup {0}]
    /\ silent' \in [Flows -> {silent[g] : g \in Flows} \cup {0}]
    /\ alive' \subseteq Flows /\ broken' = broken

\* Awake, the thread processes events when they are due; asleep in select!, always.
EventsAre(events) ==
    /\ events \/ (~(Now >= nextEvents) /\ nextEvents' = nextEvents)
    /\ nextEvents' \in {nextEvents, Now + EventsInterval}

Transmits(table, sent, read) ==
    \E events : /\ table = Transmitted(events) /\ sent = {f \in Served : HasDue(f)}
                /\ read = (IF events THEN Served ELSE {})
                /\ EventsAre(events)

Commanded(table, sent, read, busy) ==
    /\ table = flow /\ sent = {} /\ read = {} /\ busy = 0
    /\ selects /\ nextEvents' = nextEvents

LEMMA LoopsAre ==
    ASSUME TimeInv, SeenOK, SelectThreshold > 0, TxThread
    PROVE  \E table, sent, read, busy :
               /\ LoopDoes(table, sent, read, busy)
               /\ Transmits(table, sent, read) \/ Commanded(table, sent, read, busy)
<1>1. TimeInv' /\ UNCHANGED <<time, jump>> /\ overlay' = jump
  BY ThreadKeepsTime, ThreadFacts DEF TimeInv
<1>2. \A g \in Flows : ~flow'[g].expired => flow'[g].next \in Int /\ flow'[g].next > 0
  BY <1>1 DEF TimeInv, TableOK, IsEntry, AheadInv, Active
<1>3. NumbersOK /\ TableOK /\ IsOverFlows(flow) /\ Now \in Int /\ \A g \in Flows : IsEntry(flow[g])
  BY DEF TimeInv, TableOK, NumbersOK, Now
<1>4. ASSUME NEW table, NEW sent, NEW read, NEW busy, NEW allowed \in SUBSET Commands,
             IsOverFlows(table), \A f \in Flows : IsEntry(table[f]),
             Iterate(table, sent, read, busy, allowed), busy \in Int, busy >= 0, busy <= MaxAwake
      PROVE  LoopDoes(table, sent, read, busy)
  <2>1. \A g \in Flows : Outcome(table, sent, read, g)
    BY <1>3, <1>4, IterateOutcome
  <2>2. /\ alive' \subseteq Flows /\ broken' = broken
        /\ quiet' \in [Flows -> {quiet[g] : g \in Flows} \cup {0}]
        /\ silent' \in [Flows -> {silent[g] : g \in Flows} \cup {0}]
    BY <1>4, IterateSeen
  <2>3. PICK c \in allowed, f \in Flows : LoopTop(Executed(table, c, f), busy)
    BY <1>4 DEF Iterate
  <2>4. LoopTop(flow', busy)
    <3>1. flow' = Executed(table, c, f)
      BY <2>3 DEF LoopTop
    <3>2. QED
      BY <2>3, <3>1
  <2>5. /\ wait' \in Int /\ wait' >= 0 /\ selects' \in BOOLEAN
        /\ \A g \in Flows : ~flow'[g].expired => WakesFor(g, busy)
    BY <1>2, <1>3, <1>4, <2>4, WakesInTime
  <2>6. QED
    BY <1>1, <1>4, <2>1, <2>2, <2>5 DEF LoopOK, LoopDoes
<1>5. ASSUME NEW events, NEW allowed \in SUBSET Commands, TransmitThen(events, allowed),
             EventsAre(events)
      PROVE  \E table, sent, read, busy : LoopDoes(table, sent, read, busy) /\ Transmits(table, sent, read)
  <2> DEFINE table == Transmitted(events)
             sent == {f \in Served : HasDue(f)}
             read == IF events THEN Served ELSE {}
             busy == IF Blocking = {} THEN 0 ELSE MaxAwake
  <2>1. Iterate(table, sent, read, busy, allowed)
    BY <1>5 DEF TransmitThen
  <2>2. IsOverFlows(table)
    BY DEF Transmitted, IsOverFlows
  <2>3. \A f \in Flows : IsEntry(table[f])
    BY <1>3, TransmittedFacts
  <2>4. busy \in Int /\ busy >= 0 /\ busy <= MaxAwake
    BY Constants
  <2>5. Transmits(table, sent, read)
    BY <1>5 DEF Transmits
  <2> HIDE DEF table, sent, read, busy
  <2>6. LoopDoes(table, sent, read, busy)
    BY <1>4, <2>1, <2>2, <2>3, <2>4
  <2>7. QED
    BY <2>5, <2>6
<1>6. CASE Poll
  <2> DEFINE events == Now >= nextEvents
             allowed == IF events THEN Commands ELSE {"NoOp"}
  <2>1. /\ TransmitThen(events, allowed)
        /\ nextEvents' = (IF events THEN Now + EventsInterval ELSE nextEvents)
    BY <1>6, Zenon DEF Poll
  <2>2. allowed \in SUBSET Commands
    BY DEF Commands
  <2>3. EventsAre(events)
    BY <2>1 DEF EventsAre
  <2> HIDE DEF events, allowed
  <2>4. QED
    BY <1>5, <2>1, <2>2, <2>3
<1>7. CASE SelectTimer
  <2>1. TransmitThen(TRUE, {"NoOp"})
    BY <1>7 DEF SelectTimer
  <2>2. {"NoOp"} \in SUBSET Commands
    BY DEF Commands
  <2>3. EventsAre(TRUE)
    BY <1>7 DEF SelectTimer, EventsAre
  <2>4. QED
    BY <1>5, <2>1, <2>2, <2>3
<1>8. CASE SelectCommand
  <2>1. selects /\ nextEvents' = nextEvents /\ Iterate(flow, {}, {}, 0, Commands \ {"NoOp"})
    BY <1>8 DEF SelectCommand
  <2>2. (Commands \ {"NoOp"}) \in SUBSET Commands
    OBVIOUS
  <2>3. 0 \in Int /\ 0 >= 0 /\ 0 <= MaxAwake
    BY Constants
  <2>4. LoopDoes(flow, {}, {}, 0)
    BY <1>3, <1>4, <2>1, <2>2, <2>3
  <2>5. QED
    BY <2>1, <2>4 DEF Commanded
<1>9. QED
  BY <1>6, <1>7, <1>8, <1>5 DEF TxThread

LEMMA SeenNext ==
    ASSUME TimeInv, SeenOK, SelectThreshold > 0, [Next]_vars
    PROVE  SeenOK'
<1>0. Unset \in Int /\ KeepaliveTimeout \in Int /\ Discontinuity \in Int /\ MaxStall \in Int /\ MaxStall >= 0
  BY Constants, TransmitAssumption
<1>1. CASE TxThread
  <2>1. PICK table, sent, read, busy :
             /\ LoopDoes(table, sent, read, busy)
             /\ Transmits(table, sent, read) \/ table = flow
    BY <1>1, LoopsAre DEF Commanded
  <2>2. Now \in Int /\ TableOK
    BY DEF TimeInv, NumbersOK, Now
  <2>3. \A f \in Flows : table[f].expires \in Int
    BY <1>0, <2>1, <2>2, TransmittedExpires DEF SeenOK, Transmits
  <2>4. quiet' \in [Flows -> Nat] /\ silent' \in [Flows -> Nat]
    <3>1. /\ ({quiet[g] : g \in Flows} \cup {0}) \subseteq Nat
          /\ ({silent[g] : g \in Flows} \cup {0}) \subseteq Nat
      BY DEF SeenOK
    <3>2. QED
      BY <2>1, <3>1 DEF LoopDoes
  <2>5. ASSUME NEW f \in Flows
        PROVE  flow'[f].expires \in Int
    <3>1. NoFlow.expires = Unset
      BY DEF NoFlow
    <3>2. flow'[f].expires \in {Unset, Now + KeepaliveTimeout, table[f].expires}
      BY <2>1, <3>1 DEF LoopDoes, Outcome, IsAsked, IsKept
    <3>3. QED
      BY <1>0, <2>2, <2>3, <3>2
  <2>6. wait' \in Int /\ wait' >= 0 /\ selects' \in BOOLEAN
    BY <2>1 DEF LoopDoes, LoopOK
  <2>7. QED
    BY <1>0, <2>1, <2>4, <2>5, <2>6 DEF SeenOK, LoopDoes
<1>2. CASE Tick
  <2>1. /\ wait' = (IF wait > -MaxStall THEN wait - 1 ELSE wait)
        /\ silent' = [f \in Flows |-> IF Exists(f) THEN Capped(silent[f]) ELSE 0]
        /\ quiet' = [f \in Flows |-> IF Active(f) THEN Capped(quiet[f]) ELSE 0]
        /\ UNCHANGED <<flow, selects, broken, alive>>
    BY <1>2 DEF Tick
  <2>2. \A n \in Nat : Capped(n) \in Nat
    BY <1>0 DEF Capped
  <2>3. wait' \in Int /\ wait' >= -MaxStall
    BY <1>0, <2>1 DEF SeenOK
  <2>4. quiet' \in [Flows -> Nat] /\ silent' \in [Flows -> Nat]
    <3>1. \A f \in Flows : /\ (IF Exists(f) THEN Capped(silent[f]) ELSE 0) \in Nat
                           /\ (IF Active(f) THEN Capped(quiet[f]) ELSE 0) \in Nat
      BY <2>2 DEF SeenOK
    <3>2. QED
      BY <2>1, <3>1
  <2>5. QED
    BY <2>1, <2>3, <2>4 DEF SeenOK
<1>3. CASE Jump \/ UNCHANGED vars
  BY <1>3 DEF Jump, vars, txVars, seen, SeenOK
<1>4. ASSUME NEW f \in Flows, Keepalive(f) \/ Abandon(f) \/ Break(f)
      PROVE  SeenOK'
  <2>1. UNCHANGED <<wait, selects, flow, quiet>>
    BY <1>4 DEF Keepalive, Abandon, Break, txVars
  <2>2. broken' \subseteq Breakable /\ alive' \subseteq Flows
    BY <1>4 DEF Keepalive, Abandon, Break, SeenOK
  <2>3. silent' = silent \/ silent' = [silent EXCEPT ![f] = 0]
    BY <1>4 DEF Keepalive, Abandon, Break
  <2>4. silent' \in [Flows -> Nat]
    BY <2>3 DEF SeenOK
  <2>5. QED
    BY <2>1, <2>2, <2>4 DEF SeenOK
<1>5. QED
  BY <1>1, <1>2, <1>3, <1>4 DEF Next, Environment

\* A flow that is awaited does not lag.
LEMMA AwaitedInTime ==
    ASSUME TimeInv, SeenOK, StallsAreShort, NEW f \in Flows, IsAwaited(f)
    PROVE  Now - flow[f].next <= MaxLag
<1>1. /\ {time, overlay, wait, flow[f].next, MaxAwake, MaxStall, MaxLag} \subseteq Int
      /\ MaxStall >= 0 /\ wait >= -MaxStall /\ selects \in BOOLEAN /\ Now = time + overlay
  BY StreamNumbers
<1>2. Slack \in Int /\ Slack <= MaxAwake + MaxStall
  BY <1>1 DEF Slack
<1>3. time + wait + overlay <= flow[f].next + Slack
  BY DEF IsAwaited, Wake
<1>4. MaxAwake + 2 * MaxStall <= MaxLag
  BY DEF StallsAreShort
<1>5. QED
  BY <1>1, <1>2, <1>3, <1>4

\* ... and starts anew only when the clock has jumped ahead.
LEMMA SynchronizedIs ==
    ASSUME TimeInv, SeenOK, JumpsAreShort, StallsAreShort, NEW f \in Flows, Active(f),
           First(f) \/ Second(f), Synchronized(f, Now) # flow[f].next
    PROVE  First(f) /\ overlay > 0 /\ Synchronized(f, Now) <= Now + Fpp[f]
<1>1. Now \in Int /\ flow[f].next \in Int /\ overlay \in Int /\ Discontinuity \in Int
  BY StreamNumbers
<1>2. flow[f].next <= Now + Discontinuity
  BY NobodyIsFarAhead
<1>3. ~(Now - flow[f].next < -Discontinuity)
  BY <1>1, <1>2
<1>4. Now - flow[f].next > MaxLag
  BY <1>3 DEF Synchronized
<1>5. ~IsAwaited(f)
  <2> SUFFICES ASSUME IsAwaited(f) PROVE FALSE
    OBVIOUS
  <2>1. Now - flow[f].next <= MaxLag
    BY AwaitedInTime
  <2>2. QED
    BY <1>1, <1>4, <2>1, Constants
<1>6. First(f) /\ overlay > 0
  BY <1>1, <1>5 DEF First, Second
<1>7. Synchronized(f, Now) <= Now + Fpp[f]
  BY <1>1, SynchronizedFacts
<1>8. QED
  BY <1>6, <1>7

LEMMA ThreadKeepsStreams ==
    ASSUME TimeInv, SeenOK, StreamInv, OnlyTheLastFails, JumpsAreShort, StallsAreShort, TxThread
    PROVE  StreamInv'
<1>1. PICK table, sent, read, busy :
          /\ LoopDoes(table, sent, read, busy)
          /\ Transmits(table, sent, read) \/ Commanded(table, sent, read, busy)
  BY LoopsAre DEF StallsAreShort
<1>2. SUFFICES ASSUME NEW f \in Flows, f \notin broken, ~flow'[f].expired
               PROVE  First(f)' \/ Second(f)'
  BY <1>1 DEF StreamInv, Active, LoopDoes
<1>3. /\ LoopOK(busy) /\ Outcome(table, sent, read, f) /\ WakesFor(f, busy)
  BY <1>1, <1>2 DEF LoopDoes
<1>4. TableOK /\ Now \in Int /\ flow[f].next \in Int
  BY StreamNumbers DEF TimeInv
<1>5. CASE flow'[f].next = Bootstrapped(f, Now) /\ quiet'[f] = 0
  <2>1. flow'[f].next \in Int /\ flow'[f].next > Now /\ flow'[f].next <= Now + Fpp[f]
    BY <1>4, <1>5, BootstrappedFacts
  <2>2. QED
    BY <1>3, <1>5, <2>1, AnewIsFirst
<1>6. CASE /\ ~table[f].expired /\ flow'[f].next = table[f].next
           /\ quiet'[f] = QuietAfter(sent, f)
  <2>1. CASE Transmits(table, sent, read)
    <3>1. PICK events : table = Transmitted(events) /\ sent = {h \in Served : HasDue(h)}
      BY <2>1 DEF Transmits
    <3>2. Active(f)
      <4> SUFFICES ASSUME ~Active(f) PROVE FALSE
        OBVIOUS
      <4>1. table[f] = flow[f]
        BY <1>4, <3>1, TransmittedFacts
      <4>2. QED
        BY <1>6, <4>1 DEF Active
    <3>3. broken \subseteq Breakable /\ f \in Flows \ broken
      BY <1>2 DEF SeenOK
    <3>4. f \in Served
      BY <3>2, <3>3, NothingBlocks
    <3> DEFINE s == Synchronized(f, Now)
    <3>5. flow'[f].next = Drained(f, s)
      BY <1>6, <3>1, <3>2, <3>3, ServedFacts
    <3>6. s \in Int
      BY <1>4, SynchronizedFacts
    <3>7. /\ Drained(f, s) \in Int /\ Drained(f, s) > Now
          /\ Drained(f, s) = s \/ Drained(f, s) <= Now + Fpp[f]
      BY <1>4, <3>6, DrainedFacts
    <3>8. CASE s <= Now
      <4>1. quiet'[f] = 0
        BY <1>6, <3>1, <3>2, <3>4, <3>8 DEF HasDue, QuietAfter
      <4> HIDE DEF s
      <4>2. flow'[f].next \in Int /\ flow'[f].next > Now /\ flow'[f].next <= Now + Fpp[f]
        BY <1>4, <3>5, <3>6, <3>7, <3>8
      <4>3. QED
        BY <1>3, <4>1, <4>2, AnewIsFirst
    <3>9. CASE ~(s <= Now)
      <4>1. quiet'[f] = quiet[f]
        BY <1>6, <3>1, <3>9 DEF HasDue, QuietAfter
      <4>2. s > Now /\ flow'[f].next = s
        BY <1>4, <3>5, <3>6, <3>9 DEF Drained
      <4>3. First(f) \/ Second(f)
        BY <1>2, <3>2 DEF StreamInv
      <4>4. CASE s = flow[f].next
        BY <1>3, <4>1, <4>2, <4>3, <4>4, FirstStays, SecondStays
      <4>5. CASE s # flow[f].next
        <5>1. First(f) /\ overlay > 0 /\ s <= Now + Fpp[f]
          BY <3>2, <4>3, <4>5, SynchronizedIs
        <5> HIDE DEF s
        <5>2. QED
          BY <1>3, <3>6, <4>1, <4>2, <5>1, FirstBeginsSecond
      <4>6. QED
        BY <4>4, <4>5
    <3>10. QED
      BY <3>8, <3>9
  <2>2. CASE table = flow /\ sent = {} /\ selects /\ busy = 0
    <3>1. flow'[f].next = flow[f].next /\ quiet'[f] = quiet[f] /\ Active(f)
      BY <1>6, <2>2 DEF QuietAfter, Active
    <3>2. First(f) \/ Second(f)
      BY <1>2, <3>1 DEF StreamInv
    <3>3. QED
      BY <1>3, <2>2, <3>1, <3>2, FirstStays, SecondStays
  <2>3. QED
    BY <1>1, <2>1, <2>2 DEF Commanded
<1>7. QED
  <2>1. flow'[f] # NoFlow
    BY <1>2 DEF NoFlow
  <2>2. QED
    BY <1>2, <1>3, <1>5, <1>6, <2>1 DEF Outcome, IsAsked, IsKept

LEMMA StreamNext ==
    TimeInv /\ SeenOK /\ StreamInv /\ OnlyTheLastFails /\ JumpsAreShort /\ StallsAreShort /\ [Next]_vars
        => StreamInv'
<1> SUFFICES ASSUME TimeInv, SeenOK, StreamInv, OnlyTheLastFails, JumpsAreShort, StallsAreShort, [Next]_vars
             PROVE  StreamInv'
  OBVIOUS
<1>1. CASE TxThread
  BY <1>1, ThreadKeepsStreams
<1>2. CASE UNCHANGED <<time, overlay, flow, wait, selects, quiet>> /\ broken \subseteq broken'
  <2>1. UNCHANGED <<Wake, Slack, Backward>>
    BY <1>2 DEF Wake, Slack, Backward
  <2>2. \A f \in Flows : Active(f)' <=> Active(f)
    BY <1>2 DEF Active
  <2>3. \A f \in Flows : First(f) => First(f)'
    BY <1>2, <2>1 DEF First, IsAwaited, Greatest
  <2>4. \A f \in Flows : Second(f) => Second(f)'
    BY <1>2, <2>1 DEF Second, IsAwaited
  <2>5. QED
    BY <1>2, <2>2, <2>3, <2>4 DEF StreamInv
<1>3. CASE Tick
  <2>1. /\ (\E f \in Flows : Active(f)) => wait > -MaxStall
        /\ time' = time + 1
        /\ wait' = IF wait > -MaxStall THEN wait - 1 ELSE wait
        /\ quiet' = [f \in Flows |-> IF Active(f) THEN Capped(quiet[f]) ELSE 0]
        /\ UNCHANGED <<overlay, flow, selects, broken>>
    BY <1>3 DEF Tick
  <2>2. SUFFICES ASSUME NEW f \in Flows, f \notin broken, Active(f)
                 PROVE  First(f)' \/ Second(f)'
    BY <2>1 DEF StreamInv, Active
  <2>3. /\ {time, overlay, wait, quiet[f], flow[f].next, MaxAwake, MaxStall, Fpp[f]} \subseteq Int
        /\ MaxAwake >= 0 /\ MaxStall >= 0 /\ Fpp[f] > 0 /\ selects \in BOOLEAN
    BY StreamNumbers
  <2>4. wait' = wait - 1
    BY <2>1, <2>2
  <2>5. quiet'[f] \in Int /\ quiet'[f] <= quiet[f] + 1
    <3>1. quiet'[f] = Capped(quiet[f])
      BY <2>1, <2>2
    <3>2. QED
      BY <2>3, <3>1 DEF Capped
  <2>6. Wake' = Wake /\ Slack' = Slack /\ Backward' = Backward /\ Wake \in Int /\ Slack \in Int /\ Backward \in Int
    BY <2>1, <2>3, <2>4 DEF Wake, Slack, Backward
  <2>7. time' - quiet'[f] >= time - quiet[f] /\ time' >= time /\ time' \in Int
    BY <2>1, <2>3, <2>5
  <2>8. Greatest(overlay, 0) \in Int
    BY <2>3 DEF Greatest
  <2>9. First(f) => First(f)'
    BY <2>1, <2>3, <2>5, <2>6, <2>7, <2>8 DEF First, IsAwaited
  <2>10. Second(f) => Second(f)'
    BY <2>1, <2>3, <2>5, <2>6, <2>7 DEF Second, IsAwaited
  <2>11. QED
    BY <2>2, <2>9, <2>10 DEF StreamInv
<1>4. CASE Jump \/ UNCHANGED vars \/ \E f \in Flows : Keepalive(f) \/ Abandon(f) \/ Break(f)
  <2>1. UNCHANGED <<time, overlay, flow, wait, selects, quiet>> /\ broken \subseteq broken'
    BY <1>4 DEF Jump, vars, clockVars, txVars, seen, Keepalive, Abandon, Break
  <2>2. QED
    BY <1>2, <2>1
<1>5. QED
  BY <1>1, <1>3, <1>4 DEF Next, Environment

LEMMA StreamInit == Init => SeenOK /\ StreamInv
<1> SUFFICES ASSUME Init PROVE SeenOK /\ StreamInv
  OBVIOUS
<1>1. MaxStall \in Int /\ MaxStall >= 0 /\ Unset \in Int
  BY TransmitAssumption, Constants
<1>2. /\ flow = [f \in Flows |-> NoFlow] /\ wait = 0 /\ selects = TRUE /\ broken = {} /\ alive = {}
      /\ silent = [f \in Flows |-> 0] /\ quiet = [f \in Flows |-> 0]
  BY DEF Init
<1>3. \A f \in Flows : flow[f].expired /\ flow[f].expires = Unset
  BY <1>2 DEF NoFlow
<1>4. SeenOK
  BY <1>1, <1>2, <1>3 DEF SeenOK
<1>5. QED
  BY <1>3, <1>4 DEF StreamInv, Active

\* How long ago a flow can have sent its last packet.
LEMMA QuietIsShort ==
    ASSUME TimeInv, SeenOK, StreamInv, NEW f \in Flows \ broken, Active(f)
    PROVE  \/ quiet[f] <= Fpp[f] + MaxAwake + 2 * MaxStall + Backward
           \/ overlay > 0 /\ quiet[f] <= 2 * Fpp[f] + 2 * MaxAwake + 4 * MaxStall
<1>1. /\ {time, overlay, wait, quiet[f], MaxAwake, MaxStall, Fpp[f]} \subseteq Int
      /\ MaxStall >= 0 /\ wait >= -MaxStall /\ selects \in BOOLEAN
  BY TransmitAssumption, Constants DEF TimeInv, NumbersOK, SeenOK
<1>2. Slack \in Int /\ Slack <= MaxAwake + MaxStall /\ Backward \in Int
  BY <1>1 DEF Slack, Backward
<1>3. First(f) \/ Second(f)
  BY DEF StreamInv
<1>4. CASE First(f)
  <2>1. time + wait <= time - quiet[f] + Fpp[f] + Backward + Slack
    BY <1>4 DEF First, Wake
  <2>2. QED
    BY <1>1, <1>2, <2>1
<1>5. CASE Second(f)
  <2>1. time + wait <= time - quiet[f] + 2 * Fpp[f] + MaxAwake + 2 * MaxStall + Slack /\ overlay > 0
    BY <1>5 DEF Second, Wake
  <2>2. QED
    BY <1>1, <1>2, <2>1
<1>6. QED
  BY <1>3, <1>4, <1>5

\* A flow is never without packets for long, whenever the clock jumps (by less
\* than the threshold), the thread wakes up, commands come and keepalives do not,
\* for any flows of which at most the last cannot be sent (flows_tx.rs:138-145,
\* 205-216, 306-330).
THEOREM PacketsKeepComing ==
    ASSUME OnlyTheLastFails, JumpsAreShort, StallsAreShort
    PROVE  Spec => []StreamResumes
<1>1. Init => TimeInv /\ SeenOK /\ StreamInv
  BY TimeInit, StreamInit
<1>2. TimeInv /\ SeenOK /\ StreamInv /\ [Next]_vars => (TimeInv /\ SeenOK /\ StreamInv)'
  BY TimeNext, SeenNext, StreamNext DEF StallsAreShort
<1>3. TimeInv /\ SeenOK /\ StreamInv => StreamResumes
  <2> SUFFICES ASSUME TimeInv, SeenOK, StreamInv, NEW f \in Flows \ broken, Active(f)
               PROVE  quiet[f] <= Discontinuity + Fpp[f] + MaxAwake + 2 * MaxStall
    BY DEF StreamResumes
  <2>1. /\ {overlay, quiet[f], MaxAwake, MaxStall, Fpp[f], Discontinuity} \subseteq Int
        /\ MaxAwake >= 0 /\ MaxStall >= 0 /\ Fpp[f] > 0
    BY TransmitAssumption, Constants DEF TimeInv, NumbersOK, SeenOK
  <2>2. Fpp[f] + MaxAwake + 2 * MaxStall <= Discontinuity
    BY DEF StallsAreShort
  <2>3. overlay \in Jumps \cup {0}
    BY DEF TimeInv, ClockInv
  <2>4. Fpp[f] - overlay <= Discontinuity /\ Backward \in Int /\ Backward <= Discontinuity
    BY <2>1, <2>2, <2>3 DEF JumpsAreShort, Backward
  <2>5. \/ quiet[f] <= Fpp[f] + MaxAwake + 2 * MaxStall + Backward
        \/ overlay > 0 /\ quiet[f] <= 2 * Fpp[f] + 2 * MaxAwake + 4 * MaxStall
    BY QuietIsShort
  <2>6. QED
    BY <2>1, <2>2, <2>4, <2>5
<1>4. QED
  BY <1>1, <1>2, <1>3, PTL DEF Spec

-----------------------------------------------------------------------------
(* Receivers are kept *)

\* The timeout has room for what a receiver waits for: a flow that is begun
\* sends its first packet, the receiver answers with keepalives, and the clock
\* may jump meanwhile.
TimelyKeepalives ==
    \A f \in Flows : \A j \in Jumps \cup {0} :
        /\ Fpp[f] + MaxAwake + 2 * MaxStall - j <= KeepaliveTimeout
        /\ 2 * Fpp[f] + 2 * MaxAwake + 4 * MaxStall + Greatest(j, 0) <= KeepaliveTimeout
        /\ KeepaliveGap + Greatest(j, 0) <= KeepaliveTimeout

QuietShort ==
    \A f \in Flows \ broken : Active(f) =>
        \/ quiet[f] <= Fpp[f] + MaxAwake + 2 * MaxStall + Backward
        \/ overlay > 0 /\ quiet[f] <= 2 * Fpp[f] + 2 * MaxAwake + 4 * MaxStall

\* The inductive invariant: what has come, read or not, keeps a flow until the
\* next keepalive, whether or not the thread has noticed the jump.
Deadline(f) ==
    f \in pending \/ flow[f].expires >= time - silent[f] + KeepaliveTimeout - Backward

Room(f) ==
    /\ silent[f] <= KeepaliveTimeout
    /\ \A j \in Jumps : overlay \in {0, j} => silent[f] + j <= KeepaliveTimeout

IsHeld(f) ==
    /\ Active(f) /\ Deadline(f) /\ Room(f)
    /\ last[f] = Unset => silent[f] <= quiet[f]

AliveInv == \A f \in alive \ broken : IsHeld(f)

LEMMA KeepNumbers ==
    ASSUME TimeInv, SeenOK, NEW f \in Flows
    PROVE  /\ {time, jump, overlay, Now, silent[f], quiet[f], flow[f].next, flow[f].expires} \subseteq Int
           /\ {KeepaliveTimeout, KeepaliveGap, MaxAwake, MaxStall, Discontinuity, Fpp[f]} \subseteq Int
           /\ silent[f] >= 0 /\ quiet[f] >= 0 /\ MaxAwake >= 0 /\ MaxStall >= 0 /\ Fpp[f] > 0
           /\ KeepaliveGap >= 0
           /\ Now = time + overlay /\ overlay \in {0, jump} /\ jump \in Jumps \cup {0}
           /\ Jumps \subseteq Int
<1>1. KeepaliveGap \in Int /\ KeepaliveGap >= 0
  BY TransmitAssumption
<1>2. jump \in Jumps \cup {0}
  BY DEF TimeInv, ClockInv
<1>3. silent[f] \in Int /\ silent[f] >= 0 /\ flow[f].expires \in Int
  BY DEF SeenOK
<1>4. QED
  BY <1>1, <1>2, <1>3, StreamNumbers, Constants

\* A receiver that has just been heard, or asked for the flow.
LEMMA FreshRoom ==
    ASSUME TimelyKeepalives, NEW f \in Flows, NEW o
    PROVE  /\ 0 <= KeepaliveTimeout
           /\ \A j \in Jumps : o \in {0, j} => 0 + j <= KeepaliveTimeout
<1>1. KeepaliveGap \in Int /\ KeepaliveGap >= 0 /\ KeepaliveTimeout \in Int /\ Jumps \subseteq Int
  BY TransmitAssumption
<1>2. \A j \in Jumps \cup {0} : KeepaliveGap + Greatest(j, 0) <= KeepaliveTimeout
  BY DEF TimelyKeepalives
<1>3. QED
  BY <1>1, <1>2 DEF Greatest

\* The flow of a receiver that is held does not expire.
LEMMA HeldIsInTime ==
    ASSUME TimeInv, SeenOK, NEW f \in Flows, IsHeld(f)
    PROVE  ~ExpiresNow(f)
<1>1. SUFFICES ASSUME f \notin pending PROVE flow[f].expires >= Now
  BY KeepNumbers DEF ExpiresNow
<1>2. flow[f].expires >= time - silent[f] + KeepaliveTimeout - Backward
  BY <1>1 DEF IsHeld, Deadline
<1>3. silent[f] <= KeepaliveTimeout /\ (overlay \in Jumps => silent[f] + overlay <= KeepaliveTimeout)
  BY DEF IsHeld, Room
<1>4. QED
  BY <1>2, <1>3, KeepNumbers DEF Backward

\* The last packet of a flow that sends has a timestamp.
LEMMA SentHasTimestamp ==
    ASSUME TimeInv, SeenOK, NEW f \in Flows, HasDue(f)
    PROVE  Drained(f, Synchronized(f, Now)) - Fpp[f] # Unset
<1>1. Active(f) /\ Synchronized(f, Now) <= Now
  BY DEF HasDue
<1>2. flow[f].next \in Int /\ flow[f].next > 0 /\ Now \in Int
  BY <1>1, KeepNumbers DEF TimeInv, AheadInv
<1>3. Synchronized(f, Now) = flow[f].next
  BY <1>1, <1>2, SynchronizedFacts
<1> DEFINE p == Fpp[f]
           n == flow[f].next
           q == (Now - n) \div p
<1>4. p \in Int /\ p > 0
  BY Constants
<1>5. n \in Int /\ n > 0 /\ n <= Now /\ Now - n \in Int /\ Now - n >= 0
  BY <1>1, <1>2, <1>3
<1>6. Drained(f, n) = n + p * (q + 1)
  <2>1. ~(n > Now)
    BY <1>2, <1>5
  <2>2. QED
    BY <2>1 DEF Drained
<1>7. q \in Int /\ q >= 0
  <2> HIDE DEF p, n
  <2>1. QED
    BY <1>4, <1>5
<1> HIDE DEF p, n, q
<1>8. p * (q + 1) = p * q + p /\ p * q \in Int /\ p * q >= 0
  BY <1>4, <1>7
<1>9. Drained(f, n) - p > 0
  BY <1>4, <1>5, <1>6, <1>8
<1>10. QED
  BY <1>3, <1>9 DEF Unset, p, n

LEMMA TickKeeps ==
    ASSUME TimeInv, SeenOK, AliveInv, QuietShort', SeenOK', TimelyKeepalives, StallsAreShort, Tick
    PROVE  AliveInv'
<1>1. /\ \A f \in alive : Active(f) /\ last[f] # Unset => silent[f] < KeepaliveGap
      /\ time' = time + 1
      /\ silent' = [f \in Flows |-> IF Exists(f) THEN Capped(silent[f]) ELSE 0]
      /\ quiet' = [f \in Flows |-> IF Active(f) THEN Capped(quiet[f]) ELSE 0]
      /\ UNCHANGED <<overlay, flow, alive, pending, last, broken>>
  BY DEF Tick
<1>2. SUFFICES ASSUME NEW f \in alive, f \notin broken PROVE IsHeld(f)'
  BY <1>1 DEF AliveInv
<1>3. f \in Flows /\ IsHeld(f)
  BY <1>2 DEF SeenOK, AliveInv
<1>4. Active(f) /\ Deadline(f) /\ Room(f) /\ (last[f] = Unset => silent[f] <= quiet[f])
  BY <1>3 DEF IsHeld
<1>5. Exists(f)
  BY <1>4 DEF Exists, Active, NoFlow
<1>6. Fpp[f] + MaxAwake + 2 * MaxStall <= Discontinuity
  BY <1>3 DEF StallsAreShort
<1>7. /\ {time, overlay, silent[f], quiet[f], flow[f].expires} \subseteq Int
      /\ {KeepaliveTimeout, KeepaliveGap, MaxAwake, MaxStall, Discontinuity, Fpp[f]} \subseteq Int
      /\ MaxAwake >= 0 /\ MaxStall >= 0 /\ Fpp[f] > 0 /\ Jumps \subseteq Int
      /\ overlay \in Jumps \cup {0}
  BY <1>3, KeepNumbers
<1>8. silent[f] <= KeepaliveTimeout
  BY <1>4 DEF Room
<1>9. silent'[f] = silent[f] + 1
  BY <1>1, <1>3, <1>5, <1>6, <1>7, <1>8 DEF Capped
<1>10. last[f] = Unset => silent'[f] <= quiet'[f]
  <2>1. quiet'[f] = Capped(quiet[f])
    BY <1>1, <1>3, <1>4
  <2>2. QED
    BY <1>4, <1>6, <1>7, <1>8, <1>9, <2>1 DEF Capped
<1>11. Active(f)' /\ last'[f] = last[f] /\ Backward' = Backward
  BY <1>1, <1>4 DEF Active, Backward
<1>12. Deadline(f)'
  <2>1. Backward \in Int
    BY <1>7 DEF Backward
  <2>2. CASE f \in pending
    BY <1>1, <2>2 DEF Deadline
  <2>3. CASE flow[f].expires >= time - silent[f] + KeepaliveTimeout - Backward
    <3>1. flow[f].expires >= time + 1 - (silent[f] + 1) + KeepaliveTimeout - Backward
      BY <1>7, <2>1, <2>3
    <3>2. time' = time + 1 /\ flow' = flow
      BY <1>1
    <3>3. silent'[f] = silent[f] + 1 /\ Backward' = Backward
      BY <1>9, <1>11
    <3>4. flow'[f].expires >= time' - silent'[f] + KeepaliveTimeout - Backward'
      BY <1>7, <2>1, <3>1, <3>2, <3>3
    <3>5. QED
      BY <3>4 DEF Deadline
  <2>4. QED
    BY <1>4, <2>2, <2>3 DEF Deadline
<1>13. Room(f)'
  <2> DEFINE s == silent'[f]
             q == quiet'[f]
             limit == Fpp[f] + MaxAwake + 2 * MaxStall
  <2>1. \A j \in Jumps \cup {0} :
            /\ limit - j <= KeepaliveTimeout
            /\ 2 * limit + (IF j > 0 THEN j ELSE 0) <= KeepaliveTimeout
            /\ KeepaliveGap + (IF j > 0 THEN j ELSE 0) <= KeepaliveTimeout
    BY <1>3, <1>7 DEF TimelyKeepalives, Greatest
  <2>2. \/ s <= KeepaliveGap
        \/ s <= q
    BY <1>1, <1>2, <1>4, <1>7, <1>9, <1>10
  <2>3. \/ q <= limit + (IF overlay < 0 THEN -overlay ELSE 0)
        \/ overlay > 0 /\ q <= 2 * limit
    BY <1>1, <1>2, <1>3, <1>7, <1>11 DEF QuietShort, Backward
  <2>4. s \in Int /\ q \in Int /\ limit \in Int /\ limit > 0
    BY <1>3, <1>7, <1>9 DEF SeenOK
  <2> HIDE DEF s, q, limit
  <2>5. s <= KeepaliveTimeout
    BY <1>7, <2>1, <2>2, <2>3, <2>4
  <2>6. ASSUME NEW j \in Jumps, overlay \in {0, j}
        PROVE  s + j <= KeepaliveTimeout
    BY <1>7, <2>1, <2>2, <2>3, <2>4, <2>6
  <2>7. QED
    BY <1>1, <2>5, <2>6 DEF Room, s
<1>14. QED
  BY <1>10, <1>11, <1>12, <1>13 DEF IsHeld

LEMMA ThreadKeepsReceivers ==
    ASSUME TimeInv, SeenOK, AliveInv, SeenOK', OnlyTheLastFails, TimelyKeepalives, StallsAreShort,
           TxThread
    PROVE  AliveInv'
<1>1. PICK table, sent, read, busy :
          /\ LoopDoes(table, sent, read, busy)
          /\ Transmits(table, sent, read) \/ Commanded(table, sent, read, busy)
  BY LoopsAre DEF StallsAreShort
<1>2. SUFFICES ASSUME NEW f \in alive', f \notin broken PROVE IsHeld(f)'
  BY <1>1 DEF AliveInv, LoopDoes
<1>3. f \in Flows /\ Outcome(table, sent, read, f) /\ time' = time /\ overlay' = jump
  BY <1>1, <1>2 DEF LoopDoes, LoopOK
<1>4. /\ {time, jump, overlay, Now, silent[f], quiet[f], flow[f].expires, KeepaliveTimeout} \subseteq Int
      /\ silent[f] >= 0 /\ Jumps \subseteq Int
      /\ Now = time + overlay /\ overlay \in {0, jump}
  BY <1>3, KeepNumbers
<1>5. /\ Backward \in Int /\ Backward' \in Int /\ Backward <= Backward' /\ Backward' >= 0
      /\ Now >= time - Backward'
  BY <1>3, <1>4 DEF Backward
<1>6. CASE IsAsked(table, sent, f)
  <2>1. ~flow'[f].expired /\ silent'[f] = 0 /\ flow'[f].expires = Now + KeepaliveTimeout
    BY <1>6 DEF IsAsked
  <2>2. Deadline(f)'
    BY <1>3, <1>4, <1>5, <2>1 DEF Deadline
  <2>3. Room(f)'
    BY <1>3, <2>1, FreshRoom DEF Room
  <2>4. silent'[f] <= quiet'[f]
    BY <1>3, <2>1 DEF SeenOK
  <2>5. QED
    BY <2>1, <2>2, <2>3, <2>4 DEF IsHeld, Active
<1>7. CASE IsKept(table, sent, read, f)
  <2>1. /\ flow'[f] = table[f] /\ silent'[f] = silent[f] /\ quiet'[f] = QuietAfter(sent, f)
        /\ last'[f] = LastSent(table, sent, f)
        /\ f \in alive
        /\ f \in pending \ read => f \in pending'
    BY <1>2, <1>7 DEF IsKept
  <2>2. IsHeld(f)
    BY <1>2, <2>1 DEF AliveInv
  <2>3. Active(f) /\ Deadline(f) /\ Room(f) /\ (last[f] = Unset => silent[f] <= quiet[f])
    BY <2>2 DEF IsHeld
  <2>4. Room(f)'
    <3>1. silent[f] <= KeepaliveTimeout
      BY <2>3 DEF Room
    <3>2. ASSUME NEW j \in Jumps, jump \in {0, j} PROVE silent[f] + j <= KeepaliveTimeout
      BY <1>4, <2>3, <3>2 DEF Room
    <3>3. QED
      BY <1>3, <2>1, <3>1, <3>2 DEF Room
  <2>5. ASSUME \/ f \in pending'
               \/ table[f].expires = flow[f].expires /\ f \notin pending
               \/ table[f].expires = Now + KeepaliveTimeout
        PROVE  Deadline(f)'
    <3>1. f \notin pending => flow[f].expires >= time - silent[f] + KeepaliveTimeout - Backward
      BY <2>3 DEF Deadline
    <3>2. \/ f \in pending'
          \/ table[f].expires >= time - silent[f] + KeepaliveTimeout - Backward'
      BY <1>4, <1>5, <2>5, <3>1
    <3>3. QED
      BY <1>3, <2>1, <3>2 DEF Deadline
  <2>6. CASE Transmits(table, sent, read)
    <3>1. PICK events : /\ table = Transmitted(events) /\ sent = {h \in Served : HasDue(h)}
                        /\ read = (IF events THEN Served ELSE {})
      BY <2>6 DEF Transmits
    <3>2. broken \subseteq Breakable /\ f \in Flows \ broken
      BY <1>2, <1>3 DEF SeenOK
    <3>3. /\ table[f].next = Drained(f, Synchronized(f, Now))
          /\ table[f].expired = (events /\ ExpiresNow(f))
          /\ table[f].expires = IF events /\ f \in pending
                                THEN Now + KeepaliveTimeout ELSE flow[f].expires
      BY <2>3, <3>1, <3>2, ServedFacts
    <3>4. ~table[f].expired
      BY <1>3, <2>2, <3>3, HeldIsInTime
    <3>5. Active(f)'
      BY <2>1, <3>4 DEF Active
    <3>6. Deadline(f)'
      <4>1. CASE f \notin pending
        <5>1. table[f].expires = flow[f].expires
          BY <3>3, <4>1
        <5>2. QED
          BY <2>5, <4>1, <5>1
      <4>2. CASE f \in pending /\ events
        <5>1. table[f].expires = Now + KeepaliveTimeout
          BY <3>3, <4>2
        <5>2. QED
          BY <2>5, <5>1
      <4>3. CASE f \in pending /\ ~events
        <5>1. f \in pending'
          BY <2>1, <3>1, <4>3
        <5>2. QED
          BY <2>5, <5>1
      <4>4. QED
        BY <4>1, <4>2, <4>3
    <3>7. last'[f] = Unset => silent'[f] <= quiet'[f]
      <4>1. CASE f \in sent
        BY <1>3, <2>1, <3>1, <3>3, <4>1, SentHasTimestamp DEF LastSent
      <4>2. CASE f \notin sent
        BY <2>1, <2>3, <4>2 DEF LastSent, QuietAfter
      <4>3. QED
        BY <4>1, <4>2
    <3>8. QED
      BY <2>4, <3>5, <3>6, <3>7 DEF IsHeld
  <2>7. CASE table = flow /\ sent = {} /\ read = {}
    <3>1. Active(f)'
      BY <2>1, <2>3, <2>7 DEF Active
    <3>2. Deadline(f)'
      <4>1. f \in pending' \/ f \notin pending
        BY <2>1, <2>7
      <4>2. table[f].expires = flow[f].expires
        BY <2>7
      <4>3. QED
        BY <2>5, <4>1, <4>2
    <3>3. last'[f] = Unset => silent'[f] <= quiet'[f]
      BY <2>1, <2>3, <2>7 DEF LastSent, QuietAfter
    <3>4. QED
      BY <2>4, <3>1, <3>2, <3>3 DEF IsHeld
  <2>8. QED
    BY <1>1, <2>6, <2>7 DEF Commanded
<1>8. QED
  BY <1>2, <1>3, <1>6, <1>7 DEF Outcome

LEMMA AliveNext ==
    TimeInv /\ SeenOK /\ AliveInv /\ OnlyTheLastFails /\ TimelyKeepalives /\ StallsAreShort
        /\ SeenOK' /\ QuietShort' /\ [Next]_vars => AliveInv'
<1> SUFFICES ASSUME TimeInv, SeenOK, AliveInv, OnlyTheLastFails, TimelyKeepalives, StallsAreShort,
                    SeenOK', QuietShort', [Next]_vars
             PROVE  AliveInv'
  OBVIOUS
<1>1. CASE TxThread
  BY <1>1, ThreadKeepsReceivers
<1>2. CASE Tick
  BY <1>2, TickKeeps
<1>3. CASE /\ UNCHANGED <<time, overlay, flow, pending, silent, quiet, last>>
           /\ alive' \subseteq alive /\ broken \subseteq broken'
  <2>1. Backward' = Backward
    BY <1>3 DEF Backward
  <2>2. SUFFICES ASSUME NEW f \in alive', f \notin broken' PROVE IsHeld(f)'
    BY DEF AliveInv
  <2>3. IsHeld(f)
    BY <1>3, <2>2 DEF AliveInv
  <2>4. QED
    BY <1>3, <2>1, <2>3 DEF IsHeld, Active, Deadline, Room
<1>4. ASSUME NEW g \in Flows, Keepalive(g)
      PROVE  AliveInv'
  <2>1. /\ last[g] # Unset
        /\ pending' = pending \cup {g} /\ silent' = [silent EXCEPT ![g] = 0]
        /\ UNCHANGED <<time, overlay, flow, alive, quiet, last, broken>>
    BY <1>4 DEF Keepalive, clockVars, txVars
  <2>2. SUFFICES ASSUME NEW f \in alive, f \notin broken PROVE IsHeld(f)'
    BY <2>1 DEF AliveInv
  <2>3. f \in Flows /\ IsHeld(f) /\ Backward' = Backward
    BY <2>1, <2>2 DEF AliveInv, SeenOK, Backward
  <2>4. CASE f = g
    <3>1. silent'[f] = 0 /\ f \in pending'
      BY <2>1, <2>3, <2>4 DEF SeenOK
    <3>2. Room(f)'
      BY <2>3, <3>1, FreshRoom DEF Room
    <3>3. QED
      BY <2>1, <2>3, <2>4, <3>1, <3>2 DEF IsHeld, Active, Deadline
  <2>5. CASE f # g
    <3>1. silent'[f] = silent[f] /\ (f \in pending => f \in pending')
      BY <2>1, <2>3, <2>5 DEF SeenOK
    <3>2. QED
      BY <2>1, <2>3, <3>1 DEF IsHeld, Active, Deadline, Room
  <2>6. QED
    BY <2>4, <2>5
<1>5. CASE Jump \/ UNCHANGED vars
  BY <1>3, <1>5 DEF Jump, vars, clockVars, txVars, seen
<1>6. ASSUME NEW g \in Flows, Abandon(g) \/ Break(g)
      PROVE  AliveInv'
  BY <1>3, <1>6 DEF Abandon, Break, clockVars, txVars
<1>7. QED
  BY <1>1, <1>2, <1>4, <1>5, <1>6 DEF Next, Environment

\* A receiver that goes on sending keepalives keeps its flow, whatever it
\* changes, for any flows, delays of the thread and losses of keepalives, and
\* across a jump of the clock, all of which the timeout has room for
\* (flows_tx.rs:64-68, 220-226, 412-425).
THEOREM ReceiversAreKept ==
    ASSUME OnlyTheLastFails, JumpsAreShort, StallsAreShort, TimelyKeepalives
    PROVE  Spec => []KeptAlive
<1>1. Init => TimeInv /\ SeenOK /\ StreamInv
  BY TimeInit, StreamInit
<1>2. TimeInv /\ SeenOK /\ StreamInv /\ [Next]_vars => (TimeInv /\ SeenOK /\ StreamInv)'
  BY TimeNext, SeenNext, StreamNext DEF StallsAreShort
<1>3. TimeInv /\ SeenOK /\ StreamInv => QuietShort
  BY QuietIsShort DEF QuietShort
<1>4. Init => AliveInv
  BY DEF Init, AliveInv
<1>5. TimeInv /\ SeenOK /\ AliveInv /\ SeenOK' /\ QuietShort' /\ [Next]_vars => AliveInv'
  BY AliveNext
<1>6. AliveInv => KeptAlive
  BY DEF AliveInv, KeptAlive, IsHeld
<1>7. QED
  BY <1>1, <1>2, <1>3, <1>4, <1>5, <1>6, PTL DEF Spec

-----------------------------------------------------------------------------
(* Flows expire *)

\* The inductive invariant: a flow's keepalive that waits to be read, or else the
\* last one that was read, bounds when the thread processes events, when the flow
\* expires, when its next packet is due and for when the thread sleeps.
Forward == Greatest(overlay, 0)
Sluggish == IF selects THEN 0 ELSE MaxStall

Heard(f) == time - silent[f]
DueBy(f) ==
    IF f \in pending THEN Heard(f) ELSE Heard(f) + KeepaliveTimeout + Noticing(f)

EventsAreNear == nextEvents \in Int /\ nextEvents <= time + Forward + EventsInterval

IsAwakeSoon(f) == Wake <= time + Fpp[f] + MaxAwake + Backward + Sluggish

IsTimed(f, due) ==
    /\ nextEvents <= due + Forward + EventsInterval
    /\ f \notin pending => flow[f].expires <= due + Forward
    /\ flow[f].next <= due + Forward + EventsInterval + Fpp[f]
    /\ Wake <= due + EventsInterval + Fpp[f] + MaxAwake + Backward + Sluggish

ExpiryInv ==
    /\ EventsAreNear
    /\ \A f \in Flows \ broken : Active(f) => IsAwakeSoon(f) /\ IsTimed(f, DueBy(f))

LEMMA ExpiryNumbers ==
    ASSUME TimeInv, SeenOK, NEW f \in Flows
    PROVE  /\ {time, jump, overlay, wait, Now, silent[f], flow[f].next, flow[f].expires} \subseteq Int
           /\ {KeepaliveTimeout, EventsInterval, MaxAwake, MaxStall, Fpp[f], Noticing(f)} \subseteq Int
           /\ {Wake, Forward, Backward, Sluggish, Heard(f), DueBy(f)} \subseteq Int
           /\ KeepaliveTimeout >= 0 /\ EventsInterval >= 0 /\ MaxAwake >= 0 /\ MaxStall >= 0
           /\ Fpp[f] > 0 /\ Noticing(f) = EventsInterval + Fpp[f] + MaxAwake + 2 * MaxStall
           /\ Now = time + overlay /\ overlay = Forward - Backward
           /\ Forward >= 0 /\ Backward >= 0 /\ overlay \in {0, jump}
           /\ Wake = time + wait /\ time <= Wake + MaxStall
           /\ Sluggish >= 0 /\ Sluggish <= MaxStall
           /\ silent[f] >= 0 /\ Heard(f) = time - silent[f]
<1>1. /\ KeepaliveTimeout \in Int /\ KeepaliveTimeout >= 0
      /\ EventsInterval \in Int /\ EventsInterval >= 0 /\ MaxStall \in Int /\ MaxStall >= 0
  BY TransmitAssumption
<1>2. /\ {time, jump, overlay, wait, Now, silent[f], flow[f].next, flow[f].expires} \subseteq Int
      /\ MaxAwake \in Int /\ MaxAwake >= 0 /\ Fpp[f] \in Int /\ Fpp[f] > 0
      /\ Now = time + overlay /\ overlay \in {0, jump} /\ wait >= -MaxStall /\ silent[f] >= 0
  BY KeepNumbers, StreamNumbers
<1>3. Noticing(f) = EventsInterval + Fpp[f] + MaxAwake + 2 * MaxStall /\ Noticing(f) \in Int
  BY <1>1, <1>2 DEF Noticing
<1>4. /\ Wake = time + wait /\ Wake \in Int /\ time <= Wake + MaxStall
      /\ Sluggish \in Int /\ Sluggish >= 0 /\ Sluggish <= MaxStall
  BY <1>1, <1>2 DEF Wake, Sluggish
<1>5. /\ Forward \in Int /\ Backward \in Int /\ Forward >= 0 /\ Backward >= 0
      /\ overlay = Forward - Backward
  BY <1>2 DEF Forward, Backward, Greatest
<1>6. Heard(f) = time - silent[f] /\ Heard(f) \in Int
  BY <1>2 DEF Heard
<1>7. DueBy(f) \in Int
  BY <1>1, <1>3, <1>6 DEF DueBy
<1>8. QED
  BY <1>1, <1>2, <1>3, <1>4, <1>5, <1>6, <1>7

LEMMA ExpiryInit == Init => ExpiryInv
<1> SUFFICES ASSUME Init PROVE ExpiryInv
  OBVIOUS
<1>1. \A f \in Flows : ~Active(f)
  BY DEF Init, Active, NoFlow
<1>2. EventsInterval \in Int /\ EventsInterval >= 0
  BY TransmitAssumption
<1>3. EventsAreNear
  BY <1>2 DEF Init, EventsAreNear, Forward, Greatest
<1>4. QED
  BY <1>1, <1>3 DEF ExpiryInv

\* What is heard later only leaves more time.
LEMMA LaterIsTimed ==
    ASSUME TimeInv, SeenOK, NEW f \in Flows, nextEvents \in Int,
           NEW due \in Int, NEW later \in Int, due <= later, IsTimed(f, due)
    PROVE  IsTimed(f, later)
  BY ExpiryNumbers DEF IsTimed

\* The environment leaves alone what the thread has planned.
LEMMA PlansStay ==
    ASSUME TimeInv, SeenOK, ExpiryInv, SeenOK', TimeInv', NEW f \in Flows, f \notin broken, Active(f),
           UNCHANGED <<overlay, flow, selects, nextEvents>>, Wake' = Wake, time' >= time,
           f \in pending' <=> f \in pending, Heard(f)' >= Heard(f)
    PROVE  (IsAwakeSoon(f) /\ IsTimed(f, DueBy(f)))'
<1>1. IsAwakeSoon(f) /\ IsTimed(f, DueBy(f)) /\ nextEvents \in Int
  BY DEF ExpiryInv, EventsAreNear
<1>2. Forward' = Forward /\ Backward' = Backward /\ Sluggish' = Sluggish
  BY DEF Forward, Backward, Sluggish
<1>3. DueBy(f)' >= DueBy(f) /\ DueBy(f)' \in Int /\ DueBy(f) \in Int /\ time \in Int /\ time' \in Int
  <2>1. Heard(f) \in Int /\ Heard(f)' \in Int /\ time \in Int /\ time' \in Int
        /\ KeepaliveTimeout \in Int /\ Noticing(f) \in Int
    <3>1. Heard(f)' \in Int /\ time' \in Int
      BY DEF Heard, SeenOK, TimeInv, NumbersOK
    <3>2. QED
      BY <3>1, ExpiryNumbers
  <2>2. Noticing(f)' = Noticing(f)
    BY DEF Noticing
  <2>3. DueBy(f)' = IF f \in pending' THEN Heard(f)' ELSE Heard(f)' + KeepaliveTimeout + Noticing(f)
    BY <2>2 DEF DueBy
  <2>4. QED
    BY <2>1, <2>3 DEF DueBy
<1>4. IsTimed(f, DueBy(f)')
  BY <1>1, <1>3, LaterIsTimed
<1>5. IsTimed(f, DueBy(f))'
  BY <1>2, <1>4 DEF IsTimed
<1>6. IsAwakeSoon(f)'
  <2>1. Wake <= time + Fpp[f] + MaxAwake + Backward + Sluggish
    BY <1>1 DEF IsAwakeSoon
  <2>2. Wake <= time' + Fpp[f] + MaxAwake + Backward + Sluggish
    BY <1>3, <2>1, ExpiryNumbers
  <2>3. QED
    BY <1>2, <2>2 DEF IsAwakeSoon
<1>7. QED
  BY <1>5, <1>6

LEMMA TickKeepsPlans ==
    ASSUME TimeInv, SeenOK, ExpiryInv, TimeInv', SeenOK', Tick
    PROVE  ExpiryInv'
<1>1. /\ (\E f \in Flows : Active(f)) => wait > -MaxStall
      /\ time' = time + 1
      /\ wait' = IF wait > -MaxStall THEN wait - 1 ELSE wait
      /\ silent' = [f \in Flows |-> IF Exists(f) THEN Capped(silent[f]) ELSE 0]
      /\ UNCHANGED <<overlay, flow, selects, nextEvents, pending, broken>>
  BY DEF Tick
<1>2. time \in Int /\ wait \in Int /\ overlay \in Int /\ EventsInterval \in Int
  BY TransmitAssumption DEF TimeInv, NumbersOK, SeenOK
<1>3. EventsAreNear'
  <2>1. Forward' = Forward /\ Forward \in Int
    BY <1>1, <1>2 DEF Forward, Greatest
  <2>2. QED
    BY <1>1, <1>2, <2>1 DEF ExpiryInv, EventsAreNear
<1>4. ASSUME NEW f \in Flows, f \notin broken, Active(f)
      PROVE  (IsAwakeSoon(f) /\ IsTimed(f, DueBy(f)))'
  <2>1. Wake' = Wake
    BY <1>1, <1>2, <1>4 DEF Wake
  <2>2. Exists(f)
    BY <1>4 DEF Exists, Active, NoFlow
  <2>3. silent'[f] = Capped(silent[f])
    BY <1>1, <2>2
  <2>4. silent'[f] \in Int /\ silent'[f] <= silent[f] + 1 /\ silent[f] \in Int
    BY <2>3, ExpiryNumbers DEF Capped
  <2>5. Heard(f)' >= Heard(f)
    BY <1>1, <1>2, <2>4 DEF Heard
  <2>6. time' >= time /\ (f \in pending' <=> f \in pending)
    BY <1>1, <1>2
  <2>7. QED
    BY <1>1, <1>4, <2>1, <2>5, <2>6, PlansStay
<1>5. \A f \in Flows : Active(f)' <=> Active(f)
  BY <1>1 DEF Active
<1>6. QED
  BY <1>1, <1>3, <1>4, <1>5 DEF ExpiryInv

LEMMA KeepaliveKeepsPlans ==
    ASSUME TimeInv, SeenOK, ExpiryInv, TimeInv', SeenOK', NEW g \in Flows, Keepalive(g)
    PROVE  ExpiryInv'
<1>1. /\ pending' = pending \cup {g} /\ silent' = [silent EXCEPT ![g] = 0]
      /\ UNCHANGED <<time, overlay, flow, wait, selects, nextEvents, broken>>
  BY DEF Keepalive, clockVars, txVars
<1>2. Wake' = Wake /\ Forward' = Forward /\ Backward' = Backward /\ Sluggish' = Sluggish
  BY <1>1 DEF Wake, Forward, Backward, Sluggish
<1>3. EventsAreNear'
  BY <1>1, <1>2 DEF ExpiryInv, EventsAreNear
<1>4. SUFFICES ASSUME NEW f \in Flows, f \notin broken, Active(f)
               PROVE  (IsAwakeSoon(f) /\ IsTimed(f, DueBy(f)))'
  <2>1. \A f \in Flows : Active(f)' <=> Active(f)
    BY <1>1 DEF Active
  <2>2. QED
    BY <1>1, <1>3, <1>4, <2>1 DEF ExpiryInv
<1>5. time' = time /\ time \in Int
  BY <1>1, ExpiryNumbers
<1>6. CASE f # g
  <2>1. silent'[f] = silent[f] /\ (f \in pending' <=> f \in pending)
    BY <1>1, <1>6 DEF SeenOK
  <2>2. Heard(f)' = Heard(f) /\ Heard(f) \in Int
    BY <1>5, <2>1, ExpiryNumbers DEF Heard
  <2>3. QED
    BY <1>1, <1>2, <1>4, <1>5, <2>1, <2>2, PlansStay
<1>7. CASE f = g
  <2>1. f \in pending' /\ silent'[f] = 0
    BY <1>1, <1>7 DEF SeenOK
  <2>2. DueBy(f)' = time
    BY <1>5, <2>1 DEF DueBy, Heard
  <2>3. /\ nextEvents <= time + Forward + EventsInterval
        /\ Wake <= time + Fpp[f] + MaxAwake + Backward + Sluggish
    BY <1>4 DEF ExpiryInv, EventsAreNear, IsAwakeSoon
  <2>4. flow[f].next <= time + Forward + Fpp[f]
    BY <1>4 DEF TimeInv, AheadInv, Ahead, Forward
  <2>5. /\ flow[f].next <= time + Forward + EventsInterval + Fpp[f]
        /\ Wake <= time + EventsInterval + Fpp[f] + MaxAwake + Backward + Sluggish
    BY <2>3, <2>4, ExpiryNumbers
  <2>6. IsTimed(f, DueBy(f))'
    BY <1>1, <1>2, <2>1, <2>2, <2>3, <2>5 DEF IsTimed
  <2>7. IsAwakeSoon(f)'
    BY <1>1, <1>2, <2>3 DEF IsAwakeSoon
  <2>8. QED
    BY <2>6, <2>7
<1>8. QED
  BY <1>6, <1>7

\* The sleep that follows an iteration, from what is due after it.
LEMMA SleepIsShort ==
    ASSUME TimeInv, SeenOK, TimeInv', SeenOK', NEW f \in Flows, NEW busy, LoopOK(busy), WakesFor(f, busy),
           ~flow'[f].expired, NEW due \in Int,
           flow'[f].next <= due + Forward' + EventsInterval + Fpp[f],
           selects' \/ time + busy <= due + EventsInterval + Fpp[f] + MaxAwake + Backward' + MaxStall
    PROVE  Wake' <= due + EventsInterval + Fpp[f] + MaxAwake + Backward' + Sluggish'
<1>1. /\ time' = time /\ overlay' = jump /\ busy \in Int /\ busy <= MaxAwake /\ wait' \in Int
      /\ selects' \in BOOLEAN
  BY DEF LoopOK
<1>2. /\ {time, jump, EventsInterval, MaxAwake, MaxStall, Fpp[f]} \subseteq Int /\ MaxStall >= 0
  BY ExpiryNumbers
<1>3. /\ jump = Forward' - Backward' /\ Forward' \in Int /\ Backward' \in Int
  BY <1>1, <1>2 DEF Forward, Backward, Greatest
<1>4. flow'[f].next \in Int
  BY DEF TimeInv, TableOK, IsEntry
<1>5. Wake' = time + wait'
  BY <1>1 DEF Wake
<1>6. Sluggish' \in Int /\ Sluggish' >= 0 /\ (~selects' => Sluggish' = MaxStall)
  BY <1>1, <1>2 DEF Sluggish
<1>7. CASE wait' = busy /\ ~selects'
  <2>1. time + busy <= due + EventsInterval + Fpp[f] + MaxAwake + Backward' + MaxStall
    BY <1>7
  <2>2. QED
    BY <1>5, <1>6, <1>7, <2>1
<1>8. CASE time + wait' + jump <= flow'[f].next + busy
  <2> DEFINE n == flow'[f].next
             p == Fpp[f]
             w == wait'
             fo == Forward'
             ba == Backward'
             sl == Sluggish'
  <2>1. time + w + jump <= n + busy /\ n <= due + fo + EventsInterval + p
    BY <1>8
  <2>2. n \in Int /\ p \in Int /\ w \in Int /\ fo \in Int /\ ba \in Int /\ sl \in Int /\ sl >= 0
        /\ jump = fo - ba
    BY <1>1, <1>2, <1>3, <1>4, <1>6
  <2> HIDE DEF n, p, w, fo, ba, sl
  <2>3. time + w <= due + EventsInterval + p + MaxAwake + ba + sl
    BY <1>1, <1>2, <2>1, <2>2
  <2>4. QED
    BY <1>5, <2>3 DEF p, w, ba, sl
<1>9. QED
  BY <1>7, <1>8 DEF WakesFor

\* What transmit leaves of a flow that can be sent and goes on: it has read what
\* was pending, or the flow has not expired.
LEMMA TransmitKeepsPlans ==
    ASSUME TimeInv, SeenOK, OnlyTheLastFails, NEW f \in Flows \ broken, Active(f),
           nextEvents \in Int, IsTimed(f, DueBy(f)),
           NEW events, EventsAre(events),
           NEW due \in Int,
           due = IF f \in pending /\ ~events THEN Heard(f)
                 ELSE Heard(f) + KeepaliveTimeout + Noticing(f),
           ~Transmitted(events)[f].expired
    PROVE  /\ time <= due + EventsInterval + Backward
           /\ nextEvents' \in Int /\ nextEvents' <= due + Forward + EventsInterval
           /\ f \notin pending \/ events => Transmitted(events)[f].expires <= due + Forward
           /\ Transmitted(events)[f].next <= due + Forward + EventsInterval + Fpp[f]
<1> DEFINE late == time + overlay - Forward
           new == Transmitted(events)[f]
           p == Fpp[f]
<1>1. /\ new.next = Drained(f, Synchronized(f, Now))
      /\ new.expired = (events /\ ExpiresNow(f))
      /\ new.expires = IF events /\ f \in pending THEN Now + KeepaliveTimeout ELSE flow[f].expires
  BY ServedFacts DEF SeenOK
<1>2. /\ {time, overlay, Now, flow[f].next, flow[f].expires, Heard(f), DueBy(f)} \subseteq Int
      /\ {KeepaliveTimeout, EventsInterval, MaxAwake, MaxStall, p, Noticing(f)} \subseteq Int
      /\ {Wake, Forward, Backward, Sluggish} \subseteq Int
      /\ KeepaliveTimeout >= 0 /\ EventsInterval >= 0 /\ MaxAwake >= 0 /\ MaxStall >= 0 /\ p > 0
      /\ Noticing(f) = EventsInterval + p + MaxAwake + 2 * MaxStall
      /\ Now = time + overlay /\ overlay = Forward - Backward
      /\ Forward >= 0 /\ Backward >= 0 /\ time <= Wake + MaxStall /\ Sluggish <= MaxStall
  BY ExpiryNumbers
<1>3. /\ nextEvents <= DueBy(f) + Forward + EventsInterval
      /\ f \notin pending => flow[f].expires <= DueBy(f) + Forward
      /\ flow[f].next <= DueBy(f) + Forward + EventsInterval + p
      /\ Wake <= DueBy(f) + EventsInterval + p + MaxAwake + Backward + Sluggish
  BY DEF IsTimed
<1>4. /\ events \/ (~(Now >= nextEvents) /\ nextEvents' = nextEvents)
      /\ nextEvents' \in {nextEvents, Now + EventsInterval}
  BY DEF EventsAre
<1>5. new.next \in Int /\ (new.next = flow[f].next \/ new.next <= Now + p)
  <2>1. /\ Synchronized(f, Now) \in Int
        /\ Synchronized(f, Now) = flow[f].next \/ Synchronized(f, Now) <= Now + p
    BY <1>2, SynchronizedFacts
  <2>2. /\ Drained(f, Synchronized(f, Now)) \in Int
        /\ \/ Drained(f, Synchronized(f, Now)) = Synchronized(f, Now)
           \/ Drained(f, Synchronized(f, Now)) <= Now + p
    BY <1>2, <2>1, DrainedFacts
  <2>3. QED
    BY <1>1, <2>1, <2>2
<1> DEFINE b == Backward
           o == Forward
           n == new.next
           x == new.expires
           d == DueBy(f)
           h == Heard(f)
           r == Noticing(f)
           fn == flow[f].next
           fx == flow[f].expires
<1>6. CASE ~events
  <2>1. due = d
    BY <1>6 DEF DueBy
  <2>2. Now < nextEvents /\ nextEvents' = nextEvents
    BY <1>2, <1>4, <1>6
  <2>3. f \notin pending => x = fx /\ fx <= d + o
    BY <1>1, <1>3, <1>6
  <2>4. /\ nextEvents <= d + o + EventsInterval /\ fn <= d + o + EventsInterval + p
        /\ n = fn \/ n <= Now + p
    BY <1>3, <1>5
  <2>5. {time, Now, n, fn, d, o, b, p, EventsInterval} \subseteq Int /\ Now = time + o - b
    BY <1>2, <1>5
  <2> HIDE DEF b, o, n, x, d, fn, fx, p
  <2>6. /\ time <= d + EventsInterval + b
        /\ n <= d + o + EventsInterval + p
    BY <2>2, <2>4, <2>5
  <2>7. QED
    BY <1>6, <2>1, <2>2, <2>3, <2>4, <2>6 DEF b, o, n, x, d, fn, fx, p
<1>7. CASE events /\ f \in pending
  <2>1. due = h + KeepaliveTimeout + r /\ d = h /\ x = Now + KeepaliveTimeout
    BY <1>1, <1>7 DEF DueBy
  <2>2. /\ {time, Now, n, fn, d, o, b, p, h, r, EventsInterval, KeepaliveTimeout} \subseteq Int
        /\ Now = time + o - b /\ EventsInterval >= 0 /\ KeepaliveTimeout >= 0 /\ r >= 0
    BY <1>2, <1>5
  <2>3. time <= h + r + b
    BY <1>2, <1>3, <2>1
  <2>4. /\ nextEvents <= d + o + EventsInterval /\ fn <= d + o + EventsInterval + p
        /\ n = fn \/ n <= Now + p
        /\ nextEvents' \in {nextEvents, Now + EventsInterval}
    BY <1>3, <1>4, <1>5
  <2> HIDE DEF b, o, n, x, d, fn, fx, p, h, r
  <2>5. time <= due + EventsInterval + b
    BY <2>1, <2>2, <2>3
  <2>6. nextEvents' \in Int /\ nextEvents' <= due + o + EventsInterval
    BY <2>1, <2>2, <2>3, <2>4
  <2>7. x <= due + o
    BY <2>1, <2>2, <2>3
  <2>8. n <= due + o + EventsInterval + p
    BY <2>1, <2>2, <2>3, <2>4
  <2>9. QED
    BY <2>5, <2>6, <2>7, <2>8 DEF b, o, n, x, p
<1>8. CASE events /\ f \notin pending
  <2>1. due = d /\ x = fx
    BY <1>1, <1>8 DEF DueBy
  <2>2. ~(fx < Now)
    BY <1>1, <1>8 DEF ExpiresNow
  <2>3. /\ {time, Now, n, fn, fx, d, o, b, p, EventsInterval} \subseteq Int
        /\ Now = time + o - b /\ EventsInterval >= 0
    BY <1>2, <1>5
  <2>4. /\ nextEvents <= d + o + EventsInterval /\ fn <= d + o + EventsInterval + p
        /\ n = fn \/ n <= Now + p
        /\ nextEvents' \in {nextEvents, Now + EventsInterval}
        /\ fx <= d + o
    BY <1>3, <1>4, <1>5, <1>8
  <2> HIDE DEF b, o, n, x, d, fn, fx, p
  <2>5. time <= due + EventsInterval + b
    BY <2>1, <2>2, <2>3, <2>4
  <2>6. nextEvents' \in Int /\ nextEvents' <= due + o + EventsInterval
    BY <2>1, <2>2, <2>3, <2>4
  <2>7. n <= due + o + EventsInterval + p /\ x <= due + o
    BY <2>1, <2>2, <2>3, <2>4
  <2>8. QED
    BY <2>5, <2>6, <2>7 DEF b, o, n, x, p
<1>9. QED
  BY <1>6, <1>7, <1>8

\* A receiver that asks for the flow begins a new period, whatever was planned.
LEMMA AskedIsTimed ==
    ASSUME TimeInv, SeenOK, TimeInv', SeenOK', EventsAreNear', NEW f \in Flows, NEW busy,
           LoopOK(busy), WakesFor(f, busy), ~flow'[f].expired,
           silent'[f] = 0, flow'[f].expires = Now + KeepaliveTimeout
    PROVE  IsTimed(f, DueBy(f))'
<1>1. time' = time /\ overlay' = jump /\ busy \in Int /\ busy <= MaxAwake
  BY DEF LoopOK
<1>2. /\ {time, jump, overlay, Now, KeepaliveTimeout, EventsInterval, MaxAwake, MaxStall, Fpp[f],
          Noticing(f)} \subseteq Int
      /\ KeepaliveTimeout >= 0 /\ EventsInterval >= 0 /\ MaxAwake >= 0 /\ MaxStall >= 0 /\ Fpp[f] > 0
      /\ Noticing(f) >= 0 /\ Now = time + overlay /\ overlay \in {0, jump}
  BY ExpiryNumbers
<1>3. /\ jump = Forward' - Backward' /\ Forward' \in Int /\ Backward' \in Int
      /\ Forward' >= 0 /\ Backward' >= 0
  BY <1>1, <1>2 DEF Forward, Backward, Greatest
<1>4. /\ nextEvents' \in Int /\ nextEvents' <= time + Forward' + EventsInterval
  BY <1>1 DEF EventsAreNear
<1>5. flow'[f].next \in Int /\ flow'[f].next <= time + Forward' + Fpp[f]
  BY <1>1 DEF TimeInv, TableOK, IsEntry, AheadInv, Ahead, Active, Forward
<1>6. DueBy(f)' \in Int /\ DueBy(f)' >= time
      /\ (f \notin pending' => DueBy(f)' = time + KeepaliveTimeout + Noticing(f))
  <2>1. Heard(f)' = time
    BY <1>1, <1>2 DEF Heard
  <2>2. Noticing(f)' = Noticing(f)
    BY DEF Noticing
  <2>3. QED
    BY <1>2, <2>1, <2>2 DEF DueBy
<1> DEFINE due == DueBy(f)'
           fo == Forward'
           ba == Backward'
           n == flow'[f].next
           ev == nextEvents'
           p == Fpp[f]
<1>7. ev <= due + fo + EventsInterval /\ n <= due + fo + EventsInterval + p
  <2>1. {due, fo, n, ev, p, time, EventsInterval} \subseteq Int
    BY <1>2, <1>3, <1>4, <1>5, <1>6
  <2>2. due >= time /\ ev <= time + fo + EventsInterval /\ n <= time + fo + p /\ EventsInterval >= 0
    BY <1>2, <1>4, <1>5, <1>6
  <2> HIDE DEF due, fo, n, ev, p
  <2>3. QED
    BY <2>1, <2>2
<1>8. f \notin pending' => flow'[f].expires <= due + fo
  <2>1. Now <= time + fo
    <3>1. fo \in Int /\ ba \in Int /\ fo >= 0 /\ ba >= 0 /\ jump = fo - ba
      BY <1>3
    <3> HIDE DEF fo, ba
    <3>2. overlay <= fo /\ fo \in Int
      BY <1>2, <3>1
    <3>3. QED
      BY <1>2, <3>2
  <2>2. SUFFICES ASSUME f \notin pending' PROVE Now + KeepaliveTimeout <= due + fo
    OBVIOUS
  <2>3. due = time + KeepaliveTimeout + Noticing(f)
    BY <1>6, <2>2
  <2>4. QED
    BY <1>2, <1>3, <2>1, <2>3
<1>9. time + busy <= due + EventsInterval + p + MaxAwake + ba + MaxStall
  <2>1. due \in Int /\ due >= time
    BY <1>6
  <2> HIDE DEF due
  <2>2. QED
    BY <1>1, <1>2, <1>3, <2>1
<1>10. Wake' <= due + EventsInterval + p + MaxAwake + ba + Sluggish'
  BY <1>6, <1>7, <1>9, SleepIsShort
<1>11. QED
  BY <1>7, <1>8, <1>10 DEF IsTimed

LEMMA ThreadKeepsPlans ==
    ASSUME TimeInv, SeenOK, ExpiryInv, TimeInv', SeenOK', OnlyTheLastFails, SelectThreshold > 0,
           TxThread
    PROVE  ExpiryInv'
<1>1. PICK table, sent, read, busy :
          /\ LoopDoes(table, sent, read, busy)
          /\ Transmits(table, sent, read) \/ Commanded(table, sent, read, busy)
  BY LoopsAre
<1>2. LoopOK(busy) /\ time' = time /\ overlay' = jump /\ broken' = broken
      /\ busy \in Int /\ busy <= MaxAwake
  BY <1>1 DEF LoopDoes, LoopOK
<1>3. /\ nextEvents' \in {nextEvents, Now + EventsInterval}
      /\ nextEvents \in Int /\ nextEvents <= time + Forward + EventsInterval
  BY <1>1 DEF Transmits, Commanded, EventsAre, ExpiryInv, EventsAreNear
<1>4. /\ {time, jump, overlay, Now, EventsInterval, Forward, Backward, Forward', Backward'} \subseteq Int
      /\ Forward' >= Forward /\ Backward' >= Backward /\ jump = Forward' - Backward'
      /\ overlay = Forward - Backward /\ Now = time + overlay /\ Backward >= 0
  <2>1. time \in Int /\ jump \in Int /\ overlay \in {0, jump}
    BY DEF TimeInv, NumbersOK, ClockInv
  <2>2. EventsInterval \in Int
    BY TransmitAssumption
  <2>3. QED
    BY <1>2, <2>1, <2>2 DEF Now, Forward, Backward, Greatest
<1>5. EventsAreNear'
  BY <1>2, <1>3, <1>4 DEF EventsAreNear
<1>6. SUFFICES ASSUME NEW f \in Flows, f \notin broken, ~flow'[f].expired
               PROVE  (IsAwakeSoon(f) /\ IsTimed(f, DueBy(f)))'
  BY <1>2, <1>5 DEF ExpiryInv, Active
<1>7. Outcome(table, sent, read, f) /\ WakesFor(f, busy)
  BY <1>1, <1>6 DEF LoopDoes
<1>8. /\ {KeepaliveTimeout, EventsInterval, MaxAwake, MaxStall, Fpp[f], Noticing(f), Heard(f),
          DueBy(f), Wake, Sluggish} \subseteq Int
      /\ KeepaliveTimeout >= 0 /\ EventsInterval >= 0 /\ MaxAwake >= 0 /\ MaxStall >= 0 /\ Fpp[f] > 0
      /\ time <= Wake + MaxStall /\ Noticing(f)' = Noticing(f)
  BY ExpiryNumbers DEF Noticing
<1>9. IsAwakeSoon(f)'
  <2>1. flow'[f].next \in Int /\ flow'[f].next <= time + Forward' + Fpp[f]
    BY <1>2, <1>6 DEF TimeInv, TableOK, IsEntry, AheadInv, Ahead, Active, Forward
  <2>2. wait' \in Int /\ Wake' = time + wait' /\ Sluggish' \in Int /\ Sluggish' >= 0
    <3>1. wait' \in Int /\ selects' \in BOOLEAN
      BY <1>2 DEF LoopOK
    <3>2. QED
      BY <1>2, <1>8, <3>1 DEF Wake, Sluggish
  <2>3. wait' = busy \/ time + wait' + jump <= flow'[f].next + busy
    BY <1>7 DEF WakesFor
  <2>4. Backward' >= 0
    BY <1>4
  <2>5. Wake' <= time + Fpp[f] + MaxAwake + Backward' + Sluggish'
    BY <1>2, <1>4, <1>8, <2>1, <2>2, <2>3, <2>4
  <2>6. QED
    BY <1>2, <2>5 DEF IsAwakeSoon
<1>10. CASE IsAsked(table, sent, f)
  <2>1. silent'[f] = 0 /\ flow'[f].expires = Now + KeepaliveTimeout
    BY <1>10 DEF IsAsked
  <2>2. QED
    BY <1>2, <1>5, <1>6, <1>7, <1>9, <2>1, AskedIsTimed
<1>11. CASE IsKept(table, sent, read, f)
  <2>1. /\ flow'[f] = table[f] /\ silent'[f] = silent[f]
        /\ f \in pending' <=> f \in pending \ read
    BY <1>11 DEF IsKept
  <2>2. Heard(f)' = Heard(f)
    BY <1>2, <2>1 DEF Heard
  <2>3. DueBy(f)' = IF f \in pending' THEN Heard(f) ELSE Heard(f) + KeepaliveTimeout + Noticing(f)
    BY <1>8, <2>2 DEF DueBy
  <2> DEFINE due == DueBy(f)'
  <2>4. due \in Int
    BY <1>8, <2>3
  <2>5. CASE Transmits(table, sent, read)
    <3>1. PICK events : /\ table = Transmitted(events) /\ EventsAre(events)
                        /\ read = (IF events THEN Served ELSE {})
      BY <2>5 DEF Transmits
    <3>2. ~table[f].expired
      BY <1>6, <2>1
    <3>3. Active(f)
      <4> SUFFICES ASSUME ~Active(f) PROVE FALSE
        OBVIOUS
      <4>1. table[f] = flow[f]
        <5>1. TableOK /\ Now \in Int
          BY <1>4 DEF TimeInv
        <5>2. QED
          BY <3>1, <5>1, TransmittedFacts
      <4>2. QED
        BY <3>2, <4>1 DEF Active
    <3>4. f \in Flows \ broken /\ f \in Served
      BY <1>6, <3>3, NothingBlocks DEF SeenOK
    <3>5. IsTimed(f, DueBy(f))
      BY <1>6, <3>3 DEF ExpiryInv
    <3>6. f \in pending' <=> f \in pending /\ ~events
      BY <2>1, <3>1, <3>4
    <3>7. due = IF f \in pending /\ ~events THEN Heard(f)
                ELSE Heard(f) + KeepaliveTimeout + Noticing(f)
      BY <2>3, <3>6
    <3>8. nextEvents \in Int /\ ~Transmitted(events)[f].expired
      BY <1>3, <3>1, <3>2
    <3> HIDE DEF due
    <3>9. /\ time <= due + EventsInterval + Backward
          /\ nextEvents' \in Int /\ nextEvents' <= due + Forward + EventsInterval
          /\ f \notin pending \/ events => Transmitted(events)[f].expires <= due + Forward
          /\ Transmitted(events)[f].next <= due + Forward + EventsInterval + Fpp[f]
      BY <2>4, <3>1, <3>3, <3>4, <3>5, <3>7, <3>8, TransmitKeepsPlans
    <3>10. /\ flow'[f].next \in Int /\ flow'[f].expires \in Int
           /\ flow'[f].next = Transmitted(events)[f].next
           /\ flow'[f].expires = Transmitted(events)[f].expires
      BY <2>1, <3>1 DEF TimeInv, TableOK, IsEntry, SeenOK
    <3>11. /\ nextEvents' <= due + Forward' + EventsInterval
           /\ f \notin pending' => flow'[f].expires <= due + Forward'
           /\ flow'[f].next <= due + Forward' + EventsInterval + Fpp[f]
      BY <1>4, <1>8, <2>4, <3>6, <3>9, <3>10
    <3>12. time + busy <= due + EventsInterval + Fpp[f] + MaxAwake + Backward' + MaxStall
      BY <1>2, <1>4, <1>8, <2>4, <3>9
    <3>13. Wake' <= due + EventsInterval + Fpp[f] + MaxAwake + Backward' + Sluggish'
      BY <1>2, <1>6, <1>7, <2>4, <3>11, <3>12, SleepIsShort
    <3>14. QED
      BY <1>9, <3>11, <3>13 DEF IsTimed, due
  <2>6. CASE Commanded(table, sent, read, busy)
    <3>1. table = flow /\ read = {} /\ busy = 0 /\ selects /\ nextEvents' = nextEvents
      BY <2>6 DEF Commanded
    <3>2. Active(f) /\ (f \in pending' <=> f \in pending) /\ flow'[f] = flow[f]
      BY <1>6, <2>1, <3>1 DEF Active
    <3>3. due = DueBy(f)
      BY <2>3, <3>2 DEF DueBy
    <3>4. IsTimed(f, DueBy(f))
      BY <1>6, <3>2 DEF ExpiryInv
    <3> HIDE DEF due
    <3>5. /\ nextEvents <= due + Forward + EventsInterval
          /\ f \notin pending => flow[f].expires <= due + Forward
          /\ flow[f].next <= due + Forward + EventsInterval + Fpp[f]
          /\ Wake <= due + EventsInterval + Fpp[f] + MaxAwake + Backward + Sluggish
      BY <3>3, <3>4 DEF IsTimed
    <3>6. flow[f].next \in Int /\ flow[f].expires \in Int
      BY ExpiryNumbers
    <3>7. /\ nextEvents' <= due + Forward' + EventsInterval
          /\ f \notin pending' => flow'[f].expires <= due + Forward'
          /\ flow'[f].next <= due + Forward' + EventsInterval + Fpp[f]
      BY <1>3, <1>4, <1>8, <2>4, <3>1, <3>2, <3>5, <3>6
    <3>8. Sluggish = 0
      BY <3>1 DEF Sluggish
    <3>9. time + busy <= due + EventsInterval + Fpp[f] + MaxAwake + Backward' + MaxStall
      BY <1>4, <1>8, <2>4, <3>1, <3>5, <3>8
    <3>10. Wake' <= due + EventsInterval + Fpp[f] + MaxAwake + Backward' + Sluggish'
      BY <1>2, <1>6, <1>7, <2>4, <3>7, <3>9, SleepIsShort
    <3>11. QED
      BY <1>9, <3>7, <3>10 DEF IsTimed, due
  <2>7. QED
    BY <1>1, <2>5, <2>6
<1>12. flow'[f] # NoFlow
  BY <1>6 DEF NoFlow
<1>13. QED
  BY <1>7, <1>9, <1>10, <1>11, <1>12 DEF Outcome

LEMMA ExpiryNext ==
    TimeInv /\ SeenOK /\ ExpiryInv /\ TimeInv' /\ SeenOK' /\ OnlyTheLastFails /\ SelectThreshold > 0
        /\ [Next]_vars => ExpiryInv'
<1> SUFFICES ASSUME TimeInv, SeenOK, ExpiryInv, TimeInv', SeenOK', OnlyTheLastFails,
                    SelectThreshold > 0, [Next]_vars
             PROVE  ExpiryInv'
  OBVIOUS
<1>1. CASE TxThread
  BY <1>1, ThreadKeepsPlans
<1>2. CASE Tick
  BY <1>2, TickKeepsPlans
<1>3. ASSUME NEW g \in Flows, Keepalive(g) PROVE ExpiryInv'
  BY <1>3, KeepaliveKeepsPlans
<1>4. CASE /\ UNCHANGED <<time, overlay, flow, wait, selects, nextEvents, pending, silent>>
           /\ broken \subseteq broken'
  <2>1. UNCHANGED <<Wake, Forward, Backward, Sluggish>>
    BY <1>4 DEF Wake, Forward, Backward, Sluggish
  <2>2. EventsAreNear'
    BY <1>4, <2>1 DEF ExpiryInv, EventsAreNear
  <2>3. ASSUME NEW f \in Flows, f \notin broken, Active(f)
        PROVE  (IsAwakeSoon(f) /\ IsTimed(f, DueBy(f)))'
    <3>1. DueBy(f)' = DueBy(f)
      BY <1>4 DEF DueBy, Heard, Noticing
    <3>2. IsAwakeSoon(f) /\ IsTimed(f, DueBy(f))
      BY <2>3 DEF ExpiryInv
    <3>3. QED
      BY <1>4, <2>1, <3>1, <3>2 DEF IsAwakeSoon, IsTimed
  <2>4. QED
    BY <1>4, <2>2, <2>3 DEF ExpiryInv, Active
<1>5. CASE Jump \/ UNCHANGED vars
  BY <1>4, <1>5 DEF Jump, vars, clockVars, txVars, seen
<1>6. ASSUME NEW g \in Flows, Abandon(g) \/ Break(g)
      PROVE  ExpiryInv'
  BY <1>4, <1>6 DEF Abandon, Break, clockVars, txVars
<1>7. QED
  BY <1>1, <1>2, <1>3, <1>5, <1>6 DEF Next, Environment

LEMMA PlansExpire ==
    TimeInv /\ SeenOK /\ ExpiryInv => AbandonedExpires
<1> SUFFICES ASSUME TimeInv, SeenOK, ExpiryInv, NEW f \in Flows, f \notin broken, Active(f)
             PROVE  silent[f] <= KeepaliveTimeout + 2 * Noticing(f) + (IF jump < 0 THEN -jump ELSE 0)
  BY DEF AbandonedExpires
<1>1. Wake <= DueBy(f) + EventsInterval + Fpp[f] + MaxAwake + Backward + Sluggish
  BY DEF ExpiryInv, IsTimed
<1>2. DueBy(f) <= Heard(f) + KeepaliveTimeout + Noticing(f)
  BY ExpiryNumbers DEF DueBy
<1>3. Backward <= (IF jump < 0 THEN -jump ELSE 0)
  BY ExpiryNumbers DEF Backward
<1>4. time <= DueBy(f) + Noticing(f) + Backward
  BY <1>1, ExpiryNumbers
<1>5. QED
  BY <1>2, <1>3, <1>4, ExpiryNumbers

\* A flow that can be sent and whose receiver has gone is given up within the
\* timeout, twice the time to notice and what the clock was set back, for any
\* flows, jumps of the clock and delays of the thread (flows_tx.rs:64-68, 220-226,
\* 318-326).
THEOREM AbandonedFlowsExpire ==
    ASSUME OnlyTheLastFails, SelectThreshold > 0
    PROVE  Spec => []AbandonedExpires
<1>1. Init => TimeInv /\ SeenOK /\ ExpiryInv
  BY TimeInit, StreamInit, ExpiryInit
<1>2. TimeInv /\ SeenOK /\ ExpiryInv /\ [Next]_vars => (TimeInv /\ SeenOK /\ ExpiryInv)'
  BY TimeNext, SeenNext, ExpiryNext
<1>3. TimeInv /\ SeenOK /\ ExpiryInv => AbandonedExpires
  BY PlansExpire
<1>4. QED
  BY <1>1, <1>2, <1>3, PTL DEF Spec
=============================================================================
