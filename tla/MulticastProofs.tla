--------------------------- MODULE MulticastProofs ---------------------------
(***************************************************************************)
(* The transmitter's tables, alone and with the multicast bundles.         *)
(*                                                                         *)
(* For any number of indices, receivers and addresses, any length of the   *)
(* channel, whatever is requested, however late the TX thread is and when  *)
(* flows expire: the three tables of FlowsTransmitter agree, and the       *)
(* commands on their way turn the thread's table into the control side's   *)
(* without one of them ever finding a slot that it does not expect.        *)
(*                                                                         *)
(* The tasks of the bundles use the transmitter as FlowsTx says, so this   *)
(* holds among them, too, for any number of bundles and conflicts.  As     *)
(* long as no bundle is deleted before it is on the air, and no bundle is  *)
(* left without a flow because its index or its address was taken or no    *)
(* socket could be made, nothing is transmitted to an address that was not *)
(* reserved, and what is advertised is on the air; as long as the process  *)
(* is not killed while the list is loaded or saved, no saved bundle is     *)
(* lost.                                                                   *)
(***************************************************************************)
EXTENDS TxMulticasts, FiniteSetTheorems, SequenceTheorems, TLAPS

-----------------------------------------------------------------------------
(* The transmitter *)

\* The tables have their types; the commands, the flags and the TX thread's
\* table play no part.
TablesTypeOK(c) ==
    /\ c = [flows |-> c.flows, ipPortToId |-> c.ipPortToId, info |-> c.info,
            commands |-> c.commands]
    /\ c.flows \in [Indices -> [id : Nat, remote : Addrs \cup {NoAddr}]]
    /\ c.ipPortToId \in [Addrs -> Indices \cup {NoIndex}]
    /\ c.info \in [Indices -> Addrs \cup {NoAddr}]

TablesMatch(c) ==
    /\ \A i \in Indices : c.info[i] = c.flows[i].remote
    /\ \A i \in Indices, a \in Addrs : c.ipPortToId[a] = i <=> c.flows[i].remote = a

TablesInv(c) == TablesTypeOK(c) /\ TablesMatch(c)

LEMMA NoIndexIsNoIndex == NoIndex \notin Indices
  BY IndicesAssumption DEF NoIndex

LEMMA NoAddrIsNoAddr == NoAddr \notin Addrs
  BY AddrsAssumption

\* The three tables of a state after remove_flow_internal for a set of indices.
LEMMA RemoveFlowsKeeps ==
    ASSUME NEW c, TablesInv(c), NEW gone \in SUBSET Indices
    PROVE  /\ TablesInv(RemoveFlows(c, gone))
           /\ \A a \in Addrs : c.ipPortToId[a] = NoIndex
                  => RemoveFlows(c, gone).ipPortToId[a] = NoIndex
<1> DEFINE d == RemoveFlows(c, gone)
<1>1. /\ d.flows = [i \in Indices |-> IF i \in gone THEN NoFlow ELSE c.flows[i]]
      /\ d.ipPortToId = [a \in Addrs |->
             IF \E i \in gone : c.flows[i].remote = a THEN NoIndex ELSE c.ipPortToId[a]]
      /\ d.info = [i \in Indices |-> IF i \in gone THEN NoAddr ELSE c.info[i]]
      /\ d = [flows |-> d.flows, ipPortToId |-> d.ipPortToId, info |-> d.info,
              commands |-> d.commands]
  BY DEF RemoveFlows
<1>2. NoFlow \in [id : Nat, remote : Addrs \cup {NoAddr}] /\ NoFlow.remote = NoAddr
  BY DEF NoFlow
<1> HIDE DEF d
<1>3. TablesTypeOK(d)
  BY <1>1, <1>2 DEF TablesInv, TablesTypeOK
<1>4. \A i \in Indices : d.info[i] = d.flows[i].remote
  BY <1>1, <1>2 DEF TablesInv, TablesMatch
<1>5. ASSUME NEW i \in Indices, NEW a \in Addrs
      PROVE  d.ipPortToId[a] = i <=> d.flows[i].remote = a
  <2>1. c.ipPortToId[a] = i <=> c.flows[i].remote = a
    BY DEF TablesInv, TablesMatch
  <2>2. CASE i \in gone
    <3>1. d.flows[i].remote # a
      BY <2>2, <1>1, <1>2, NoAddrIsNoAddr
    <3>2. d.ipPortToId[a] # i
      BY <2>1, <2>2, <1>1, NoIndexIsNoIndex
    <3>3. QED
      BY <3>1, <3>2
  <2>3. CASE i \notin gone
    <3>1. d.flows[i] = c.flows[i]
      BY <2>3, <1>1
    <3>2. CASE \E j \in gone : c.flows[j].remote = a
      <4>1. PICK j \in gone : c.flows[j].remote = a
        BY <3>2
      <4>2. c.ipPortToId[a] = j
        BY <4>1 DEF TablesInv, TablesMatch
      <4>3. d.ipPortToId[a] = NoIndex
        BY <3>2, <1>1
      <4>4. QED
        BY <2>1, <2>3, <3>1, <4>2, <4>3, NoIndexIsNoIndex
    <3>3. CASE ~ \E j \in gone : c.flows[j].remote = a
      BY <2>1, <3>1, <3>3, <1>1
    <3>4. QED
      BY <3>2, <3>3
  <2>4. QED
    BY <2>2, <2>3
<1>6. \A a \in Addrs : c.ipPortToId[a] = NoIndex => d.ipPortToId[a] = NoIndex
  BY <1>1
<1>7. QED
  BY <1>3, <1>4, <1>5, <1>6 DEF TablesInv, TablesMatch, d

LEMMA ScanExpiredKeeps ==
    ASSUME NEW c, TablesInv(c)
    PROVE  /\ TablesInv(ScanExpired(c))
           /\ \A a \in Addrs : c.ipPortToId[a] = NoIndex
                  => ScanExpired(c).ipPortToId[a] = NoIndex
  BY RemoveFlowsKeeps DEF ScanExpired, ExpiredIndices

\* A vacant index gets a flow to a destination that is not in use.
LEMMA InsertFlowKeeps ==
    ASSUME NEW c, TablesInv(c), NEW i \in VacantIndices(c), NEW n \in Nat,
           NEW a \in Addrs, c.ipPortToId[a] = NoIndex
    PROVE  TablesInv(InsertFlow(c, i, [id |-> n, remote |-> a]))
<1> DEFINE flow == [id |-> n, remote |-> a]
           d == InsertFlow(c, i, flow)
<1>1. /\ d.flows = [c.flows EXCEPT ![i] = flow]
      /\ d.ipPortToId = [c.ipPortToId EXCEPT ![a] = i]
      /\ d.info = [c.info EXCEPT ![i] = a]
      /\ d = [flows |-> d.flows, ipPortToId |-> d.ipPortToId, info |-> d.info,
              commands |-> d.commands]
  BY DEF InsertFlow
<1>2. i \in Indices /\ c.flows[i].remote = NoAddr
  BY DEF VacantIndices, NoFlow
<1>3. /\ flow \in [id : Nat, remote : Addrs \cup {NoAddr}]
      /\ flow.remote = a
  OBVIOUS
<1> HIDE DEF d, flow
<1>4. TablesTypeOK(d)
  BY <1>1, <1>2, <1>3 DEF TablesInv, TablesTypeOK
<1>5. \A j \in Indices : d.info[j] = d.flows[j].remote
  BY <1>1, <1>2, <1>3 DEF TablesInv, TablesTypeOK, TablesMatch
<1>6. ASSUME NEW j \in Indices, NEW b \in Addrs
      PROVE  d.ipPortToId[b] = j <=> d.flows[j].remote = b
  <2>1. c.ipPortToId[b] = j <=> c.flows[j].remote = b
    BY DEF TablesInv, TablesMatch
  <2>2. /\ d.ipPortToId[b] = IF b = a THEN i ELSE c.ipPortToId[b]
        /\ d.flows[j] = IF j = i THEN flow ELSE c.flows[j]
    BY <1>1, <1>2 DEF TablesInv, TablesTypeOK
  <2>3. c.ipPortToId[a] # j
    BY NoIndexIsNoIndex
  <2>4. j = i => c.flows[j].remote # b
    BY <1>2, NoAddrIsNoAddr
  <2>5. CASE j = i
    BY <2>1, <2>2, <2>4, <2>5, <1>3
  <2>6. CASE j # i
    BY <2>1, <2>2, <2>3, <2>6
  <2>7. QED
    BY <2>5, <2>6
<1>7. QED
  BY <1>4, <1>5, <1>6 DEF TablesInv, TablesMatch, d, flow

-----------------------------------------------------------------------------
(* The inductive invariant *)

FlowsInv == TablesInv(control) /\ created \in Nat

\* Only the commands change.
LEMMA SameTables ==
    ASSUME NEW c, TablesInv(c), NEW queue
    PROVE  TablesInv([c EXCEPT !.commands = queue])
<1> DEFINE d == [c EXCEPT !.commands = queue]
<1>1. d = [flows |-> c.flows, ipPortToId |-> c.ipPortToId, info |-> c.info,
           commands |-> queue]
  BY DEF TablesInv, TablesTypeOK
<1>2. QED
  BY <1>1 DEF TablesInv, TablesTypeOK, TablesMatch

\* The flow to a destination in use is told to set its channels.
LEMMA SetExistingKeeps ==
    ASSUME NEW c, TablesInv(c), NEW a \in Addrs, c.ipPortToId[a] # NoIndex
    PROVE  TablesInv(SetExisting(c, a)) /\ SetExisting(c, a).flows = c.flows
<1> DEFINE j == c.ipPortToId[a]
           d == SetChannels(c, j)
<1>1. j \in Indices /\ c.flows[j].remote = a
  BY DEF TablesInv, TablesTypeOK, TablesMatch
<1>2. \E queue : d = [c EXCEPT !.commands = queue]
  BY DEF SetChannels
<1>3. TablesInv(d) /\ d.flows = c.flows
  <2>1. TablesInv(d)
    BY <1>2, SameTables
  <2>2. c = [flows |-> c.flows, ipPortToId |-> c.ipPortToId, info |-> c.info,
             commands |-> c.commands]
    BY DEF TablesInv, TablesTypeOK
  <2>3. d.flows = c.flows
    BY <1>2, <2>2
  <2>4. QED
    BY <2>1, <2>3
<1>4. d.info[j] = a
  BY <1>1, <1>3, <1>2 DEF TablesInv, TablesTypeOK, TablesMatch
<1> HIDE DEF d
<1>5. [d EXCEPT !.info[j] = a] = d
  BY <1>3, <1>4 DEF TablesInv, TablesTypeOK
<1>6. QED
  BY <1>3, <1>5 DEF SetExisting, d

\* A new flow, after the expired ones are removed: the tables match whether the
\* destination is in use, and whether the index is free or not.
LEMMA AddMulticastKeeps ==
    ASSUME NEW c, TablesInv(c), NEW i \in Indices, NEW n \in Nat, NEW a \in MulticastAddrs
    PROVE  TablesInv(AddMulticast(c, i, [id |-> n, remote |-> a]))
<1>1. TablesInv(ScanExpired(c)) /\ a \in Addrs
  BY ScanExpiredKeeps DEF Addrs
<1>2. i \in FreeIndices(ScanExpired(c)) => i \in VacantIndices(ScanExpired(c))
  BY DEF FreeIndices, VacantIndices
<1>3. CASE c.ipPortToId[a] # NoIndex
  BY <1>1, <1>3, SetExistingKeeps DEF AddMulticast
<1>4. CASE c.ipPortToId[a] = NoIndex
  <2>1. ScanExpired(c).ipPortToId[a] = NoIndex
    BY <1>1, <1>4, ScanExpiredKeeps
  <2>2. QED
    BY <1>1, <1>2, <1>4, <2>1, InsertFlowKeeps DEF AddMulticast
<1>5. QED
  BY <1>3, <1>4

LEMMA RemoveMulticastKeeps ==
    ASSUME NEW c, TablesInv(c), NEW i \in Indices
    PROVE  TablesInv(RemoveMulticast(c, i))
  BY RemoveFlowsKeeps DEF RemoveMulticast

LEMMA NoFlowsMatch == TablesInv(NoFlows)
<1>1. NoFlow = [id |-> 0, remote |-> NoAddr]
  BY DEF NoFlow
<1>2. QED
  BY <1>1, NoIndexIsNoIndex, NoAddrIsNoAddr
  DEF NoFlows, TablesInv, TablesTypeOK, TablesMatch

LEMMA FlowsInvInit == FlowsInit => FlowsInv
  BY NoFlowsMatch DEF FlowsInit, FlowsInv

LEMMA FlowsInvNext == FlowsInv /\ [FlowsNext]_flowsVars => FlowsInv'
<1> SUFFICES ASSUME FlowsInv, [FlowsNext]_flowsVars PROVE FlowsInv'
  OBVIOUS
<1> USE DEF FlowsInv
<1>1. ASSUME NEW r \in Receivers, RequestFlow(r) PROVE FlowsInv'
  <2> DEFINE scanned == ScanExpired(control)
  <2>1. TablesInv(scanned) /\ r \in Addrs /\ scanned.ipPortToId[r] = NoIndex
    BY <1>1, ScanExpiredKeeps DEF RequestFlow, Addrs
  <2>2. CASE control' = scanned /\ UNCHANGED created
    BY <2>1, <2>2
  <2>3. CASE /\ \E i \in VacantIndices(scanned) :
                    control' = InsertFlow(scanned, i, [id |-> created + 1, remote |-> r])
             /\ created' = created + 1
    BY <2>1, <2>3, InsertFlowKeeps, created + 1 \in Nat
  <2>4. QED
    BY <1>1, <2>2, <2>3 DEF RequestFlow
<1>2. ASSUME NEW r \in Receivers, RequestFlowAgain(r) PROVE FlowsInv'
  BY <1>2, SetExistingKeeps DEF RequestFlowAgain, Addrs
<1>3. ASSUME NEW i \in Indices, UpdateFlow(i) PROVE FlowsInv'
  BY <1>3, SameTables DEF UpdateFlow, SetChannels
<1>4. ASSUME NEW i \in Indices, StopFlow(i) PROVE FlowsInv'
  BY <1>4, RemoveFlowsKeeps DEF StopFlow
<1>5. ASSUME NEW i \in Indices, NEW a \in MulticastAddrs, AddMulticastFlow(i, a)
      PROVE  FlowsInv'
  BY <1>5, AddMulticastKeeps, created + 1 \in Nat DEF AddMulticastFlow
<1>6. ASSUME NEW i \in Indices, NEW a \in MulticastAddrs, ReplaceMulticastFlow(i, a)
      PROVE  FlowsInv'
  BY <1>6, AddMulticastKeeps, RemoveMulticastKeeps, created + 1 \in Nat
  DEF ReplaceMulticastFlow
<1>7. ASSUME NEW i \in Indices, RemoveMulticastFlow(i) PROVE FlowsInv'
  BY <1>7, RemoveMulticastKeeps DEF RemoveMulticastFlow
<1>8. ASSUME NEW i \in Indices, ActivateMulticastFlow(i) PROVE FlowsInv'
  BY <1>8 DEF ActivateMulticastFlow
<1>9. CASE ResetFlows
  BY <1>9, NoFlowsMatch DEF ResetFlows
<1>10. CASE ExecuteAdd \/ ExecuteRemove \/ ExecuteSetChannels
  <2>1. Consume /\ UNCHANGED created
    BY <1>10 DEF ExecuteAdd, ExecuteRemove, ExecuteSetChannels
  <2>2. QED
    BY <2>1, SameTables DEF Consume
<1>11. ASSUME NEW i \in Indices, Expire(i) PROVE FlowsInv'
  BY <1>11 DEF Expire
<1>12. CASE AddMulticastUnbound(control)
  BY <1>12, ScanExpiredKeeps DEF AddMulticastUnbound
<1>13. ASSUME NEW i \in Indices, AddMulticastUnbound(RemoveMulticast(control, i))
       PROVE  FlowsInv'
  BY <1>13, ScanExpiredKeeps, RemoveMulticastKeeps DEF AddMulticastUnbound
<1>14. CASE UNCHANGED flowsVars
  BY <1>14 DEF flowsVars
<1>15. QED
  BY <1>1, <1>2, <1>3, <1>4, <1>5, <1>6, <1>7, <1>8, <1>9, <1>10, <1>11, <1>12, <1>13, <1>14
  DEF FlowsNext, TxThread, FlowsControlServer, Bundles

\* The tables agree: the unwraps of add_flow, set_channels and scan_expired
\* always find what they look for.
THEOREM TablesAgreeAlways == FlowsSpec => []TablesAgree
<1>1. FlowsInv => TablesAgree
  BY DEF FlowsInv, TablesInv, TablesMatch, TablesAgree
<1>2. QED
  BY <1>1, FlowsInvInit, FlowsInvNext, PTL DEF FlowsSpec

-----------------------------------------------------------------------------
(* The commands on their way to the TX thread *)

\* The flows that were ever created when their number is n, and the commands
\* that may be about them.
FlowsUpTo(n) == [id : 1..n, remote : Addrs] \cup {NoFlow}
CommandsUpTo(n) ==
    [op : {"AddFlow", "SetChannels", "RemoveFlow"}, index : Indices, flow : FlowsUpTo(n)]

\* The command writes slot i of the thread's table.
Touches(command, i) == command.index = i /\ command.op # "SetChannels"

\* `flow` is what the thread has in slot i after n of the commands of q: it has
\* it now and none of them touches it, or the last one that does puts it there.
SlotIs(q, t, i, n, flow) ==
    \/ t[i] = flow /\ \A k \in 1..n : ~Touches(q[k], i)
    \/ \E k \in 1..n : /\ Touches(q[k], i) /\ q[k].flow = flow
                      /\ \A m \in (k + 1)..n : ~Touches(q[m], i)

\* Only the commands between n and p are new, and none of them touches slot i.
LEMMA SlotStays ==
    ASSUME NEW q, NEW r, NEW t, NEW i, NEW flow, NEW n \in Nat, NEW p \in Nat, n <= p,
           \A k \in 1..n : r[k] = q[k],
           \A k \in (n + 1)..p : ~Touches(r[k], i),
           SlotIs(q, t, i, n, flow)
    PROVE  SlotIs(r, t, i, p, flow)
<1>1. CASE t[i] = flow /\ \A k \in 1..n : ~Touches(q[k], i)
  <2>1. ASSUME NEW k \in 1..p PROVE ~Touches(r[k], i)
    BY <1>1, k \in 1..n \/ k \in (n + 1)..p
  <2>2. QED
    BY <1>1, <2>1 DEF SlotIs
<1>2. CASE \E k \in 1..n : /\ Touches(q[k], i) /\ q[k].flow = flow
                            /\ \A m \in (k + 1)..n : ~Touches(q[m], i)
  <2>1. PICK k \in 1..n : /\ Touches(q[k], i) /\ q[k].flow = flow
                          /\ \A m \in (k + 1)..n : ~Touches(q[m], i)
    BY <1>2
  <2>2. k \in 1..p /\ r[k] = q[k]
    OBVIOUS
  <2>3. ASSUME NEW m \in (k + 1)..p PROVE ~Touches(r[m], i)
    BY <2>1, m \in (k + 1)..n \/ m \in (n + 1)..p, m \in 1..n \/ m > n
  <2>4. QED
    BY <2>1, <2>2, <2>3 DEF SlotIs
<1>3. QED
  BY <1>1, <1>2 DEF SlotIs

\* The last command touches slot i.
LEMMA SlotIsLast ==
    ASSUME NEW q, NEW t, NEW i, NEW n \in Nat \ {0}, Touches(q[n], i)
    PROVE  SlotIs(q, t, i, n, q[n].flow)
  BY n \in 1..n, (n + 1)..n = {} DEF SlotIs

\* The first command is executed.
LEMMA SlotShifts ==
    ASSUME NEW S, NEW q \in Seq(S), q # << >>, NEW t, NEW u, NEW i, NEW flow,
           u[i] = IF Touches(Head(q), i) THEN Head(q).flow ELSE t[i],
           NEW n \in 1..Len(q), SlotIs(q, t, i, n, flow)
    PROVE  SlotIs(Tail(q), u, i, n - 1, flow)
<1>1. /\ Head(q) = q[1] /\ Len(q) \in Nat /\ Len(Tail(q)) = Len(q) - 1
      /\ \A k \in 1..(Len(q) - 1) : Tail(q)[k] = q[k + 1]
  BY HeadTailProperties
<1>2. \A k \in 1..(n - 1) : Tail(q)[k] = q[k + 1]
  BY <1>1
<1>3. CASE t[i] = flow /\ \A k \in 1..n : ~Touches(q[k], i)
  <2>1. u[i] = flow
    BY <1>1, <1>3
  <2>2. \A k \in 1..(n - 1) : ~Touches(Tail(q)[k], i)
    BY <1>2, <1>3
  <2>3. QED
    BY <2>1, <2>2 DEF SlotIs
<1>4. CASE \E k \in 1..n : /\ Touches(q[k], i) /\ q[k].flow = flow
                            /\ \A m \in (k + 1)..n : ~Touches(q[m], i)
  <2>1. PICK k \in 1..n : /\ Touches(q[k], i) /\ q[k].flow = flow
                          /\ \A m \in (k + 1)..n : ~Touches(q[m], i)
    BY <1>4
  <2>2. \A m \in k..(n - 1) : ~Touches(Tail(q)[m], i)
    BY <1>2, <2>1
  <2>3. CASE k = 1
    <3>1. u[i] = flow
      BY <1>1, <2>1, <2>3
    <3>2. QED
      BY <2>2, <2>3, <3>1 DEF SlotIs
  <2>4. CASE k # 1
    <3>1. k - 1 \in 1..(n - 1) /\ Tail(q)[k - 1] = q[k] /\ (k - 1) + 1 = k
      BY <1>2, <2>4
    <3>2. QED
      BY <2>1, <2>2, <3>1 DEF SlotIs
  <2>5. QED
    BY <2>3, <2>4
<1>5. QED
  BY <1>3, <1>4 DEF SlotIs

\* What the property reads off the queue.
LEMMA SlotAfterIs ==
    ASSUME NEW i, NEW n \in Nat, NEW flow, SlotIs(control.commands, txFlows, i, n, flow)
    PROVE  SlotAfter(i, n) = flow
<1> DEFINE q == control.commands
           touches == {k \in 1..n : q[k].index = i /\ q[k].op # "SetChannels"}
<1>1. SlotAfter(i, n) = IF touches = {} THEN txFlows[i]
                        ELSE q[CHOOSE k \in touches : \A m \in touches : m <= k].flow
  BY DEF SlotAfter
<1>2. CASE txFlows[i] = flow /\ \A k \in 1..n : ~Touches(q[k], i)
  BY <1>1, <1>2 DEF Touches
<1>3. CASE \E k \in 1..n : /\ Touches(q[k], i) /\ q[k].flow = flow
                            /\ \A m \in (k + 1)..n : ~Touches(q[m], i)
  <2>1. PICK k \in 1..n : /\ Touches(q[k], i) /\ q[k].flow = flow
                          /\ \A m \in (k + 1)..n : ~Touches(q[m], i)
    BY <1>3
  <2>2. k \in touches /\ \A m \in touches : m <= k
    BY <2>1 DEF Touches
  <2>3. touches \subseteq Int
    OBVIOUS
  <2> HIDE DEF touches, q
  <2>4. (CHOOSE x \in touches : \A m \in touches : m <= x) = k
    <3> DEFINE x == CHOOSE x \in touches : \A m \in touches : m <= x
    <3>1. x \in touches /\ \A m \in touches : m <= x
      BY <2>2
    <3> HIDE DEF x
    <3>2. x = k
      BY <2>2, <2>3, <3>1
    <3>3. QED
      BY <3>2 DEF x
  <2>5. QED
    BY <1>1, <2>1, <2>2, <2>4
<1>4. QED
  BY <1>2, <1>3 DEF SlotIs

\* The flows that either side knows of or that are on their way.  A number
\* stands for one flow only.
Known(c, t) ==
    {NoFlow} \cup {c.flows[i] : i \in Indices} \cup {t[i] : i \in Indices}
    \cup {c.commands[k].flow : k \in 1..Len(c.commands)}

Distinct(flows) == \A f, g \in flows : f.id = g.id => f = g

\* When its turn comes the command finds what it expects: AddFlow a vacant slot
\* and SetChannels a flow to one of the destinations it is sent for.
Applies(q, t, k, dests) ==
    /\ q[k].op = "AddFlow" => SlotIs(q, t, q[k].index, k - 1, NoFlow)
    /\ q[k].op = "SetChannels" =>
           \E flow \in Flow : /\ flow.remote \in dests
                              /\ SlotIs(q, t, q[k].index, k - 1, flow)
    /\ q[k].op = "RemoveFlow" => q[k].flow = NoFlow

QueueTypeOK(c, t, n) ==
    /\ c.flows \in [Indices -> FlowsUpTo(n)]
    /\ t \in [Indices -> FlowsUpTo(n)]
    /\ c.commands \in Seq(CommandsUpTo(n))

QueueMatches(c, t, dests) ==
    /\ \A i \in Indices : SlotIs(c.commands, t, i, Len(c.commands), c.flows[i])
    /\ \A k \in 1..Len(c.commands) : Applies(c.commands, t, k, dests)

\* The control side c, the thread's table t and n flows created so far.
Queued(c, t, n, dests) ==
    /\ QueueTypeOK(c, t, n)
    /\ Distinct(Known(c, t))
    /\ QueueMatches(c, t, dests)

\* What comes first in the queue does not depend on what is appended to it.
LEMMA AppliesStays ==
    ASSUME NEW dests, NEW q, NEW r, NEW t, NEW k \in Nat \ {0},
           \A m \in 1..k : r[m] = q[m], Applies(q, t, k, dests)
    PROVE  Applies(r, t, k, dests)
<1>1. k - 1 \in Nat /\ k \in 1..k /\ r[k] = q[k]
      /\ (\A m \in 1..(k - 1) : r[m] = q[m]) /\ ((k - 1) + 1)..(k - 1) = {}
  OBVIOUS
<1>2. ASSUME NEW i, NEW flow, SlotIs(q, t, i, k - 1, flow)
      PROVE  SlotIs(r, t, i, k - 1, flow)
  BY <1>1, <1>2, SlotStays
<1>3. QED
  BY <1>1, <1>2 DEF Applies

LEMMA NoFlowIsKnown == ASSUME NEW n \in Nat PROVE NoFlow \in FlowsUpTo(n)
  BY DEF FlowsUpTo

\* One command more, about slot i, with what the control side has there then.
LEMMA AppendQueues ==
    ASSUME NEW dests, NEW c, NEW t, NEW n \in Nat,
           QueueTypeOK(c, t, n), QueueMatches(c, t, dests),
           NEW d, NEW p \in Nat, QueueTypeOK(d, t, p), n <= p,
           NEW i \in Indices, NEW command \in CommandsUpTo(p), command.index = i,
           d.commands = Append(c.commands, command),
           \A j \in Indices \ {i} : d.flows[j] = c.flows[j],
           d.flows[i] = IF Touches(command, i) THEN command.flow ELSE c.flows[i],
           /\ command.op = "AddFlow" => c.flows[i] = NoFlow
           /\ command.op = "SetChannels" =>
                  c.flows[i] \in Flow /\ c.flows[i].remote \in dests
           /\ command.op = "RemoveFlow" => command.flow = NoFlow
    PROVE  QueueMatches(d, t, dests)
<1> DEFINE q == c.commands
           r == d.commands
           len == Len(q)
<1>1. q \in Seq(CommandsUpTo(p)) /\ len \in Nat
  <2>1. CommandsUpTo(n) \subseteq CommandsUpTo(p)
    BY DEF CommandsUpTo, FlowsUpTo
  <2>2. QED
    BY <2>1 DEF QueueTypeOK
<1>2. /\ Len(r) = len + 1 /\ r[len + 1] = command
      /\ \A k \in 1..len : r[k] = q[k]
  BY <1>1, AppendProperties
<1>3. \A j \in Indices : SlotIs(q, t, j, len, c.flows[j])
  BY DEF QueueMatches
<1>4. \A k \in 1..len : Applies(q, t, k, dests)
  BY DEF QueueMatches
<1> HIDE DEF q, r, len
<1>5. ASSUME NEW j \in Indices PROVE SlotIs(r, t, j, len, c.flows[j])
  BY <1>1, <1>2, <1>3, SlotStays, (len + 1)..len = {}
<1>6. ASSUME NEW j \in Indices PROVE SlotIs(r, t, j, len + 1, d.flows[j])
  <2>1. CASE Touches(command, j)
    <3>1. j = i /\ d.flows[j] = command.flow
      BY <2>1 DEF Touches
    <3>2. QED
      BY <1>1, <1>2, <2>1, <3>1, SlotIsLast, len + 1 \in Nat \ {0}
  <2>2. CASE ~Touches(command, j)
    <3>1. d.flows[j] = c.flows[j]
      BY <2>2
    <3>2. \A k \in (len + 1)..(len + 1) : ~Touches(r[k], j)
      BY <1>1, <1>2, <2>2
    <3>3. QED
      BY <1>1, <1>2, <1>3, <3>1, <3>2, SlotStays, len + 1 \in Nat, len <= len + 1
  <2>3. QED
    BY <2>1, <2>2
<1>7. ASSUME NEW k \in 1..(len + 1) PROVE Applies(r, t, k, dests)
  <2>1. CASE k \in 1..len
    <3>1. k \in Nat \ {0} /\ \A m \in 1..k : r[m] = q[m]
      BY <1>1, <1>2, <2>1
    <3>2. QED
      BY <1>4, <2>1, <3>1, AppliesStays
  <2>2. CASE k = len + 1
    <3>1. r[k] = command /\ k - 1 = len
      BY <1>1, <1>2, <2>2
    <3>2. SlotIs(r, t, i, k - 1, c.flows[i])
      BY <1>5, <3>1
    <3>3. QED
      BY <3>1, <3>2 DEF Applies
  <2>3. QED
    BY <1>1, <2>1, <2>2
<1>8. QED
  BY <1>2, <1>6, <1>7 DEF QueueMatches, r

LEMMA QueuedGrows ==
    ASSUME NEW dests, NEW c, NEW t, NEW n \in Nat, NEW p \in Nat, n <= p, Queued(c, t, n, dests)
    PROVE  Queued(c, t, p, dests)
<1>1. FlowsUpTo(n) \subseteq FlowsUpTo(p) /\ CommandsUpTo(n) \subseteq CommandsUpTo(p)
  BY DEF CommandsUpTo, FlowsUpTo
<1>2. QED
  BY <1>1 DEF Queued, QueueTypeOK

\* Flows that are known under a new set of names are distinct if it has no new
\* ones but one with a new number.
LEMMA DistinctGrows ==
    ASSUME NEW flows, NEW others, NEW n \in Nat, NEW a, Distinct(flows),
           \A f \in flows : f.id \in 0..n,
           others \subseteq flows \cup {[id |-> n + 1, remote |-> a]}
    PROVE  Distinct(others)
<1> DEFINE flow == [id |-> n + 1, remote |-> a]
<1>1. flow.id = n + 1
  OBVIOUS
<1> HIDE DEF flow
<1>2. ASSUME NEW f \in others, NEW g \in others, f.id = g.id PROVE f = g
  <2>1. (f \in flows \/ f = flow) /\ (g \in flows \/ g = flow)
    BY DEF flow
  <2>2. (f \in flows => f.id # n + 1) /\ (g \in flows => g.id # n + 1)
    BY n + 1 \notin 0..n
  <2>3. CASE f = flow
    BY <1>1, <1>2, <2>1, <2>2, <2>3
  <2>4. CASE g = flow
    BY <1>1, <1>2, <2>1, <2>2, <2>4
  <2>5. CASE f \in flows /\ g \in flows
    BY <1>2, <2>5 DEF Distinct
  <2>6. QED
    BY <2>1, <2>3, <2>4, <2>5
<1>3. QED
  BY <1>2 DEF Distinct

LEMMA KnownIds ==
    ASSUME NEW c, NEW t, NEW n \in Nat, QueueTypeOK(c, t, n)
    PROVE  Known(c, t) \subseteq FlowsUpTo(n) /\ \A f \in Known(c, t) : f.id \in 0..n
<1>1. \A f \in FlowsUpTo(n) : f.id \in 0..n
  BY DEF FlowsUpTo, NoFlow
<1>2. \A k \in 1..Len(c.commands) : c.commands[k].flow \in FlowsUpTo(n)
  <2>1. \A k \in 1..Len(c.commands) : c.commands[k] \in CommandsUpTo(n)
    BY DEF QueueTypeOK
  <2>2. QED
    BY <2>1 DEF CommandsUpTo
<1>3. Known(c, t) \subseteq FlowsUpTo(n)
  BY <1>2, NoFlowIsKnown DEF Known, QueueTypeOK
<1>4. QED
  BY <1>1, <1>3

\* A vacant index gets a new flow.
LEMMA InsertFlowQueues ==
    ASSUME NEW dests, NEW c, NEW t, NEW n \in Nat, Queued(c, t, n, dests),
           NEW i \in VacantIndices(c), NEW a \in Addrs
    PROVE  Queued(InsertFlow(c, i, [id |-> n + 1, remote |-> a]), t, n + 1, dests)
<1> DEFINE flow == [id |-> n + 1, remote |-> a]
           command == AddCommand(i, flow)
           d == InsertFlow(c, i, flow)
           p == n + 1
<1>1. /\ d.flows = [c.flows EXCEPT ![i] = flow]
      /\ d.commands = Append(c.commands, command)
  BY DEF InsertFlow
<1>2. i \in Indices /\ c.flows[i] = NoFlow
  BY DEF VacantIndices
<1>3. /\ p \in Nat /\ n <= p /\ flow \in FlowsUpTo(p)
      /\ FlowsUpTo(n) \subseteq FlowsUpTo(p)
  BY DEF FlowsUpTo
<1>4. command = [op |-> "AddFlow", index |-> i, flow |-> flow]
  BY DEF AddCommand
<1>5. Queued(c, t, p, dests)
  BY <1>3, QueuedGrows
<1>6. QueueTypeOK(c, t, n) /\ QueueMatches(c, t, dests) /\ Distinct(Known(c, t))
  BY DEF Queued
<1> HIDE DEF p, flow, command, d
<1>7. command \in CommandsUpTo(p) /\ command.index = i /\ Touches(command, i)
      /\ command.op = "AddFlow" /\ command.flow = flow
  BY <1>2, <1>3, <1>4 DEF CommandsUpTo, Touches
<1>8. c.commands \in Seq(CommandsUpTo(p)) /\ c.flows \in [Indices -> FlowsUpTo(p)]
      /\ t \in [Indices -> FlowsUpTo(p)]
  BY <1>5 DEF Queued, QueueTypeOK
<1>9. QueueTypeOK(d, t, p)
  BY <1>1, <1>2, <1>3, <1>7, <1>8, AppendProperties DEF QueueTypeOK
<1>10. d.flows[i] = flow /\ \A j \in Indices \ {i} : d.flows[j] = c.flows[j]
  BY <1>1, <1>2, <1>8
<1>11. QueueMatches(d, t, dests)
  BY <1>1, <1>2, <1>3, <1>6, <1>7, <1>9, <1>10, AppendQueues
<1>12. Distinct(Known(d, t))
  <2>1. \A k \in 1..Len(d.commands) :
            d.commands[k].flow \in {c.commands[m].flow : m \in 1..Len(c.commands)} \cup {flow}
    BY <1>1, <1>7, <1>8, AppendProperties
  <2>2. Known(d, t) \subseteq Known(c, t) \cup {flow}
    BY <1>2, <1>10, <2>1 DEF Known
  <2>3. QED
    BY <1>6, <2>2, KnownIds, DistinctGrows DEF flow
<1>13. QED
  BY <1>9, <1>11, <1>12 DEF Queued, d, flow, p

\* The channels of a flow are set.
LEMMA SetChannelsQueues ==
    ASSUME NEW dests \in SUBSET Addrs, NEW c, NEW t, NEW n \in 0..MaxFlows,
           TablesTypeOK(c), Queued(c, t, n, dests),
           NEW i \in Indices, c.flows[i].remote \in dests
    PROVE  Queued(SetChannels(c, i), t, n, dests)
<1> DEFINE command == SetCommand(i)
           d == SetChannels(c, i)
<1>1. d.flows = c.flows /\ d.commands = Append(c.commands, command)
  BY DEF SetChannels, TablesTypeOK
<1>2. command = [op |-> "SetChannels", index |-> i, flow |-> NoFlow]
  BY DEF SetCommand
<1>3. n \in Nat /\ MaxFlows \in Nat
  BY BoundsAssumption
<1>4. QueueTypeOK(c, t, n) /\ QueueMatches(c, t, dests) /\ Distinct(Known(c, t))
  BY DEF Queued
<1> HIDE DEF command, d
<1>5. command \in CommandsUpTo(n) /\ command.index = i /\ ~Touches(command, i)
      /\ command.op = "SetChannels" /\ command.flow = NoFlow
  BY <1>2, <1>3, NoFlowIsKnown DEF CommandsUpTo, Touches
<1>6. c.commands \in Seq(CommandsUpTo(n))
  BY <1>4 DEF QueueTypeOK
<1>7. QueueTypeOK(d, t, n)
  BY <1>1, <1>4, <1>5, AppendProperties DEF QueueTypeOK
<1>8. c.flows[i] \in Flow
  <2>1. c.flows[i] \in FlowsUpTo(n) /\ NoFlow.remote \notin dests
    BY <1>4, NoAddrIsNoAddr DEF QueueTypeOK, NoFlow
  <2>2. 1..n \subseteq 1..MaxFlows
    BY <1>3
  <2>3. QED
    BY <2>1, <2>2 DEF FlowsUpTo, Flow
<1>9. QueueMatches(d, t, dests)
  BY <1>1, <1>3, <1>4, <1>5, <1>7, <1>8, AppendQueues
<1>10. Distinct(Known(d, t))
  <2>1. \A k \in 1..Len(d.commands) :
            d.commands[k].flow \in {c.commands[m].flow : m \in 1..Len(c.commands)} \cup {NoFlow}
    BY <1>1, <1>5, <1>6, AppendProperties
  <2>2. Known(d, t) \subseteq Known(c, t)
    BY <1>1, <2>1 DEF Known
  <2>3. QED
    BY <1>4, <2>2 DEF Distinct
<1>11. QED
  BY <1>7, <1>9, <1>10 DEF Queued, d

\* SetToSeq lists a finite set without repetitions.
LEMMA ListOfSet ==
    ASSUME NEW S, IsFiniteSet(S)
    PROVE  /\ SetToSeq(S) \in Seq(S) /\ Len(SetToSeq(S)) \in Nat
           /\ \A x \in S : \E k \in 1..Len(SetToSeq(S)) : SetToSeq(S)[k] = x
           /\ \A k, m \in 1..Len(SetToSeq(S)) : SetToSeq(S)[k] = SetToSeq(S)[m] => k = m
<1> DEFINE n == Cardinality(S)
           r == SetToSeq(S)
<1>1. n \in Nat /\ ExistsBijection(1..n, S)
  BY FS_CardinalityType
<1>2. \E f \in [1..n -> S] : IsInjective(f)
  BY <1>1 DEF ExistsBijection, Bijection, Injection
<1>3. r \in [1..n -> S] /\ IsInjective(r)
  BY <1>2 DEF SetToSeq
<1> HIDE DEF r
<1>4. r \in Seq(S) /\ Len(r) = n
  BY <1>1, <1>3
<1>5. IsFiniteSet(1..n) /\ Cardinality(1..n) = n
  BY <1>1, FS_Interval
<1>6. r \in Surjection(1..n, S)
  BY <1>1, <1>3, <1>5, FS_Injection DEF Injection
<1> HIDE DEF n
<1>7. \A x \in S : \E k \in 1..Len(r) : r[k] = x
  BY <1>4, <1>6 DEF Surjection
<1>8. \A k, m \in 1..Len(r) : r[k] = r[m] => k = m
  BY <1>3, <1>4 DEF IsInjective
<1>9. QED
  BY <1>1, <1>4, <1>7, <1>8 DEF r

\* The commands of remove_flow_internal for a set of indices: one for each.
LEMMA RemovalsAreListed ==
    ASSUME NEW gone \in SUBSET Indices, NEW n \in Nat
    PROVE  LET r == SetToSeq({RemoveCommand(i) : i \in gone})
           IN  /\ r \in Seq(CommandsUpTo(n)) /\ Len(r) \in Nat
               /\ \A k \in 1..Len(r) : r[k].index \in gone /\ r[k] = RemoveCommand(r[k].index)
               /\ \A i \in gone : \E k \in 1..Len(r) : r[k] = RemoveCommand(i)
               /\ \A k, m \in 1..Len(r) : r[k].index = r[m].index => k = m
<1> DEFINE S == {RemoveCommand(i) : i \in gone}
           r == SetToSeq(S)
<1>1. IsFiniteSet(S)
  <2>1. [i \in gone |-> RemoveCommand(i)] \in Surjection(gone, S)
    BY DEF Surjection
  <2>2. IsFiniteSet(gone)
    BY IndicesAssumption, FS_Subset
  <2>3. QED
    BY <2>1, <2>2, FS_Surjection
<1>2. S \subseteq CommandsUpTo(n) /\ \A x \in S : x.index \in gone /\ x = RemoveCommand(x.index)
  BY NoFlowIsKnown DEF CommandsUpTo, RemoveCommand
<1>3. \A i \in gone : RemoveCommand(i) \in S
  OBVIOUS
<1> HIDE DEF S
<1>4. /\ r \in Seq(S) /\ Len(r) \in Nat
      /\ \A x \in S : \E k \in 1..Len(r) : r[k] = x
      /\ \A k, m \in 1..Len(r) : r[k] = r[m] => k = m
  BY <1>1, ListOfSet
<1> HIDE DEF r
<1>5. r \in Seq(CommandsUpTo(n)) /\ \A k \in 1..Len(r) : r[k] \in S
  BY <1>2, <1>4
<1>6. \A k \in 1..Len(r) : r[k].index \in gone /\ r[k] = RemoveCommand(r[k].index)
  BY <1>2, <1>5
<1>7. \A k, m \in 1..Len(r) : r[k].index = r[m].index => k = m
  BY <1>4, <1>6
<1>8. \A i \in gone : \E k \in 1..Len(r) : r[k] = RemoveCommand(i)
  BY <1>3, <1>4
<1>9. QED
  BY <1>4, <1>5, <1>6, <1>7, <1>8 DEF r, S

LEMMA RemoveFlowsQueues ==
    ASSUME NEW dests, NEW c, NEW t, NEW n \in Nat, Queued(c, t, n, dests),
           NEW gone \in SUBSET Indices
    PROVE  Queued(RemoveFlows(c, gone), t, n, dests)
<1> DEFINE q == c.commands
           r == SetToSeq({RemoveCommand(i) : i \in gone})
           d == RemoveFlows(c, gone)
           s == d.commands
           len == Len(q)
           sum == Len(q) + Len(r)
<1>1. /\ d.flows = [i \in Indices |-> IF i \in gone THEN NoFlow ELSE c.flows[i]]
      /\ s = q \o r
  BY DEF RemoveFlows
<1>2. /\ r \in Seq(CommandsUpTo(n)) /\ Len(r) \in Nat
      /\ \A k \in 1..Len(r) : r[k].index \in gone /\ r[k] = RemoveCommand(r[k].index)
      /\ \A i \in gone : \E k \in 1..Len(r) : r[k] = RemoveCommand(i)
      /\ \A k, m \in 1..Len(r) : r[k].index = r[m].index => k = m
  BY RemovalsAreListed
<1>3. QueueTypeOK(c, t, n) /\ QueueMatches(c, t, dests) /\ Distinct(Known(c, t))
  BY DEF Queued
<1> HIDE DEF r, d
<1>4. q \in Seq(CommandsUpTo(n)) /\ len \in Nat
  BY <1>3 DEF QueueTypeOK
<1> HIDE DEF q
<1>5. /\ s \in Seq(CommandsUpTo(n)) /\ Len(s) = sum /\ sum \in Nat /\ len <= sum
      /\ \A k \in 1..len : s[k] = q[k]
      /\ \A k \in (len + 1)..sum : k - len \in 1..Len(r) /\ s[k] = r[k - len]
  BY <1>1, <1>2, <1>4, ConcatProperties
<1> HIDE DEF len, s, sum
<1>6. QueueTypeOK(d, t, n)
  BY <1>1, <1>3, <1>5, NoFlowIsKnown DEF QueueTypeOK, s
<1>7. /\ \A i \in Indices : SlotIs(q, t, i, len, c.flows[i])
      /\ \A k \in 1..len : Applies(q, t, k, dests)
  BY <1>3 DEF QueueMatches, q, len
<1>8. \A i : /\ RemoveCommand(i).op = "RemoveFlow" /\ RemoveCommand(i).flow = NoFlow
             /\ RemoveCommand(i).index = i
  BY DEF RemoveCommand
<1>9. ASSUME NEW i \in Indices PROVE SlotIs(s, t, i, sum, d.flows[i])
  <2>1. CASE i \in gone
    <3>1. PICK k \in 1..Len(r) : r[k] = RemoveCommand(i)
      BY <1>2, <2>1
    <3>2. len + k \in (len + 1)..sum /\ len + k \in 1..sum /\ (len + k) - len = k
      BY <1>2, <1>4 DEF sum, len
    <3>3. s[len + k] = RemoveCommand(i)
      BY <1>5, <3>1, <3>2
    <3>4. Touches(s[len + k], i) /\ s[len + k].flow = NoFlow
      BY <1>8, <3>3 DEF Touches
    <3>5. ASSUME NEW m \in ((len + k) + 1)..sum PROVE ~Touches(s[m], i)
      <4>1. m \in (len + 1)..sum /\ m - len # k
        BY <1>4, <1>5, <1>2
      <4>2. s[m] = r[m - len] /\ m - len \in 1..Len(r)
        BY <1>5, <4>1
      <4>3. r[k].index = i
        BY <1>8, <3>1
      <4>4. s[m].index # i
        BY <1>2, <4>1, <4>2, <4>3
      <4>5. QED
        BY <4>4 DEF Touches
    <3>6. d.flows[i] = NoFlow
      BY <1>1, <2>1
    <3>7. QED
      BY <3>2, <3>4, <3>5, <3>6 DEF SlotIs
  <2>2. CASE i \notin gone
    <3>1. d.flows[i] = c.flows[i]
      BY <1>1, <2>2
    <3>2. \A k \in (len + 1)..sum : ~Touches(s[k], i)
      BY <1>2, <1>5, <2>2 DEF Touches
    <3>3. SlotIs(q, t, i, len, c.flows[i])
      BY <1>7
    <3>4. QED
      BY <1>4, <1>5, <3>1, <3>2, <3>3, SlotStays
  <2>3. QED
    BY <2>1, <2>2
<1>10. ASSUME NEW k \in 1..sum PROVE Applies(s, t, k, dests)
  <2>1. CASE k \in 1..len
    <3>1. k \in Nat \ {0} /\ \A m \in 1..k : s[m] = q[m]
      BY <1>4, <1>5, <2>1
    <3>2. QED
      BY <1>7, <2>1, <3>1, AppliesStays
  <2>2. CASE k \in (len + 1)..sum
    <3>1. s[k].op = "RemoveFlow" /\ s[k].flow = NoFlow
      BY <1>2, <1>5, <1>8, <2>2
    <3>2. QED
      BY <3>1 DEF Applies
  <2>3. QED
    BY <1>4, <1>5, <2>1, <2>2
<1>11. Distinct(Known(d, t))
  <2>1. ASSUME NEW k \in 1..sum
        PROVE  s[k].flow \in {q[m].flow : m \in 1..len} \cup {NoFlow}
    <3>1. CASE k \in 1..len
      BY <1>5, <3>1
    <3>2. CASE k \in (len + 1)..sum
      BY <1>2, <1>5, <1>8, <3>2
    <3>3. QED
      BY <1>4, <1>5, <3>1, <3>2
  <2>2. \A i \in Indices : d.flows[i] \in {NoFlow, c.flows[i]}
    BY <1>1
  <2>3. ASSUME NEW k \in 1..Len(d.commands) PROVE d.commands[k].flow \in Known(c, t)
    <3>1. s[k].flow \in {q[m].flow : m \in 1..len} \cup {NoFlow}
      BY <1>5, <2>1, <2>3 DEF s
    <3>2. QED
      BY <3>1 DEF Known, q, s, len
  <2>4. Known(d, t) \subseteq Known(c, t)
    BY <2>2, <2>3 DEF Known
  <2>5. QED
    BY <1>3, <2>4 DEF Distinct
<1>12. QED
  BY <1>5, <1>6, <1>9, <1>10, <1>11 DEF Queued, QueueMatches, d, s

\* The TX thread executes the first command.
LEMMA ConsumeQueues ==
    ASSUME NEW dests, NEW c, NEW t, NEW n \in Nat, TablesTypeOK(c), Queued(c, t, n, dests),
           c.commands # << >>,
           NEW u, u = IF Head(c.commands).op = "SetChannels" THEN t
                      ELSE [t EXCEPT ![Head(c.commands).index] = Head(c.commands).flow]
    PROVE  Queued([c EXCEPT !.commands = Tail(@)], u, n, dests)
<1> DEFINE q == c.commands
           r == Tail(q)
           d == [c EXCEPT !.commands = Tail(@)]
           len == Len(q)
<1>1. d.flows = c.flows /\ d.commands = r
  BY DEF TablesTypeOK
<1>2. QueueTypeOK(c, t, n) /\ QueueMatches(c, t, dests) /\ Distinct(Known(c, t))
  BY DEF Queued
<1> HIDE DEF d
<1>3. q \in Seq(CommandsUpTo(n)) /\ q # << >>
  BY <1>2 DEF QueueTypeOK
<1>4. /\ Head(q) \in CommandsUpTo(n) /\ Head(q) = q[1] /\ len \in Nat \ {0}
      /\ r \in Seq(CommandsUpTo(n)) /\ Len(r) = len - 1
      /\ \A k \in 1..(len - 1) : r[k] = q[k + 1]
  BY <1>3, HeadTailProperties
<1> HIDE DEF r
<1>5. Head(q).index \in Indices /\ Head(q).flow \in FlowsUpTo(n)
  BY <1>4 DEF CommandsUpTo
<1>6. t \in [Indices -> FlowsUpTo(n)] /\ c.flows \in [Indices -> FlowsUpTo(n)]
  BY <1>2 DEF QueueTypeOK
<1>7. u \in [Indices -> FlowsUpTo(n)]
  BY <1>5, <1>6
<1>8. \A i \in Indices : u[i] = IF Touches(Head(q), i) THEN Head(q).flow ELSE t[i]
  BY <1>5, <1>6 DEF Touches
<1>9. /\ \A i \in Indices : SlotIs(q, t, i, len, c.flows[i])
      /\ \A k \in 1..len : Applies(q, t, k, dests)
  BY <1>2 DEF QueueMatches
<1> HIDE DEF q, len
<1>10. ASSUME NEW i \in Indices, NEW flow, NEW m \in 1..len, SlotIs(q, t, i, m, flow)
       PROVE  SlotIs(r, u, i, m - 1, flow)
  BY <1>3, <1>8, <1>10, SlotShifts DEF r, len
<1>11. QueueTypeOK(d, u, n)
  BY <1>1, <1>4, <1>6, <1>7 DEF QueueTypeOK
<1>12. \A i \in Indices : SlotIs(r, u, i, Len(r), d.flows[i])
  BY <1>1, <1>4, <1>9, <1>10, len \in 1..len
<1>13. ASSUME NEW k \in 1..Len(r) PROVE Applies(r, u, k, dests)
  <2>1. /\ k + 1 \in 1..len /\ k \in 1..len /\ (k + 1) - 1 = k
        /\ r[k] = q[k + 1] /\ q[k + 1].index \in Indices
    <3>1. q[k + 1] \in CommandsUpTo(n)
      BY <1>3, <1>4 DEF len
    <3>2. QED
      BY <1>4, <3>1 DEF CommandsUpTo
  <2>2. Applies(q, t, k + 1, dests)
    BY <1>9, <2>1
  <2>3. QED
    BY <1>10, <2>1, <2>2 DEF Applies
<1>14. Distinct(Known(d, u))
  <2>1. \A k \in 1..Len(r) : r[k].flow \in {q[m].flow : m \in 1..len}
    BY <1>4
  <2>2. Head(q).flow \in {q[m].flow : m \in 1..len}
    BY <1>4
  <2>3. \A i \in Indices : u[i] \in {q[m].flow : m \in 1..len} \cup {t[i]}
    BY <1>8, <2>2
  <2>4. Known(d, u) \subseteq Known(c, t)
    BY <1>1, <2>1, <2>3 DEF Known, q, len
  <2>5. QED
    BY <1>2, <2>4 DEF Distinct
<1>15. QED
  BY <1>1, <1>11, <1>12, <1>13, <1>14 DEF Queued, QueueMatches, d

-----------------------------------------------------------------------------
(* The inductive invariant of the queue *)

\* SetChannels is sent for flows to these destinations only.
QueueInvFor(dests) ==
    /\ created \in 0..MaxFlows
    /\ Queued(control, txFlows, created, dests)
    /\ expired \subseteq 1..created

QueueInv == QueueInvFor(Addrs)

\* No flow, no command.
LEMMA NoFlowsQueued ==
    ASSUME NEW dests, NEW t, t = [i \in Indices |-> NoFlow]
    PROVE  Queued(NoFlows, t, 0, dests)
<1> DEFINE c == NoFlows
<1>1. /\ c.commands = << >> /\ Len(c.commands) = 0
      /\ c.flows \in [Indices -> {NoFlow}]
      /\ \A i \in Indices : c.flows[i] = NoFlow /\ t[i] = NoFlow
  BY DEF NoFlows
<1>2. QED
  BY <1>1, NoFlowIsKnown DEF Queued, QueueTypeOK, QueueMatches, Known, Distinct, SlotIs

LEMMA QueueInvInit == ASSUME NEW dests PROVE FlowsInit => QueueInvFor(dests)
<1>1. 0 \in 0..MaxFlows
  BY BoundsAssumption
<1>2. QED
  BY <1>1, NoFlowsQueued DEF QueueInvFor, FlowsInit

LEMMA ScanExpiredQueues ==
    ASSUME NEW dests, NEW c, NEW t, NEW n \in Nat, Queued(c, t, n, dests)
    PROVE  Queued(ScanExpired(c), t, n, dests)
  BY RemoveFlowsQueues DEF ScanExpired, ExpiredIndices

LEMMA RemoveMulticastQueues ==
    ASSUME NEW dests, NEW c, NEW t, NEW n \in Nat, Queued(c, t, n, dests), NEW i \in Indices
    PROVE  Queued(RemoveMulticast(c, i), t, n, dests)
  BY RemoveFlowsQueues DEF RemoveMulticast

\* The flow to a destination in use gets its channels set.
LEMMA SetExistingQueues ==
    ASSUME NEW dests \in SUBSET Addrs, NEW c, NEW t, NEW n \in 0..MaxFlows,
           TablesInv(c), Queued(c, t, n, dests),
           NEW a \in dests, c.ipPortToId[a] # NoIndex
    PROVE  Queued(SetExisting(c, a), t, n, dests)
<1> DEFINE j == c.ipPortToId[a]
           d == SetChannels(c, j)
<1>1. j \in Indices /\ c.flows[j].remote = a /\ TablesTypeOK(c)
  BY DEF TablesInv, TablesTypeOK, TablesMatch
<1>2. Queued(d, t, n, dests)
  BY <1>1, SetChannelsQueues
<1>3. SetExisting(c, a).flows = d.flows /\ SetExisting(c, a).commands = d.commands
  <2>1. SetExisting(c, a) = [d EXCEPT !.info[j] = a]
    BY DEF SetExisting
  <2>2. DOMAIN d = DOMAIN c
    BY DEF SetChannels
  <2>3. DOMAIN c = {"flows", "ipPortToId", "info", "commands"}
    BY <1>1 DEF TablesTypeOK
  <2>4. QED
    BY <2>1, <2>2, <2>3
<1> HIDE DEF d, j
<1>4. QED
  BY <1>2, <1>3 DEF Queued, QueueTypeOK, QueueMatches, Known

LEMMA AddMulticastQueues ==
    ASSUME NEW dests \in SUBSET Addrs, NEW c, NEW t, NEW n \in 0..MaxFlows,
           TablesInv(c), Queued(c, t, n, dests), NEW i \in Indices,
           NEW a \in MulticastAddrs, a \in dests \/ c.ipPortToId[a] = NoIndex
    PROVE  Queued(AddMulticast(c, i, [id |-> n + 1, remote |-> a]), t, n + 1, dests)
<1>1. a \in Addrs /\ n \in Nat /\ n + 1 \in Nat /\ n <= n + 1
  BY BoundsAssumption DEF Addrs
<1>2. Queued(ScanExpired(c), t, n, dests) /\ Queued(ScanExpired(c), t, n + 1, dests)
  BY <1>1, ScanExpiredQueues, QueuedGrows
<1>3. i \in FreeIndices(ScanExpired(c)) => i \in VacantIndices(ScanExpired(c))
  BY DEF FreeIndices, VacantIndices
<1>4. CASE c.ipPortToId[a] # NoIndex
  <2>1. Queued(SetExisting(c, a), t, n + 1, dests)
    BY <1>1, <1>4, SetExistingQueues, QueuedGrows
  <2>2. QED
    BY <1>4, <2>1 DEF AddMulticast
<1>5. CASE c.ipPortToId[a] = NoIndex
  BY <1>1, <1>2, <1>3, <1>5, InsertFlowQueues DEF AddMulticast
<1>6. QED
  BY <1>4, <1>5

\* The flow that a command for the TX thread is about, when it is the first.
LEMMA FirstCommand ==
    ASSUME NEW dests, QueueInvFor(dests), control.commands # << >>
    PROVE  /\ NextCommand.index \in Indices
           /\ NextCommand.op \in {"AddFlow", "SetChannels", "RemoveFlow"}
           /\ NextCommand.op = "AddFlow" => txFlows[NextCommand.index] = NoFlow
           /\ NextCommand.op = "RemoveFlow" => NextCommand.flow = NoFlow
           /\ NextCommand.op = "SetChannels" =>
                  txFlows[NextCommand.index].remote \in dests
<1> DEFINE q == control.commands
<1>1. q \in Seq(CommandsUpTo(created)) /\ q # << >>
  BY DEF QueueInvFor, Queued, QueueTypeOK
<1>2. \A k \in 1..Len(q) : Applies(q, txFlows, k, dests)
  BY DEF QueueInvFor, Queued, QueueMatches
<1> HIDE DEF q
<1>3. 1 \in 1..Len(q) /\ Head(q) = q[1] /\ q[1] \in CommandsUpTo(created)
  BY <1>1
<1>4. Applies(q, txFlows, 1, dests)
  BY <1>2, <1>3
<1>5. ASSUME NEW i, NEW flow, SlotIs(q, txFlows, i, 1 - 1, flow) PROVE txFlows[i] = flow
  BY <1>5, 1..(1 - 1) = {} DEF SlotIs
<1>6. QED
  BY <1>3, <1>4, <1>5 DEF Applies, CommandsUpTo, NextCommand, q

\* A step of the transmitter in which a bundle is added to an address in use
\* only if that is one of these destinations.
NextWithin(dests) ==
    \/ TxThread \/ FlowsControlServer \/ ResetFlows
    \/ \E i \in Indices, a \in MulticastAddrs :
           \/ AddMulticastFlow(i, a) /\ (a \in dests \/ a \in RandomDestination(control))
           \/ ReplaceMulticastFlow(i, a)
    \/ AddMulticastUnbound(control)
    \/ \E i \in Indices : \/ RemoveMulticastFlow(i) \/ ActivateMulticastFlow(i)
                          \/ AddMulticastUnbound(RemoveMulticast(control, i))

LEMMA WithinAddrs == FlowsNext => NextWithin(Addrs)
  BY DEF FlowsNext, Bundles, NextWithin, Addrs

LEMMA QueueInvNext ==
    ASSUME NEW dests \in SUBSET Addrs, Receivers \subseteq dests
    PROVE  FlowsInv /\ QueueInvFor(dests) /\ [NextWithin(dests)]_flowsVars
               => QueueInvFor(dests)'
<1> SUFFICES ASSUME FlowsInv, QueueInvFor(dests), [NextWithin(dests)]_flowsVars
             PROVE  QueueInvFor(dests)'
  OBVIOUS
<1> DEFINE next == created + 1
<1>a. /\ created \in Nat /\ created \in 0..MaxFlows /\ next \in Nat /\ created <= next
      /\ 1..created \subseteq 1..next /\ next \in 1..next
      /\ MaxFlows \in Nat /\ MaxRequested \in 0..MaxFlows
      /\ (created < MaxFlows => next \in 0..MaxFlows)
  BY BoundsAssumption DEF QueueInvFor
<1>b. Queued(control, txFlows, created, dests) /\ expired \subseteq 1..created
  BY DEF QueueInvFor
<1>c. TablesInv(control) /\ TablesTypeOK(control) /\ TablesMatch(control)
  BY DEF FlowsInv, TablesInv
<1>1. ASSUME NEW r \in Receivers, RequestFlow(r) PROVE QueueInvFor(dests)'
  <2> DEFINE scanned == ScanExpired(control)
  <2>1. Queued(scanned, txFlows, created, dests) /\ r \in Addrs
    BY <1>a, <1>b, ScanExpiredQueues DEF Addrs
  <2>2. CASE control' = scanned /\ UNCHANGED <<created, expired, txFlows>>
    BY <1>a, <1>b, <2>1, <2>2 DEF QueueInvFor
  <2>3. CASE /\ created < MaxRequested
             /\ \E i \in VacantIndices(scanned) :
                    control' = InsertFlow(scanned, i, [id |-> created + 1, remote |-> r])
             /\ created' = created + 1 /\ UNCHANGED <<expired, txFlows>>
    <3>1. Queued(control', txFlows, next, dests)
      BY <1>a, <2>1, <2>3, InsertFlowQueues
    <3>2. next \in 0..MaxFlows
      BY <1>a, <2>3
    <3>3. QED
      BY <1>a, <1>b, <2>3, <3>1, <3>2 DEF QueueInvFor
  <2>4. QED
    BY <1>1, <2>2, <2>3 DEF RequestFlow
<1>2. ASSUME NEW r \in Receivers, RequestFlowAgain(r) PROVE QueueInvFor(dests)'
  <2>1. r \in dests /\ control.ipPortToId[r] # NoIndex
    BY <1>2 DEF RequestFlowAgain
  <2>2. Queued(control', txFlows, created, dests)
    BY <1>2, <1>a, <1>b, <1>c, <2>1, SetExistingQueues DEF RequestFlowAgain
  <2>3. QED
    BY <1>2, <1>a, <1>b, <2>2 DEF RequestFlowAgain, QueueInvFor
<1>3. ASSUME NEW i \in Indices, UpdateFlow(i) PROVE QueueInvFor(dests)'
  BY <1>3, <1>a, <1>b, <1>c, SetChannelsQueues DEF UpdateFlow, QueueInvFor
<1>4. ASSUME NEW i \in Indices, StopFlow(i) PROVE QueueInvFor(dests)'
  BY <1>4, <1>a, <1>b, RemoveFlowsQueues DEF StopFlow, QueueInvFor
<1>5. ASSUME NEW i \in Indices, NEW a \in MulticastAddrs, AddMulticastFlow(i, a),
             a \in dests \/ a \in RandomDestination(control)
      PROVE  QueueInvFor(dests)'
  <2>1. Queued(control', txFlows, next, dests)
    BY <1>5, <1>a, <1>b, <1>c, AddMulticastQueues DEF AddMulticastFlow, RandomDestination
  <2>2. AddMulticastFlag(control, i, [id |-> created + 1, remote |-> a]) \subseteq 1..next
    BY <1>a DEF AddMulticastFlag
  <2>3. QED
    BY <1>5, <1>a, <1>b, <2>1, <2>2 DEF AddMulticastFlow, QueueInvFor
<1>6. ASSUME NEW i \in Indices, NEW a \in MulticastAddrs, ReplaceMulticastFlow(i, a)
      PROVE  QueueInvFor(dests)'
  <2> DEFINE removed == RemoveMulticast(control, i)
  <2>1. Queued(removed, txFlows, created, dests) /\ TablesInv(removed)
    BY <1>a, <1>b, <1>c, RemoveMulticastQueues, RemoveMulticastKeeps
  <2>2. Queued(control', txFlows, next, dests)
    BY <1>6, <1>a, <2>1, AddMulticastQueues DEF ReplaceMulticastFlow, RandomDestination
  <2>3. AddMulticastFlag(removed, i, [id |-> created + 1, remote |-> a]) \subseteq 1..next
    BY <1>a DEF AddMulticastFlag
  <2>4. QED
    BY <1>6, <1>a, <1>b, <2>2, <2>3 DEF ReplaceMulticastFlow, QueueInvFor
<1>7. ASSUME NEW i \in Indices, RemoveMulticastFlow(i) PROVE QueueInvFor(dests)'
  BY <1>7, <1>a, <1>b, RemoveMulticastQueues DEF RemoveMulticastFlow, QueueInvFor
<1>8. ASSUME NEW i \in Indices, ActivateMulticastFlow(i) PROVE QueueInvFor(dests)'
  BY <1>8, <1>b DEF ActivateMulticastFlow, QueueInvFor
<1>9. CASE ResetFlows
  <2>1. 0 \in 0..MaxFlows
    BY <1>a
  <2>2. QED
    BY <1>9, <2>1, NoFlowsQueued DEF ResetFlows, QueueInvFor
<1>10. CASE ExecuteAdd \/ ExecuteRemove \/ ExecuteSetChannels
  <2> DEFINE head == NextCommand
  <2>1. /\ control.commands # << >>
        /\ control' = [control EXCEPT !.commands = Tail(@)]
        /\ created' = created /\ expired' \subseteq expired
    BY <1>10 DEF ExecuteAdd, ExecuteRemove, ExecuteSetChannels, Consume
  <2>2. txFlows' = IF head.op = "SetChannels" THEN txFlows
                   ELSE [txFlows EXCEPT ![head.index] = head.flow]
    BY <1>10, <2>1, FirstCommand DEF ExecuteAdd, ExecuteRemove, ExecuteSetChannels
  <2>3. Queued(control', txFlows', created, dests)
    BY <1>a, <1>b, <1>c, <2>1, <2>2, ConsumeQueues DEF NextCommand
  <2>4. QED
    BY <1>a, <1>b, <2>1, <2>3 DEF QueueInvFor
<1>11. ASSUME NEW i \in Indices, Expire(i) PROVE QueueInvFor(dests)'
  <2>1. txFlows[i] \in FlowsUpTo(created)
    BY <1>b DEF Queued, QueueTypeOK
  <2>2. txFlows[i] # NoFlow
    BY <1>11, AddrsAssumption DEF Expire, NoFlow, Addrs
  <2>3. txFlows[i].id \in 1..created
    BY <2>1, <2>2 DEF FlowsUpTo
  <2>4. QED
    BY <1>11, <1>b, <2>3 DEF Expire, QueueInvFor
<1>12. CASE AddMulticastUnbound(control)
  BY <1>12, <1>a, <1>b, ScanExpiredQueues DEF AddMulticastUnbound, QueueInvFor
<1>13. ASSUME NEW i \in Indices, AddMulticastUnbound(RemoveMulticast(control, i))
       PROVE  QueueInvFor(dests)'
  BY <1>13, <1>a, <1>b, ScanExpiredQueues, RemoveMulticastQueues
  DEF AddMulticastUnbound, QueueInvFor
<1>14. CASE UNCHANGED flowsVars
  BY <1>14, <1>b DEF flowsVars, QueueInvFor
<1>15. QED
  BY <1>1, <1>2, <1>3, <1>4, <1>5, <1>6, <1>7, <1>8, <1>9, <1>10, <1>11, <1>12, <1>13, <1>14
  DEF NextWithin, TxThread, FlowsControlServer

\* The two invariants of the transmitter, and that it keeps them.
TransmitterInv == FlowsInv /\ QueueInv

LEMMA TransmitterInvInit == FlowsInit => TransmitterInv
  BY FlowsInvInit, QueueInvInit DEF TransmitterInv, QueueInv

LEMMA TransmitterInvNext == TransmitterInv /\ [FlowsNext]_flowsVars => TransmitterInv'
<1>1. Receivers \subseteq Addrs /\ Addrs \in SUBSET Addrs
  BY DEF Addrs
<1>2. FlowsInv /\ QueueInvFor(Addrs) /\ [NextWithin(Addrs)]_flowsVars => QueueInvFor(Addrs)'
  BY <1>1, QueueInvNext
<1>3. QED
  BY <1>2, FlowsInvNext, WithinAddrs DEF TransmitterInv, QueueInv

-----------------------------------------------------------------------------
\* What the properties of the model say, from the two invariants.
LEMMA QueueProperties == TransmitterInv => CommandsApply /\ ThreadCatchesUp /\ FlowsTypeOK
<1> SUFFICES ASSUME FlowsInv, QueueInv PROVE CommandsApply /\ ThreadCatchesUp /\ FlowsTypeOK
  BY DEF TransmitterInv
<1>1. /\ QueueTypeOK(control, txFlows, created) /\ QueueMatches(control, txFlows, Addrs)
      /\ created \in 0..MaxFlows /\ expired \subseteq 1..created
  BY DEF QueueInv, QueueInvFor, Queued
<1>2. control.commands \in Seq(CommandsUpTo(created)) /\ Len(control.commands) \in Nat
      /\ DOMAIN control.commands = 1..Len(control.commands)
  BY <1>1 DEF QueueTypeOK
<1>3. CommandsApply
  <2> SUFFICES ASSUME NEW k \in DOMAIN control.commands
               PROVE  LET command == control.commands[k]
                      IN  /\ command.op = "AddFlow" => SlotAfter(command.index, k - 1) = NoFlow
                          /\ command.op = "SetChannels" => SlotAfter(command.index, k - 1) # NoFlow
    BY DEF CommandsApply
  <2> DEFINE command == control.commands[k]
  <2>1. k \in 1..Len(control.commands) /\ k - 1 \in Nat
    BY <1>2
  <2>2. Applies(control.commands, txFlows, k, Addrs)
    BY <1>1, <2>1 DEF QueueMatches
  <2>3. ASSUME command.op = "AddFlow" PROVE SlotAfter(command.index, k - 1) = NoFlow
    BY <2>1, <2>2, <2>3, SlotAfterIs DEF Applies
  <2>4. ASSUME command.op = "SetChannels" PROVE SlotAfter(command.index, k - 1) # NoFlow
    <3>1. PICK flow \in Flow :
              flow.remote \in Addrs
              /\ SlotIs(control.commands, txFlows, command.index, k - 1, flow)
      BY <2>2, <2>4 DEF Applies
    <3>2. SlotAfter(command.index, k - 1) = flow
      BY <2>1, <3>1, SlotAfterIs
    <3>3. flow # NoFlow
      BY <3>1, NoAddrIsNoAddr DEF NoFlow
    <3>4. QED
      BY <3>2, <3>3
  <2>5. QED
    BY <2>3, <2>4
<1>4. ThreadCatchesUp
  BY <1>1, <1>2, SlotAfterIs DEF ThreadCatchesUp, QueueMatches
<1>5. FlowsTypeOK
  <2>1. created \in Nat /\ MaxFlows \in Nat /\ 1..created \subseteq 1..MaxFlows
    BY <1>1, BoundsAssumption
  <2>2. FlowsUpTo(created) \subseteq Flow \cup {NoFlow}
    BY <2>1 DEF FlowsUpTo, Flow
  <2>3. CommandsUpTo(created) \subseteq Command
    BY <2>2 DEF CommandsUpTo, Command
  <2>4. control.commands \in Seq(Command)
    BY <1>2, <2>3
  <2>5. /\ control.flows \in [Indices -> Flow \cup {NoFlow}]
        /\ txFlows \in [Indices -> Flow \cup {NoFlow}]
    BY <1>1, <2>2 DEF QueueTypeOK
  <2>6. QED
    BY <1>1, <2>4, <2>5 DEF FlowsTypeOK, FlowsInv, TablesInv, TablesTypeOK
<1>6. QED
  BY <1>3, <1>4, <1>5

\* AddFlow always finds the slot vacant (the debug_assert of the TX thread) and
\* SetChannels always finds a flow (its unwrap), however many commands are on
\* their way and whatever they free and give away again.
THEOREM CommandsAlwaysApply == FlowsSpec => []CommandsApply
<1>1. TransmitterInv => CommandsApply
  BY QueueProperties
<1>2. QED
  BY <1>1, TransmitterInvInit, TransmitterInvNext, PTL DEF FlowsSpec

\* When the commands on their way are executed the TX thread has exactly the
\* flows that the control side believes in.
THEOREM ThreadAgrees == FlowsSpec => []ThreadCatchesUp
<1>1. TransmitterInv => ThreadCatchesUp
  BY QueueProperties
<1>2. QED
  BY <1>1, TransmitterInvInit, TransmitterInvNext, PTL DEF FlowsSpec

\* The tables, the commands and the flags have their types.
THEOREM FlowsTypes == FlowsSpec => []FlowsTypeOK
<1>1. TransmitterInv => FlowsTypeOK
  BY QueueProperties
<1>2. QED
  BY <1>1, TransmitterInvInit, TransmitterInvNext, PTL DEF FlowsSpec

-----------------------------------------------------------------------------
(* The bundles *)

\* A task that was started knows its index and the address it tries.
TasksStarted ==
    \A b \in Bundle : task[b] = NoTask \/ /\ task[b].pc # "none"
                                           /\ task[b].index \in Indices
                                           /\ task[b].addr \in MulticastAddrs

\* The bundles listed are those of this transmitter, each at the index its
\* task was given.
BundlesOwned ==
    /\ \A i \in Indices : bundles[i] # NoBundle =>
           /\ task[bundles[i]] # NoTask
           /\ task[bundles[i]].index = i
           /\ bundles[i] \notin aborted
    /\ \A b \in aborted : task[b] # NoTask

\* The bundles listed, and those still to be loaded, carry channels; all are
\* loaded when the server takes requests or is stopped.
ListsOK ==
    /\ \A i \in Indices :
           /\ bundles[i] # NoBundle => channelsOf[bundles[i]] # {}
           /\ toLoad[i] # NotSaved => toLoad[i].channels # {}
           /\ saved[i] # NotSaved => saved[i].channels # {}
    /\ server \in {"idle", "stopped"} => \A i \in Indices : toLoad[i] = NotSaved

\* The request that was found possible.
RequestOK ==
    request.pc = "checked" => request.index \in Indices /\ request.channels # {}

\* The task has yet to decide about the flow at its index.
Pending(b) == task[b].pc \in {"spawn", "query", "queryAgain", "decide"}

\* No query has found its address in use since it was reserved.
Checked(b) ==
    task[b].pc \in {"queryAgain", "done"} \/ (task[b].pc = "decide" /\ task[b].ok)

\* The bundle at index i has a flow to the address its task tries, flagged as
\* expired until the task has advertised it; from its reservation on the
\* address is this device's.
Owns(i) ==
    LET b == bundles[i]
        flow == control.flows[i]
    IN  bundles[i] # NoBundle =>
            /\ flow.remote = task[b].addr
            /\ Pending(b) => flow.id \in expired /\ dstAddr[b] = NoAddr
            /\ ~Pending(b) => flow.id \notin expired /\ dstAddr[b] = task[b].addr
            /\ Checked(b) => task[b].addr \in reserved

\* The multicast flows are those of the bundles.  A task that is pending and
\* was not aborted still has its bundle.
FlowsOwned ==
    /\ \A i \in Indices : Owns(i)
    /\ \A i \in Indices : control.flows[i].remote \in MulticastAddrs => bundles[i] # NoBundle
    /\ \A b \in Bundle : Pending(b) /\ b \notin aborted => bundles[task[b].index] = b
    /\ \A b \in Bundle : task[b] = NoTask => dstAddr[b] = NoAddr

\* What is advertised at an index is the address of the bundle there.
AdvertisedOwned ==
    \A i \in Indices : advertised[i] # NoAddr =>
        bundles[i] # NoBundle /\ dstAddr[bundles[i]] = advertised[i]

\* No receiver has a flow at an index that a bundle is about to get, because
\* the bundles are being loaded or because the index was found free for one.
AwaitsBundle(i) == ~Loaded \/ (request.pc = "checked" /\ request.index = i)

IndicesVacant ==
    \A i \in Indices : AwaitsBundle(i) => control.flows[i].remote \notin Receivers

BundlesInv == BundlesTypeOK /\ TasksStarted /\ BundlesOwned /\ ListsOK /\ RequestOK

MulticastsInv == TransmitterInv /\ BundlesInv

-----------------------------------------------------------------------------
(* The steps as the transmitter sees them *)

LEMMA StepsOfTransmitter ==
    ASSUME TasksStarted, RequestOK, [Next]_vars
    PROVE  /\ FlowsNext \/ UNCHANGED flowsVars
           /\ "usedAddress" \notin Races => NextWithin(Receivers) \/ UNCHANGED flowsVars
<1> DEFINE Goal == /\ FlowsNext \/ UNCHANGED flowsVars
                   /\ "usedAddress" \notin Races
                          => NextWithin(Receivers) \/ UNCHANGED flowsVars
<1>1. ASSUME NEW i \in Indices, NEW channels, NEW a \in MulticastAddrs,
             a \in RandomDestination(control) \/ "usedAddress" \in Races,
             AddBundle(i, channels, a)
      PROVE  Goal
  <2>1. (AddMulticastFlow(i, a) \/ AddMulticastUnbound(control)) /\ Fits
    BY <1>1 DEF AddBundle
  <2>2. QED
    BY <1>1, <2>1 DEF FlowsNext, Bundles, NextWithin
<1>2. ASSUME AddChecked PROVE Goal
  BY <1>1, <1>2 DEF AddChecked, RequestOK, RandomDestination
<1>3. ASSUME NEW i \in Indices, LoadNext(i) PROVE Goal
  BY <1>1, <1>3 DEF LoadNext
<1>4. ASSUME NEW i \in Indices, DeleteMulticast(i) PROVE Goal
  BY <1>4 DEF DeleteMulticast, FlowsNext, Bundles, NextWithin
<1>5. CASE LoadEnds \/ Save \/ Start
  BY <1>5 DEF LoadEnds, Save, Start
<1>6. CASE Stop \/ Crash
  BY <1>6 DEF Stop, Crash, FlowsNext, NextWithin
<1>7. ASSUME NEW b \in Bundle, FirstQuery(b) \/ SecondQuery(b) \/ Abort(b)
      PROVE  UNCHANGED flowsVars
  BY <1>7 DEF FirstQuery, SecondQuery, Abort
<1>8. ASSUME NEW b \in Bundle, Activate(b) \/ Retry(b) PROVE Goal
  <2>1. task[b].index \in Indices
    <3>1. task[b].pc = "decide"
      BY <1>8 DEF Activate, Retry
    <3>2. NoTask.pc = "none"
      BY DEF NoTask
    <3>3. QED
      BY <3>1, <3>2 DEF TasksStarted
  <2>2. CASE Activate(b)
    <3>1. Unlocked /\ (ActivateMulticastFlow(task[b].index) \/ UNCHANGED flowsVars)
      BY <2>2 DEF Activate
    <3>2. QED
      BY <2>1, <3>1 DEF FlowsNext, Bundles, NextWithin
  <2>3. CASE Retry(b)
    <3>1. PICK a \in MulticastAddrs :
              /\ \/ ReplaceMulticastFlow(task[b].index, a)
                 \/ AddMulticastUnbound(RemoveMulticast(control, task[b].index))
              /\ Fits
      BY <2>3 DEF Retry
    <3>2. QED
      BY <2>1, <3>1 DEF FlowsNext, Bundles, NextWithin
  <2>4. QED
    BY <1>8, <2>2, <2>3
<1>9. CASE OtherUsers
  BY <1>9 DEF OtherUsers, FlowsNext, NextWithin
<1>10. CASE UNCHANGED vars
  BY <1>10 DEF vars
<1>11. ASSUME NEW i \in Indices, NEW channels, CreateMulticast(i, channels)
       PROVE  UNCHANGED flowsVars
  BY <1>11 DEF CreateMulticast
<1>12. CASE AddRefused \/ AddPanics
  BY <1>12 DEF AddRefused, AddPanics
<1>13. QED
  BY <1>2, <1>3, <1>4, <1>5, <1>6, <1>7, <1>8, <1>9, <1>10, <1>11, <1>12 DEF Next, BundleTask

LEMMA StepsOfFlows == TasksStarted /\ RequestOK /\ [Next]_vars => [FlowsNext]_flowsVars
  BY StepsOfTransmitter

-----------------------------------------------------------------------------
(* Types and ownership *)

TaskState == [pc : {"none", "spawn", "query", "queryAgain", "decide", "done"},
              index : Indices \cup {NoIndex},
              addr : MulticastAddrs \cup {NoAddr}, ok : BOOLEAN]

\* A task at another point of its program, or with another result.
LEMMA TaskStateAt ==
    ASSUME NEW t \in TaskState, NEW pc \in {"spawn", "query", "queryAgain", "decide", "done"}
    PROVE  LET s == [t EXCEPT !.pc = pc]
           IN  s \in TaskState /\ s.pc = pc /\ s.index = t.index /\ s.addr = t.addr
               /\ s.ok = t.ok
<1>1. t = [pc |-> t.pc, index |-> t.index, addr |-> t.addr, ok |-> t.ok]
  BY DEF TaskState
<1>2. [t EXCEPT !.pc = pc] = [pc |-> pc, index |-> t.index, addr |-> t.addr, ok |-> t.ok]
  BY <1>1
<1>3. QED
  BY <1>2 DEF TaskState

LEMMA TaskStateFailed ==
    ASSUME NEW t \in TaskState
    PROVE  LET s == [t EXCEPT !.pc = "decide", !.ok = FALSE]
           IN  s \in TaskState /\ s.pc = "decide" /\ s.index = t.index /\ s.addr = t.addr
               /\ s.ok = FALSE
<1> DEFINE u == [t EXCEPT !.pc = "decide"]
           s == [pc |-> "decide", index |-> t.index, addr |-> t.addr, ok |-> FALSE]
<1>1. u = [pc |-> "decide", index |-> t.index, addr |-> t.addr, ok |-> t.ok]
  BY DEF TaskState
<1> HIDE DEF u
<1>2. \A ok : [u EXCEPT !.ok = ok]
                = [pc |-> "decide", index |-> t.index, addr |-> t.addr, ok |-> ok]
  BY <1>1
<1>3. [t EXCEPT !.pc = "decide", !.ok = FALSE] = [u EXCEPT !.ok = FALSE]
  BY DEF u
<1>4. s \in TaskState
  BY DEF TaskState
<1>5. QED
  BY <1>2, <1>3, <1>4

LEMMA TaskStateRetried ==
    ASSUME NEW t \in TaskState, NEW a \in MulticastAddrs
    PROVE  LET s == [t EXCEPT !.pc = "query", !.addr = a, !.ok = TRUE]
           IN  s \in TaskState /\ s.pc = "query" /\ s.index = t.index /\ s.addr = a
               /\ s.ok = TRUE
<1> DEFINE u == [t EXCEPT !.pc = "query"]
           v == [u EXCEPT !.addr = a]
           s == [pc |-> "query", index |-> t.index, addr |-> a, ok |-> TRUE]
<1>1. u = [pc |-> "query", index |-> t.index, addr |-> t.addr, ok |-> t.ok]
  BY DEF TaskState
<1>2. [t EXCEPT !.pc = "query", !.addr = a, !.ok = TRUE] = [v EXCEPT !.ok = TRUE]
  OBVIOUS
<1> HIDE DEF u
<1>3. v = [pc |-> "query", index |-> t.index, addr |-> a, ok |-> t.ok]
  BY <1>1
<1> HIDE DEF v
<1>4. \A ok : [v EXCEPT !.ok = ok]
                = [pc |-> "query", index |-> t.index, addr |-> a, ok |-> ok]
  BY <1>3
<1>5. s \in TaskState
  BY DEF TaskState
<1>6. QED
  BY <1>2, <1>4, <1>5

\* What a step of the task of bundle b does to the tasks: only this one moves,
\* to the point pc, and it keeps its index.
Moves(b, pc) ==
    /\ task' = [task EXCEPT ![b] = task'[b]]
    /\ task'[b] \in TaskState /\ task'[b].pc = pc
    /\ task'[b].index = task[b].index /\ task'[b].addr \in MulticastAddrs

LEMMA BundleTasksMove ==
    ASSUME BundlesTypeOK, TasksStarted, NEW b \in Bundle, BundleTask(b)
    PROVE  /\ task[b] # NoTask
           /\ \E pc \in {"query", "queryAgain", "decide", "done"} : Moves(b, pc)
           /\ UNCHANGED <<bundles, channelsOf, server, request, toLoad, aborted, saved>>
<1>1. task \in [Bundle -> TaskState]
  BY DEF BundlesTypeOK, TaskState
<1>2. task[b].pc # "none"
  BY DEF BundleTask, FirstQuery, SecondQuery, Abort, Activate, Retry
<1>3. task[b] # NoTask
  BY <1>2 DEF NoTask
<1>4. task[b] \in TaskState /\ task[b].addr \in MulticastAddrs
  BY <1>1, <1>3 DEF TasksStarted
<1>5. UNCHANGED <<bundles, channelsOf, server, request, toLoad, aborted, saved>>
  BY DEF BundleTask, FirstQuery, SecondQuery, Abort, Activate, Retry, bundleVars, mdnsVars,
         serverVars
<1>6. ASSUME NEW pc \in {"spawn", "query", "queryAgain", "decide", "done"},
             task' = [task EXCEPT ![b] = [task[b] EXCEPT !.pc = pc]]
      PROVE  Moves(b, pc)
  <2> DEFINE rec == [task[b] EXCEPT !.pc = pc]
  <2>1. rec \in TaskState /\ rec.pc = pc /\ rec.index = task[b].index
        /\ rec.addr = task[b].addr
    BY <1>4, TaskStateAt
  <2> HIDE DEF rec
  <2>2. task' = [task EXCEPT ![b] = rec]
    BY <1>6 DEF rec
  <2>3. task'[b] = rec
    BY <1>1, <2>2
  <2>4. QED
    BY <1>4, <2>1, <2>2, <2>3 DEF Moves
<1>7. ASSUME task' = [task EXCEPT ![b] = [task[b] EXCEPT !.pc = "decide", !.ok = FALSE]]
      PROVE  Moves(b, "decide")
  <2> DEFINE rec == [task[b] EXCEPT !.pc = "decide", !.ok = FALSE]
  <2>1. rec \in TaskState /\ rec.pc = "decide" /\ rec.index = task[b].index
        /\ rec.addr = task[b].addr
    BY <1>4, TaskStateFailed
  <2> HIDE DEF rec
  <2>2. task' = [task EXCEPT ![b] = rec]
    BY <1>7 DEF rec
  <2>3. task'[b] = rec
    BY <1>1, <2>2
  <2>4. QED
    BY <1>4, <2>1, <2>2, <2>3 DEF Moves
<1>8. ASSUME NEW a \in MulticastAddrs,
             task' = [task EXCEPT ![b] =
                        [task[b] EXCEPT !.pc = "query", !.addr = a, !.ok = TRUE]]
      PROVE  Moves(b, "query")
  <2> DEFINE rec == [task[b] EXCEPT !.pc = "query", !.addr = a, !.ok = TRUE]
  <2>1. rec \in TaskState /\ rec.pc = "query" /\ rec.index = task[b].index /\ rec.addr = a
    BY <1>4, TaskStateRetried
  <2> HIDE DEF rec
  <2>2. task' = [task EXCEPT ![b] = rec]
    BY <1>8 DEF rec
  <2>3. task'[b] = rec
    BY <1>1, <2>2
  <2>4. QED
    BY <2>1, <2>2, <2>3 DEF Moves
<1>9. \E pc \in {"query", "queryAgain", "decide", "done"} : Moves(b, pc)
  <2>1. CASE FirstQuery(b)
    BY <2>1, <1>6, <1>7 DEF FirstQuery
  <2>2. CASE SecondQuery(b)
    BY <2>2, <1>6, <1>7 DEF SecondQuery
  <2>3. CASE Abort(b) \/ Activate(b)
    <3>1. Done(b)
      BY <2>3 DEF Abort, Activate
    <3>2. QED
      BY <3>1, <1>6 DEF Done
  <2>4. CASE Retry(b)
    BY <2>4, <1>8 DEF Retry
  <2>5. QED
    BY <2>1, <2>2, <2>3, <2>4 DEF BundleTask
<1>10. QED
  BY <1>3, <1>5, <1>9

\* A bundle added at a vacant index, whether by a request or by load_state.
LEMMA AddBundleOwns ==
    ASSUME BundlesInv, NEW i \in Indices, NEW channels \in SUBSET Channels, channels # {},
           NEW a \in MulticastAddrs, AddBundle(i, channels, a), UNCHANGED toLoad,
           request' \in {NoRequest, request}
    PROVE  BundlesInv'
<1>1. PICK b \in Bundle :
          /\ task[b] = NoTask /\ bundles[i] = NoBundle
          /\ bundles' = [bundles EXCEPT ![i] = b]
          /\ channelsOf' = [channelsOf EXCEPT ![b] = channels]
          /\ task' = [task EXCEPT ![b] =
                 [pc |-> "spawn", index |-> i, addr |-> a, ok |-> TRUE]]
          /\ server' = "saving"
          /\ UNCHANGED <<dstAddr, mdnsVars, conflicts, aborted, saved>>
  BY DEF AddBundle
<1> DEFINE rec == [pc |-> "spawn", index |-> i, addr |-> a, ok |-> TRUE]
<1>2. rec \in TaskState
  BY DEF TaskState
<1>3. /\ rec.pc = "spawn" /\ rec.index = i /\ rec.addr = a
  OBVIOUS
<1> HIDE DEF rec
<1>4. task' = [task EXCEPT ![b] = rec]
  BY <1>1 DEF rec
<1>5. task \in [Bundle -> TaskState] /\ BundlesTypeOK
  BY DEF BundlesInv, BundlesTypeOK, TaskState
<1>6. task' \in [Bundle -> TaskState]
  BY <1>2, <1>4, <1>5
<1>7. BundlesTypeOK'
  <2>1. /\ bundles' \in [Indices -> Bundle \cup {NoBundle}]
        /\ channelsOf' \in [Bundle -> SUBSET Channels]
    BY <1>1, <1>5 DEF BundlesTypeOK
  <2>2. /\ server' \in {"idle", "saving", "loading", "stopped"}
    BY <1>1
  <2>3. UNCHANGED <<dstAddr, conflicts, toLoad, saved, aborted, mcasts, advertised, reserved>>
    BY <1>1 DEF mdnsVars
  <2>4. request' \in [pc : {"none", "checked", "dead"}, index : Indices \cup {NoIndex},
                      channels : SUBSET Channels]
    BY <1>5 DEF BundlesTypeOK, NoRequest
  <2>5. QED
    BY <1>5, <1>6, <2>1, <2>2, <2>3, <2>4 DEF BundlesTypeOK, TaskState
<1>8. rec # NoTask
  BY <1>3 DEF NoTask
<1>9. \A x \in Bundle : task'[x] = IF x = b THEN rec ELSE task[x]
  BY <1>4, <1>5
<1>10. TasksStarted'
  BY <1>3, <1>9 DEF BundlesInv, TasksStarted
<1>11. \A j \in Indices : bundles'[j] = IF j = i THEN b ELSE bundles[j]
  BY <1>1, <1>5 DEF BundlesTypeOK
<1>12. \A j \in Indices : bundles[j] \in Bundle \cup {NoBundle} /\ bundles[j] # b
  <2>1. b # NoBundle
    BY DEF Bundle, NoBundle
  <2>2. QED
    BY <1>1, <1>5, <2>1 DEF BundlesInv, BundlesOwned, BundlesTypeOK
<1>13. BundlesOwned'
  <2>1. b \notin aborted /\ aborted \subseteq Bundle
    BY <1>1, <1>5 DEF BundlesInv, BundlesOwned, BundlesTypeOK
  <2>2. ASSUME NEW j \in Indices, bundles'[j] # NoBundle
        PROVE  /\ task'[bundles'[j]] # NoTask /\ task'[bundles'[j]].index = j
               /\ bundles'[j] \notin aborted
    <3>1. CASE j = i
      BY <1>3, <1>8, <1>9, <1>11, <2>1, <3>1
    <3>2. CASE j # i
      <4>1. bundles'[j] = bundles[j] /\ bundles[j] \in Bundle /\ bundles[j] # b
        BY <1>11, <1>12, <2>2, <3>2
      <4>2. task'[bundles[j]] = task[bundles[j]]
        BY <1>9, <4>1
      <4>3. QED
        BY <2>2, <4>1, <4>2 DEF BundlesInv, BundlesOwned
    <3>3. QED
      BY <3>1, <3>2
  <2>3. \A x \in aborted : task'[x] # NoTask
    BY <1>9, <2>1 DEF BundlesInv, BundlesOwned
  <2>4. aborted' = aborted
    BY <1>1
  <2>5. QED
    BY <2>2, <2>3, <2>4 DEF BundlesOwned
<1>14. ListsOK'
  <2>1. \A x \in Bundle : channelsOf'[x] = IF x = b THEN channels ELSE channelsOf[x]
    BY <1>1, <1>5 DEF BundlesTypeOK
  <2>2. ASSUME NEW j \in Indices, bundles'[j] # NoBundle
        PROVE  channelsOf'[bundles'[j]] # {}
    <3>1. bundles'[j] \in Bundle /\ (j # i => channelsOf[bundles[j]] # {})
      BY <2>2, <1>11, <1>12 DEF BundlesInv, ListsOK
    <3>2. QED
      BY <2>1, <3>1, <1>11, <1>12
  <2>3. server' \notin {"idle", "stopped"} /\ UNCHANGED <<toLoad, saved>>
    BY <1>1
  <2>4. QED
    BY <2>2, <2>3 DEF BundlesInv, ListsOK
<1>15. RequestOK'
  BY DEF BundlesInv, RequestOK, NoRequest
<1>16. QED
  BY <1>7, <1>10, <1>13, <1>14, <1>15 DEF BundlesInv

LEMMA BundlesInvInit == Init => BundlesInv
<1> SUFFICES ASSUME Init PROVE BundlesInv
  OBVIOUS
<1>1. NoTask \in TaskState
  BY DEF NoTask, TaskState
<1>2. task \in [Bundle -> TaskState]
  BY <1>1 DEF Init
<1>3. BundlesTypeOK
  <2>1. 0 \in 0..MaxConflicts
    BY BundlesAssumption
  <2>2. NotSaved \in [channels : SUBSET Channels, addr : MulticastAddrs \cup {NoAddr}]
    BY DEF NotSaved
  <2>3. QED
    BY <1>2, <2>1, <2>2 DEF Init, BundlesTypeOK, TaskState, NoRequest
<1>4. TasksStarted /\ BundlesOwned /\ ListsOK /\ RequestOK
  BY DEF Init, TasksStarted, BundlesOwned, ListsOK, RequestOK, NoRequest
<1>5. QED
  BY <1>3, <1>4 DEF BundlesInv

LEMMA BundlesInvNext == MulticastsInv /\ [Next]_vars => BundlesInv'
<1> SUFFICES ASSUME MulticastsInv, [Next]_vars PROVE BundlesInv'
  OBVIOUS
<1>a. BundlesTypeOK /\ TasksStarted /\ BundlesOwned /\ ListsOK /\ RequestOK /\ BundlesInv
  BY DEF MulticastsInv, BundlesInv
<1>b. task \in [Bundle -> TaskState]
  BY <1>a DEF BundlesTypeOK, TaskState
<1>1. ASSUME NEW i \in Indices, NEW channels \in SUBSET Channels, CreateMulticast(i, channels)
      PROVE  BundlesInv'
  <2>1. /\ request' = [pc |-> "checked", index |-> i, channels |-> channels]
        /\ channels # {}
        /\ UNCHANGED <<bundles, channelsOf, dstAddr, mcasts, advertised, reserved, task,
                       conflicts, server, toLoad, aborted, saved>>
    BY <1>1 DEF CreateMulticast, bundleVars, mdnsVars
  <2>2. BundlesTypeOK'
    BY <1>a, <2>1 DEF BundlesTypeOK
  <2>3. QED
    BY <1>a, <2>1, <2>2 DEF BundlesInv, TasksStarted, BundlesOwned, ListsOK, RequestOK
<1>2. ASSUME NEW i \in Indices, LoadNext(i) PROVE BundlesInv'
  <2>1. toLoad[i].channels \in SUBSET Channels /\ toLoad[i].channels # {}
    BY <1>2, <1>a DEF LoadNext, BundlesTypeOK, ListsOK
  <2>2. QED
    BY <1>2, <1>a, <2>1, AddBundleOwns DEF LoadNext
<1>3. CASE LoadEnds
  <2>1. BundlesTypeOK'
    BY <1>3, <1>a DEF LoadEnds, BundlesTypeOK, bundleVars, mdnsVars
  <2>2. QED
    BY <1>3, <1>a, <2>1
    DEF LoadEnds, BundlesInv, TasksStarted, BundlesOwned, ListsOK, RequestOK, bundleVars
<1>4. CASE Save
  <2>1. UNCHANGED <<bundles, channelsOf, dstAddr, mcasts, advertised, reserved, conflicts,
                    request, aborted>>
    BY <1>4 DEF Save, bundleVars, mdnsVars
  <2>2. \A b \in Bundle : [task[b] EXCEPT !.pc = "query"] \in TaskState
            /\ [task[b] EXCEPT !.pc = "query"].pc = "query"
            /\ [task[b] EXCEPT !.pc = "query"].index = task[b].index
            /\ [task[b] EXCEPT !.pc = "query"].addr = task[b].addr
    BY <1>b, TaskStateAt
  <2>3. /\ task' \in [Bundle -> TaskState]
        /\ \A b \in Bundle : task[b] # NoTask =>
               /\ task'[b] # NoTask /\ task'[b].pc # "none"
               /\ task'[b].index = task[b].index /\ task'[b].addr = task[b].addr
        /\ \A b \in Bundle : task[b] = NoTask => task'[b] = NoTask
    <3>1. task' = [b \in Bundle |-> IF task[b].pc = "spawn"
                                    THEN [task[b] EXCEPT !.pc = "query"] ELSE task[b]]
      BY <1>4 DEF Save
    <3>2. NoTask.pc = "none"
      BY DEF NoTask
    <3>3. QED
      BY <1>a, <1>b, <2>2, <3>1, <3>2 DEF TasksStarted
  <2>4. saved' = SavedBundles
        /\ toLoad' = [i \in Indices |-> IF bundles[i] = NoBundle THEN toLoad[i] ELSE NotSaved]
        /\ server' = IF \A i \in Indices : toLoad'[i] = NotSaved THEN "idle" ELSE "loading"
    BY <1>4 DEF Save
  <2>5. NotSaved \in [channels : SUBSET Channels, addr : MulticastAddrs \cup {NoAddr}]
    BY DEF NotSaved
  <2>6. SavedBundles \in [Indices -> [channels : SUBSET Channels, addr : MulticastAddrs \cup {NoAddr}]]
    BY <1>a, <2>5 DEF SavedBundles, BundlesTypeOK
  <2>7. BundlesTypeOK'
    <3>1. toLoad' \in [Indices -> [channels : SUBSET Channels, addr : MulticastAddrs \cup {NoAddr}]]
      BY <1>a, <2>4, <2>5 DEF BundlesTypeOK
    <3>2. QED
      BY <1>a, <2>1, <2>3, <2>4, <2>6, <3>1 DEF BundlesTypeOK, TaskState
  <2>8. TasksStarted' /\ BundlesOwned'
    BY <1>a, <2>1, <2>3 DEF TasksStarted, BundlesOwned, BundlesTypeOK
  <2>9. ListsOK'
    <3>1. \A i \in Indices : saved'[i] # NotSaved => saved'[i].channels # {}
      BY <1>a, <2>4 DEF SavedBundles, ListsOK
    <3>2. \A i \in Indices : toLoad'[i] # NotSaved => toLoad'[i].channels # {}
      BY <1>a, <2>4 DEF ListsOK
    <3>3. server' \in {"idle", "stopped"} => \A i \in Indices : toLoad'[i] = NotSaved
      BY <2>4
    <3>4. QED
      BY <1>a, <2>1, <3>1, <3>2, <3>3 DEF ListsOK
  <2>10. RequestOK'
    BY <1>a, <2>1 DEF RequestOK
  <2>11. QED
    BY <2>7, <2>8, <2>9, <2>10 DEF BundlesInv
<1>5. ASSUME NEW i \in Indices, DeleteMulticast(i) PROVE BundlesInv'
  <2>1. /\ server = "idle" /\ server' \in {"saving", "idle"}
        /\ bundles' = [bundles EXCEPT ![i] = NoBundle]
        /\ UNCHANGED <<channelsOf, dstAddr, task, conflicts, request, toLoad, aborted, saved>>
    BY <1>5 DEF DeleteMulticast
  <2>2. /\ advertised' \in [Indices -> MulticastAddrs \cup {NoAddr}]
        /\ reserved' \subseteq reserved
    BY <1>5, <1>a DEF DeleteMulticast, TakeBack, BundlesTypeOK
  <2>3. mcasts' \in [Channels -> Indices \cup {NoIndex}]
    BY <1>5, <1>a DEF DeleteMulticast, ForgetChannels, BundlesTypeOK
  <2>4. \A j \in Indices : bundles'[j] = IF j = i THEN NoBundle ELSE bundles[j]
    BY <1>a, <2>1 DEF BundlesTypeOK
  <2>5. BundlesTypeOK'
    BY <1>a, <2>1, <2>2, <2>3 DEF BundlesTypeOK
  <2>6. TasksStarted' /\ BundlesOwned' /\ ListsOK' /\ RequestOK'
    BY <1>a, <2>1, <2>4 DEF TasksStarted, BundlesOwned, ListsOK, RequestOK
  <2>7. QED
    BY <2>5, <2>6 DEF BundlesInv
<1>6. CASE Stop
  <2>1. /\ server = "idle" /\ server' = "stopped"
        /\ aborted' = {b \in Bundle : task[b] # NoTask}
        /\ bundles' = [i \in Indices |-> NoBundle]
        /\ UNCHANGED <<channelsOf, dstAddr, mcasts, advertised, reserved, task, conflicts,
                       request, toLoad, saved>>
    BY <1>6 DEF Stop, mdnsVars
  <2>2. BundlesTypeOK'
    BY <1>a, <2>1 DEF BundlesTypeOK
  <2>3. TasksStarted' /\ BundlesOwned' /\ ListsOK' /\ RequestOK'
    BY <1>a, <2>1 DEF TasksStarted, BundlesOwned, ListsOK, RequestOK
  <2>4. QED
    BY <2>2, <2>3 DEF BundlesInv
<1>7. CASE Crash
  <2>1. /\ server' = "stopped" /\ request' = NoRequest
        /\ aborted' = {}
        /\ bundles' = [i \in Indices |-> NoBundle]
        /\ channelsOf' = [b \in Bundle |-> {}]
        /\ dstAddr' = [b \in Bundle |-> NoAddr]
        /\ task' = [b \in Bundle |-> NoTask]
        /\ mcasts' = [c \in Channels |-> NoIndex]
        /\ advertised' = [i \in Indices |-> NoAddr]
        /\ reserved' = {}
        /\ toLoad' = [i \in Indices |-> NotSaved]
        /\ UNCHANGED <<conflicts, saved>>
    BY <1>7 DEF Crash
  <2>2. NoTask \in TaskState
    BY DEF NoTask, TaskState
  <2>3. task' \in [Bundle -> TaskState]
    BY <2>1, <2>2
  <2>4. NotSaved \in [channels : SUBSET Channels, addr : MulticastAddrs \cup {NoAddr}]
        /\ NoRequest \in [pc : {"none", "checked", "dead"}, index : Indices \cup {NoIndex},
                          channels : SUBSET Channels]
    BY DEF NotSaved, NoRequest
  <2>5. BundlesTypeOK'
    BY <1>a, <2>1, <2>3, <2>4 DEF BundlesTypeOK, TaskState
  <2>6. TasksStarted' /\ BundlesOwned' /\ ListsOK' /\ RequestOK'
    BY <1>a, <2>1 DEF TasksStarted, BundlesOwned, ListsOK, RequestOK, NoRequest
  <2>7. QED
    BY <2>5, <2>6 DEF BundlesInv
<1>8. CASE Start
  <2>1. /\ server' = "loading" /\ toLoad' = saved
        /\ UNCHANGED <<bundles, channelsOf, dstAddr, mcasts, advertised, reserved, task,
                       conflicts, request, aborted, saved>>
    BY <1>8 DEF Start, bundleVars, mdnsVars
  <2>2. BundlesTypeOK'
    BY <1>a, <2>1 DEF BundlesTypeOK
  <2>3. TasksStarted' /\ BundlesOwned' /\ ListsOK' /\ RequestOK'
    BY <1>a, <2>1 DEF TasksStarted, BundlesOwned, ListsOK, RequestOK
  <2>4. QED
    BY <2>2, <2>3 DEF BundlesInv
<1>9. ASSUME NEW b \in Bundle, BundleTask(b) PROVE BundlesInv'
  <2>1. PICK pc \in {"query", "queryAgain", "decide", "done"} : Moves(b, pc)
    BY <1>9, <1>a, BundleTasksMove
  <2>2. /\ task[b] # NoTask
        /\ UNCHANGED <<bundles, channelsOf, server, request, toLoad, aborted, saved>>
    BY <1>9, <1>a, BundleTasksMove
  <2>3. /\ task' \in [Bundle -> TaskState]
        /\ \A x \in Bundle : x # b => task'[x] = task[x]
        /\ task'[b].pc # "none" /\ task'[b] # NoTask
        /\ task'[b].index = task[b].index /\ task'[b].addr \in MulticastAddrs
    <3>1. NoTask.pc = "none"
      BY DEF NoTask
    <3>2. QED
      BY <1>b, <2>1, <3>1 DEF Moves
  <2>4. /\ task[b].index \in Indices
        /\ task[b].addr \in MulticastAddrs
    BY <1>a, <2>2 DEF TasksStarted
  <2>5. /\ dstAddr' \in [Bundle -> MulticastAddrs \cup {NoAddr}]
        /\ conflicts' \in 0..MaxConflicts
        /\ mcasts' \in [Channels -> Indices \cup {NoIndex}]
        /\ advertised' \in [Indices -> MulticastAddrs \cup {NoAddr}]
        /\ reserved' \subseteq MulticastAddrs
    <3>1. MaxConflicts \in Nat
      BY BundlesAssumption
    <3>2. CASE FirstQuery(b)
      BY <1>a, <2>4, <3>1, <3>2 DEF FirstQuery, BundlesTypeOK, bundleVars, Reservation
    <3>3. CASE SecondQuery(b)
      BY <1>a, <3>1, <3>3 DEF SecondQuery, BundlesTypeOK, bundleVars, mdnsVars
    <3>4. CASE Abort(b) \/ Retry(b)
      BY <1>a, <3>4 DEF Abort, Retry, BundlesTypeOK, bundleVars, mdnsVars
    <3>5. CASE Activate(b)
      <4>1. /\ dstAddr' = [dstAddr EXCEPT ![b] = task[b].addr]
            /\ mcasts' = [c \in Channels |-> IF c \in channelsOf[b] THEN task[b].index
                                             ELSE mcasts[c]]
            /\ advertised' = [advertised EXCEPT ![task[b].index] = task[b].addr]
            /\ UNCHANGED <<reserved, conflicts>>
        BY <3>5 DEF Activate
      <4>2. QED
        BY <1>a, <2>4, <4>1 DEF BundlesTypeOK
    <3>6. QED
      BY <1>9, <3>2, <3>3, <3>4, <3>5 DEF BundleTask
  <2>6. BundlesTypeOK'
    BY <1>a, <2>2, <2>3, <2>5 DEF BundlesTypeOK, TaskState
  <2>7. TasksStarted'
    BY <1>a, <2>3, <2>4 DEF TasksStarted
  <2>8. BundlesOwned'
    BY <1>a, <2>2, <2>3 DEF BundlesOwned, BundlesTypeOK
  <2>9. ListsOK' /\ RequestOK'
    BY <1>a, <2>2 DEF ListsOK, RequestOK
  <2>10. QED
    BY <2>6, <2>7, <2>8, <2>9 DEF BundlesInv
<1>10. CASE OtherUsers \/ UNCHANGED vars
  <2>1. UNCHANGED <<bundles, channelsOf, dstAddr, mcasts, advertised, reserved, task,
                    conflicts, server, request, toLoad, aborted, saved>>
    BY <1>10 DEF OtherUsers, vars, multicastVars, bundleVars, mdnsVars, serverVars
  <2>2. BundlesTypeOK'
    BY <1>a, <2>1 DEF BundlesTypeOK
  <2>3. QED
    BY <1>a, <2>1, <2>2 DEF BundlesInv, TasksStarted, BundlesOwned, ListsOK, RequestOK
<1>11. CASE AddChecked
  <2>1. /\ request.index \in Indices /\ request.channels # {}
        /\ request.channels \in SUBSET Channels
    BY <1>11, <1>a DEF AddChecked, RequestOK, BundlesTypeOK
  <2>2. QED
    BY <1>11, <1>a, <2>1, AddBundleOwns DEF AddChecked, RandomDestination
<1>12. CASE AddRefused \/ AddPanics
  <2>1. /\ request' \in {NoRequest, [NoRequest EXCEPT !.pc = "dead"]}
        /\ UNCHANGED <<bundles, channelsOf, dstAddr, mcasts, advertised, reserved, task,
                       conflicts, server, toLoad, aborted, saved>>
    BY <1>12 DEF AddRefused, AddPanics, bundleVars, mdnsVars
  <2>2. /\ request' \in [pc : {"none", "checked", "dead"}, index : Indices \cup {NoIndex},
                         channels : SUBSET Channels]
        /\ request'.pc # "checked"
    BY <2>1 DEF NoRequest
  <2>3. BundlesTypeOK'
    BY <1>a, <2>1, <2>2 DEF BundlesTypeOK
  <2>4. QED
    BY <1>a, <2>1, <2>2, <2>3 DEF BundlesInv, TasksStarted, BundlesOwned, ListsOK, RequestOK
<1>13. QED
  BY <1>1, <1>2, <1>3, <1>4, <1>5, <1>6, <1>7, <1>8, <1>9, <1>10, <1>11, <1>12 DEF Next

LEMMA MulticastsInvInit == Init => MulticastsInv
  BY TransmitterInvInit, BundlesInvInit DEF Init, MulticastsInv

LEMMA MulticastsInvNext == MulticastsInv /\ [Next]_vars => MulticastsInv'
<1>1. MulticastsInv => TasksStarted /\ RequestOK
  BY DEF MulticastsInv, BundlesInv
<1>2. QED
  BY <1>1, StepsOfFlows, TransmitterInvNext, BundlesInvNext DEF MulticastsInv

LEMMA MulticastsInvAlways == Spec => []MulticastsInv
  BY MulticastsInvInit, MulticastsInvNext, PTL DEF Spec

-----------------------------------------------------------------------------
\* Whatever the bundles do, the transmitter sees calls that FlowsTx has: what
\* is true of FlowsSpec is true of the transmitter among its bundles.
THEOREM BundlesUseFlows == Spec => FlowsSpec
<1>1. MulticastsInv => TasksStarted /\ RequestOK
  BY DEF MulticastsInv, BundlesInv
<1>2. Init => FlowsInit
  BY DEF Init
<1>3. QED
  BY <1>1, <1>2, MulticastsInvAlways, StepsOfFlows, PTL DEF Spec, FlowsSpec

\* The tables of the transmitter agree whatever its bundles do.
THEOREM TablesAgreeForBundles == Spec => []TablesAgree
  BY BundlesUseFlows, TablesAgreeAlways, PTL

\* The TX thread finds what its commands expect whatever the bundles do.
THEOREM CommandsApplyForBundles == Spec => []CommandsApply
  BY BundlesUseFlows, CommandsAlwaysApply, PTL

\* All variables have their types.
THEOREM MulticastTypes == Spec => []TypeOK
<1>1. MulticastsInv => TypeOK
  BY QueueProperties DEF MulticastsInv, BundlesInv, TypeOK
<1>2. QED
  BY <1>1, MulticastsInvAlways, PTL

\* load_state brings back every bundle that is on the list, across any number
\* of stops, restarts and crashes between two requests: a crash while the list
\* is loaded or saved is what loses them.
THEOREM SavedSurvive ==
    ASSUME "crash" \notin Races
    PROVE  Spec => SavedBundlesSurvive
<1>1. ASSUME MulticastsInv, [Next]_vars, NEW i \in Indices, Listed(i), ~Listed(i)'
      PROVE  Save /\ bundles[i] = NoBundle
  <2> USE DEF Listed
  <2>1. CASE UNCHANGED <<toLoad, saved>>
    BY <1>1, <2>1
  <2>2. CASE Save
    <3>1. SavedBundles[i] = NotSaved
      BY <1>1, <2>2 DEF Save
    <3>2. ASSUME bundles[i] # NoBundle PROVE FALSE
      <4>1. SavedBundles[i].channels = channelsOf[bundles[i]]
        BY <3>2 DEF SavedBundles
      <4>2. channelsOf[bundles[i]] # {}
        BY <1>1, <3>2 DEF MulticastsInv, BundlesInv, ListsOK
      <4>3. QED
        BY <3>1, <4>1, <4>2 DEF NotSaved
    <3>3. QED
      BY <2>2, <3>2
  <2>3. CASE Start
    BY <1>1, <2>3 DEF Start, MulticastsInv, BundlesInv, ListsOK
  <2>4. CASE Crash
    <3>1. server = "idle"
      BY <2>4 DEF Crash
    <3>2. toLoad[i] = NotSaved
      BY <1>1, <3>1 DEF MulticastsInv, BundlesInv, ListsOK
    <3>3. QED
      BY <1>1, <2>4, <3>2 DEF Crash
  <2>5. CASE \E j \in Indices : LoadNext(j) \/ DeleteMulticast(j)
    BY <2>1, <2>5 DEF LoadNext, DeleteMulticast, AddBundle
  <2>6. CASE \/ \E j \in Indices, channels \in SUBSET Channels : CreateMulticast(j, channels)
             \/ AddChecked \/ AddRefused \/ AddPanics
    BY <2>1, <2>6 DEF CreateMulticast, AddChecked, AddRefused, AddPanics, AddBundle
  <2>7. CASE LoadEnds \/ Stop \/ OtherUsers \/ UNCHANGED vars
    BY <2>1, <2>7 DEF LoadEnds, Stop, OtherUsers, vars, multicastVars
  <2>8. CASE \E b \in Bundle : BundleTask(b)
    BY <1>1, <2>1, <2>8, BundleTasksMove DEF MulticastsInv, BundlesInv
  <2>9. QED
    BY <1>1, <2>2, <2>3, <2>4, <2>5, <2>6, <2>7, <2>8 DEF Next
<1>2. MulticastsInv /\ [Next]_vars
          => [\A i \in Indices : Listed(i) /\ ~Listed(i)' => Save /\ bundles[i] = NoBundle]_vars
  BY <1>1
<1>3. QED
  BY <1>2, MulticastsInvAlways, PTL DEF Spec, SavedBundlesSurvive

-----------------------------------------------------------------------------
(* What the calls of the transmitter do to the multicast flows *)

\* The multicast flow at index i, if there is one before or after, is the same.
Keeps(c, d, i) ==
    c.flows[i].remote \in MulticastAddrs \/ d.flows[i].remote \in MulticastAddrs
        => d.flows[i] = c.flows[i]

LEMMA ReceiversAreUnicast ==
    /\ \A r \in Receivers : r \notin MulticastAddrs
    /\ NoAddr \notin MulticastAddrs /\ NoAddr \notin Receivers
    /\ NoFlow.remote = NoAddr
  BY AddrsAssumption DEF Addrs, NoFlow

LEMMA RemoveFlowsAt ==
    ASSUME NEW c, NEW gone \in SUBSET Indices, NEW i \in Indices
    PROVE  RemoveFlows(c, gone).flows[i] = IF i \in gone THEN NoFlow ELSE c.flows[i]
  BY DEF RemoveFlows

\* Scanning removes flows of receivers only.
LEMMA ScanKeeps ==
    ASSUME NEW c, TablesInv(c), NEW i \in Indices
    PROVE  /\ Keeps(c, ScanExpired(c), i)
           /\ ScanExpired(c).flows[i] \in {c.flows[i], NoFlow}
           /\ c.flows[i].remote \in MulticastAddrs => ScanExpired(c).flows[i] = c.flows[i]
<1>1. ScanExpired(c).flows[i] = IF i \in ExpiredIndices(c) THEN NoFlow ELSE c.flows[i]
  BY RemoveFlowsAt DEF ScanExpired, ExpiredIndices
<1>2. c.flows[i].remote \in MulticastAddrs => i \notin ExpiredIndices(c)
  BY DEF ExpiredIndices, IsMulticast, TablesInv, TablesMatch
<1>3. QED
  BY <1>1, <1>2, ReceiversAreUnicast DEF Keeps

\* A multicast flow to an unused address at a vacant index is added there, and
\* only there.
LEMMA AddMulticastAt ==
    ASSUME NEW c, TablesInv(c), NEW i \in Indices, c.flows[i] = NoFlow, NEW flow,
           c.ipPortToId[flow.remote] = NoIndex
    PROVE  /\ AddMulticast(c, i, flow).flows[i] = flow
           /\ AddMulticastFlag(c, i, flow) = {flow.id}
           /\ \A j \in Indices \ {i} :
                  /\ Keeps(c, AddMulticast(c, i, flow), j)
                  /\ AddMulticast(c, i, flow).flows[j] \in {c.flows[j], NoFlow}
<1> DEFINE scanned == ScanExpired(c)
<1>1. TablesInv(scanned)
  BY ScanExpiredKeeps
<1>2. scanned.flows[i] = NoFlow
  BY ScanKeeps
<1>3. i \in FreeIndices(scanned)
  BY <1>1, <1>2, ReceiversAreUnicast DEF FreeIndices, TablesInv, TablesMatch
<1>4. AddMulticast(c, i, flow) = InsertFlow(scanned, i, flow)
  BY <1>3 DEF AddMulticast
<1>5. AddMulticastFlag(c, i, flow) = {flow.id}
  BY <1>3 DEF AddMulticastFlag
<1>6. \A j \in Indices : Keeps(c, scanned, j) /\ scanned.flows[j] \in {c.flows[j], NoFlow}
  BY ScanKeeps
<1>7. DOMAIN scanned.flows = Indices
  BY <1>1 DEF TablesInv, TablesTypeOK
<1> HIDE DEF scanned
<1>8. InsertFlow(scanned, i, flow).flows = [scanned.flows EXCEPT ![i] = flow]
  BY DEF InsertFlow
<1>9. QED
  BY <1>4, <1>5, <1>6, <1>7, <1>8 DEF Keeps

LEMMA RemoveMulticastAt ==
    ASSUME NEW c, TablesInv(c), NEW i \in Indices, c.flows[i].remote \in MulticastAddrs
    PROVE  /\ RemoveMulticast(c, i).flows[i] = NoFlow
           /\ \A j \in Indices \ {i} : RemoveMulticast(c, i).flows[j] = c.flows[j]
<1>1. IsMulticast(c, i)
  BY DEF IsMulticast, TablesInv, TablesMatch
<1>2. QED
  BY <1>1, RemoveFlowsAt DEF RemoveMulticast

\* Two flows of the same number are the same flow.
LEMMA NumbersDiffer ==
    ASSUME MulticastsInv, NEW i \in Indices, control.flows[i].remote \in MulticastAddrs
    PROVE  /\ \A j \in Indices : control.flows[j].id = control.flows[i].id => j = i
           /\ \A j \in Indices : txFlows[j].remote \in Receivers
                                     => txFlows[j].id # control.flows[i].id
           /\ control.flows[i].id \in 0..created /\ created \in Nat
<1>1. Queued(control, txFlows, created, Addrs) /\ created \in Nat /\ expired \subseteq 1..created
  BY BoundsAssumption DEF MulticastsInv, TransmitterInv, QueueInv, QueueInvFor
<1>2. Distinct(Known(control, txFlows)) /\ QueueTypeOK(control, txFlows, created)
  BY <1>1 DEF Queued
<1>3. control.flows[i].remote \in Addrs
  BY DEF Addrs
<1>4. \A j \in Indices : control.flows[j] \in Known(control, txFlows)
                         /\ txFlows[j] \in Known(control, txFlows)
  BY DEF Known
<1>5. ASSUME NEW j \in Indices, control.flows[j].id = control.flows[i].id PROVE j = i
  <2>1. control.flows[j] = control.flows[i]
    BY <1>2, <1>4, <1>5 DEF Distinct
  <2>2. QED
    BY <1>3, <2>1 DEF MulticastsInv, TransmitterInv, FlowsInv, TablesInv, TablesMatch
<1>6. ASSUME NEW j \in Indices, txFlows[j].remote \in Receivers
      PROVE  txFlows[j].id # control.flows[i].id
  <2>1. txFlows[j] # control.flows[i]
    BY <1>6, ReceiversAreUnicast
  <2>2. QED
    BY <1>2, <1>4, <2>1 DEF Distinct
<1>7. control.flows[i].id \in 0..created
  BY <1>1, <1>2, <1>4, KnownIds
<1>8. QED
  BY <1>1, <1>5, <1>6, <1>7

\* Requests of receivers and the TX thread leave the multicast flows and their
\* flags alone.
LEMMA OtherUsersKeep ==
    ASSUME MulticastsInv, QueueInvFor(Receivers), TxThread \/ FlowsControlServer,
           NEW i \in Indices
    PROVE  /\ Keeps(control, control', i)
           /\ control.flows[i].remote \in MulticastAddrs =>
                  (control.flows[i].id \in expired' <=> control.flows[i].id \in expired)
<1> DEFINE Same == /\ Keeps(control, control', i)
                   /\ control.flows[i].remote \in MulticastAddrs =>
                          (control.flows[i].id \in expired' <=> control.flows[i].id \in expired)
<1>a. TablesInv(control) /\ TablesTypeOK(control) /\ TablesMatch(control)
      /\ DOMAIN control.flows = Indices
  BY DEF MulticastsInv, TransmitterInv, FlowsInv, TablesInv, TablesTypeOK
<1>1. ASSUME NEW r \in Receivers, RequestFlow(r) PROVE Same
  <2> DEFINE scanned == ScanExpired(control)
  <2>1. Keeps(control, scanned, i) /\ DOMAIN scanned.flows = Indices
    BY <1>a, ScanKeeps, ScanExpiredKeeps DEF TablesInv, TablesTypeOK
  <2>2. ASSUME NEW j \in VacantIndices(scanned),
               control' = InsertFlow(scanned, j, [id |-> created + 1, remote |-> r])
        PROVE  Keeps(control, control', i)
    <3> DEFINE flow == [id |-> created + 1, remote |-> r]
    <3>1. control'.flows = [scanned.flows EXCEPT ![j] = flow] /\ flow.remote = r
      BY <2>2 DEF InsertFlow
    <3>2. scanned.flows[j] = NoFlow /\ j \in Indices
      BY DEF VacantIndices
    <3> HIDE DEF scanned, flow
    <3>3. CASE i = j
      BY <2>1, <3>1, <3>2, <3>3, ReceiversAreUnicast DEF Keeps
    <3>4. CASE i # j
      BY <2>1, <3>1, <3>2, <3>4 DEF Keeps
    <3>5. QED
      BY <3>3, <3>4
  <2>3. Keeps(control, control', i) /\ expired' = expired
    BY <1>1, <2>1, <2>2 DEF RequestFlow
  <2>4. QED
    BY <2>3
<1>2. ASSUME NEW r \in Receivers, RequestFlowAgain(r) PROVE Same
  <2>1. control' = SetExisting(control, r) /\ control.ipPortToId[r] # NoIndex
        /\ expired' = expired
    BY <1>2 DEF RequestFlowAgain
  <2>2. control'.flows = control.flows
    BY <1>a, <2>1, SetExistingKeeps DEF Addrs
  <2>3. QED
    BY <2>1, <2>2 DEF Keeps
<1>3. ASSUME NEW j \in Indices, UpdateFlow(j) PROVE Same
  <2>1. control'.flows = control.flows /\ expired' = expired
    BY <1>3, <1>a DEF UpdateFlow, SetChannels, TablesTypeOK
  <2>2. QED
    BY <2>1 DEF Keeps
<1>4. ASSUME NEW j \in Indices, StopFlow(j) PROVE Same
  <2>1. control'.flows[i] = IF i = j THEN NoFlow ELSE control.flows[i]
    BY <1>4, RemoveFlowsAt, {j} \subseteq Indices DEF StopFlow
  <2>2. expired' = expired /\ control.flows[j].remote \in Receivers
    BY <1>4 DEF StopFlow
  <2>3. QED
    BY <2>1, <2>2, ReceiversAreUnicast DEF Keeps
<1>5. CASE ExecuteAdd \/ ExecuteRemove
  <2>1. control'.flows = control.flows /\ expired' = expired
    BY <1>5, <1>a DEF ExecuteAdd, ExecuteRemove, Consume, TablesTypeOK
  <2>2. QED
    BY <2>1 DEF Keeps
<1>6. CASE ExecuteSetChannels
  <2>1. control'.flows = control.flows /\ control.commands # << >>
        /\ NextCommand.op = "SetChannels"
        /\ expired' = expired \ {txFlows[NextCommand.index].id}
    BY <1>6, <1>a DEF ExecuteSetChannels, Consume, TablesTypeOK
  <2>2. NextCommand.index \in Indices /\ txFlows[NextCommand.index].remote \in Receivers
    BY <2>1, FirstCommand
  <2>3. QED
    BY <2>1, <2>2, NumbersDiffer DEF Keeps
<1>7. ASSUME NEW j \in Indices, Expire(j) PROVE Same
  <2>1. /\ control' = control /\ txFlows[j].remote \in Receivers
        /\ expired' = expired \cup {txFlows[j].id}
    BY <1>7 DEF Expire
  <2>2. QED
    BY <2>1, NumbersDiffer DEF Keeps
<1>8. QED
  BY <1>1, <1>2, <1>3, <1>4, <1>5, <1>6, <1>7 DEF TxThread, FlowsControlServer

-----------------------------------------------------------------------------
(* No bundle is deleted before it is on the air, and each gets its flow *)

OwnershipInv == MulticastsInv /\ QueueInvFor(Receivers) /\ FlowsOwned /\ IndicesVacant

\* Bundle b stays where it is: its task may move on, but not past its decision.
StaysPut(b) ==
    /\ Pending(b)' = Pending(b) /\ (Checked(b)' => Checked(b))
    /\ task'[b].addr = task[b].addr
    /\ dstAddr'[b] = dstAddr[b]
    /\ Checked(b) /\ task[b].addr \in reserved => task[b].addr \in reserved'

\* The flow at index i and its flag stay what they are.
FlowStays(i) ==
    /\ control'.flows[i] = control.flows[i]
    /\ control.flows[i].id \in expired' <=> control.flows[i].id \in expired

LEMMA OwnsStays ==
    ASSUME NEW i \in Indices, Owns(i), bundles'[i] = bundles[i],
           bundles[i] # NoBundle => StaysPut(bundles[i]) /\ FlowStays(i)
    PROVE  Owns(i)'
<1> SUFFICES ASSUME bundles[i] # NoBundle PROVE Owns(i)'
  BY DEF Owns
<1> DEFINE b == bundles[i]
           flow == control.flows[i]
<1>1. /\ flow.remote = task[b].addr
      /\ Pending(b) => flow.id \in expired /\ dstAddr[b] = NoAddr
      /\ ~Pending(b) => flow.id \notin expired /\ dstAddr[b] = task[b].addr
      /\ Checked(b) => task[b].addr \in reserved
  BY DEF Owns
<1>2. /\ Pending(b)' = Pending(b) /\ (Checked(b)' => Checked(b))
      /\ task'[b].addr = task[b].addr
      /\ dstAddr'[b] = dstAddr[b]
      /\ Checked(b) /\ task[b].addr \in reserved => task[b].addr \in reserved'
  BY DEF StaysPut
<1>3. /\ control'.flows[i] = flow /\ b' = b
      /\ flow.id \in expired' <=> flow.id \in expired
  BY DEF FlowStays
<1> HIDE DEF b, flow
<1>4. /\ flow.remote = task'[b].addr
      /\ Pending(b)' => flow.id \in expired' /\ dstAddr'[b] = NoAddr
      /\ ~Pending(b)' => flow.id \notin expired' /\ dstAddr'[b] = task'[b].addr
      /\ Checked(b)' => task'[b].addr \in reserved'
  BY <1>1, <1>2, <1>3
<1>5. QED
  BY <1>3, <1>4 DEF Owns, b, flow

\* A new number is not that of any flow, and carries no flag yet.
LEMMA NewNumber ==
    ASSUME MulticastsInv
    PROVE  /\ created + 1 \notin expired
           /\ \A i \in Indices : control.flows[i].id # created + 1
<1>1. Queued(control, txFlows, created, Addrs) /\ created \in Nat /\ expired \subseteq 1..created
  BY BoundsAssumption DEF MulticastsInv, TransmitterInv, QueueInv, QueueInvFor
<1>2. \A i \in Indices : control.flows[i] \in Known(control, txFlows)
  BY DEF Known
<1>3. \A i \in Indices : control.flows[i].id \in 0..created
  BY <1>1, <1>2, KnownIds DEF Queued
<1>4. QED
  BY <1>1, <1>3

LEMMA AddBundleKeepsOwners ==
    ASSUME OwnershipInv, "noSocket" \notin Races,
           NEW i \in Indices, NEW channels, NEW a \in RandomDestination(control),
           AddBundle(i, channels, a), UNCHANGED toLoad, request' \in {NoRequest, request},
           control.flows[i] = NoFlow
    PROVE  FlowsOwned' /\ IndicesVacant'
<1> DEFINE flow == NewFlow(a)
<1>1. PICK b \in Bundle :
          /\ task[b] = NoTask /\ bundles[i] = NoBundle
          /\ AddMulticastFlow(i, a)
          /\ bundles' = [bundles EXCEPT ![i] = b]
          /\ task' = [task EXCEPT ![b] =
                 [pc |-> "spawn", index |-> i, addr |-> a, ok |-> TRUE]]
          /\ server' = "saving"
          /\ UNCHANGED <<dstAddr, mdnsVars, aborted>>
  BY DEF AddBundle
<1>2. /\ control' = AddMulticast(control, i, flow)
      /\ expired' = expired \cup AddMulticastFlag(control, i, flow)
      /\ flow = [id |-> created + 1, remote |-> a]
  BY <1>1 DEF AddMulticastFlow, NewFlow
<1>3. flow.id = created + 1 /\ flow.remote = a
  BY DEF NewFlow
<1> HIDE DEF flow
<1>4. /\ control'.flows[i] = flow /\ expired' = expired \cup {created + 1}
      /\ \A j \in Indices \ {i} : Keeps(control, control', j)
                                  /\ control'.flows[j] \in {control.flows[j], NoFlow}
  BY <1>2, <1>3, AddMulticastAt
  DEF OwnershipInv, MulticastsInv, TransmitterInv, FlowsInv, RandomDestination
<1>5. BundlesTypeOK /\ BundlesOwned /\ TasksStarted /\ FlowsOwned
  BY DEF OwnershipInv, MulticastsInv, BundlesInv
<1>6. task \in [Bundle -> TaskState] /\ bundles \in [Indices -> Bundle \cup {NoBundle}]
  BY <1>5 DEF BundlesTypeOK, TaskState
<1>7. /\ \A x \in Bundle \ {b} : task'[x] = task[x]
      /\ task'[b].pc = "spawn" /\ task'[b].index = i /\ task'[b].addr = a
  BY <1>1, <1>6
<1>8. /\ bundles'[i] = b /\ b # NoBundle
      /\ \A j \in Indices \ {i} : bundles'[j] = bundles[j]
      /\ \A j \in Indices : bundles[j] # b
  <2>1. b # NoBundle
    BY DEF Bundle, NoBundle
  <2>2. QED
    BY <1>1, <1>5, <1>6, <2>1 DEF BundlesOwned
<1>9. dstAddr' = dstAddr /\ reserved' = reserved /\ aborted' = aborted
      /\ dstAddr[b] = NoAddr
  BY <1>1, <1>5 DEF mdnsVars, FlowsOwned
<1>10. Pending(b)' /\ ~Checked(b)'
  BY <1>7 DEF Pending, Checked
<1>11. ASSUME NEW x \in Bundle \ {b} PROVE StaysPut(x)
  BY <1>7, <1>9 DEF StaysPut, Pending, Checked
<1>12. ASSUME NEW j \in Indices PROVE Owns(j)'
  <2>1. CASE j = i
    <3>1. /\ bundles'[i] = b /\ control'.flows[i].remote = task'[b].addr
          /\ Pending(b)' /\ ~Checked(b)'
          /\ control'.flows[i].id \in expired' /\ dstAddr'[b] = NoAddr
      BY <1>3, <1>4, <1>7, <1>8, <1>9, <1>10
    <3>2. QED
      BY <2>1, <3>1 DEF Owns, Pending, Checked
  <2>2. CASE j # i
    <3>1. ASSUME bundles[j] # NoBundle PROVE StaysPut(bundles[j]) /\ FlowStays(j)
      <4>1. bundles[j] \in Bundle \ {b}
        BY <1>6, <1>8, <3>1
      <4>2. control.flows[j].remote = task[bundles[j]].addr
        BY <1>5, <3>1 DEF FlowsOwned, Owns
      <4>3. control.flows[j].remote \in MulticastAddrs
        BY <1>5, <3>1, <4>1, <4>2 DEF BundlesOwned, TasksStarted
      <4>4. control'.flows[j] = control.flows[j]
        BY <1>4, <2>2, <4>3 DEF Keeps
      <4>5. control.flows[j].id # created + 1
        BY NewNumber DEF OwnershipInv
      <4>6. QED
        BY <1>4, <1>11, <4>1, <4>4, <4>5 DEF FlowStays
    <3>2. QED
      BY <1>5, <1>8, <2>2, <3>1, OwnsStays DEF FlowsOwned
  <2>3. QED
    BY <2>1, <2>2
<1>13. ASSUME NEW j \in Indices, control'.flows[j].remote \in MulticastAddrs
       PROVE  bundles'[j] # NoBundle
  BY <1>4, <1>5, <1>8, <1>13 DEF FlowsOwned, Keeps
<1>14. ASSUME NEW x \in Bundle, Pending(x)', x \notin aborted'
       PROVE  bundles'[task'[x].index] = x
  <2>1. CASE x = b
    BY <1>7, <1>8, <2>1
  <2>2. CASE x # b
    <3>1. Pending(x) /\ x \notin aborted /\ task'[x] = task[x]
      BY <1>7, <1>9, <1>11, <1>14, <2>2 DEF StaysPut
    <3>2. bundles[task[x].index] = x /\ task[x].index \in Indices
      <4>1. task[x] # NoTask
        BY <3>1 DEF Pending, NoTask
      <4>2. QED
        BY <1>5, <3>1, <4>1 DEF FlowsOwned, TasksStarted
    <3>3. task[x].index # i
      BY <1>1, <3>2, <1>8, x # NoBundle DEF Bundle, NoBundle
    <3>4. QED
      BY <1>8, <3>1, <3>2, <3>3
  <2>3. QED
    BY <2>1, <2>2
<1>15. ASSUME NEW x \in Bundle, task'[x] = NoTask PROVE dstAddr'[x] = NoAddr
  <2>1. task'[b] # NoTask
    BY <1>7 DEF NoTask
  <2>2. QED
    BY <1>5, <1>7, <1>9, <1>15, <2>1 DEF FlowsOwned
<1>16. IndicesVacant'
  <2>1. \A j \in Indices : AwaitsBundle(j)' => AwaitsBundle(j)
    BY <1>1 DEF AwaitsBundle, Loaded, NoRequest
  <2>2. control'.flows[i].remote \notin Receivers
    BY <1>3, <1>4, ReceiversAreUnicast DEF RandomDestination
  <2>3. ASSUME NEW j \in Indices \ {i}, AwaitsBundle(j)
        PROVE  control'.flows[j].remote \notin Receivers
    BY <1>4, <2>3, ReceiversAreUnicast DEF IndicesVacant, OwnershipInv
  <2>4. QED
    BY <2>1, <2>2, <2>3 DEF IndicesVacant
<1>17. QED
  BY <1>12, <1>13, <1>14, <1>15, <1>16 DEF FlowsOwned

\* The two queries: when the task goes on to its decision with a result it can
\* use, it has reserved the address.
LEMMA QueryChecks ==
    ASSUME BundlesInv, NEW b \in Bundle, FirstQuery(b) \/ SecondQuery(b),
           Checked(b) => task[b].addr \in reserved
    PROVE  /\ Pending(b) /\ Pending(b)'
           /\ task'[b].addr = task[b].addr
           /\ Checked(b)' => task[b].addr \in reserved'
<1>1. task \in [Bundle -> TaskState]
  BY DEF BundlesInv, BundlesTypeOK, TaskState
<1>2. task[b] \in TaskState
  BY <1>1
<1>3. Pending(b)
  BY DEF FirstQuery, SecondQuery, Pending
<1>4. ASSUME NEW pc \in {"queryAgain", "decide"},
             task' = [task EXCEPT ![b] = [task[b] EXCEPT !.pc = pc]]
      PROVE  Pending(b)' /\ task'[b].addr = task[b].addr
  <2> DEFINE rec == [task[b] EXCEPT !.pc = pc]
  <2>1. rec.pc = pc /\ rec.addr = task[b].addr
    BY <1>2, TaskStateAt
  <2> HIDE DEF rec
  <2>2. task'[b] = rec
    BY <1>1, <1>4 DEF rec
  <2>3. QED
    BY <2>1, <2>2 DEF Pending
<1>5. ASSUME task' = [task EXCEPT ![b] = [task[b] EXCEPT !.pc = "decide", !.ok = FALSE]]
      PROVE  Pending(b)' /\ task'[b].addr = task[b].addr /\ ~Checked(b)'
  <2> DEFINE rec == [task[b] EXCEPT !.pc = "decide", !.ok = FALSE]
  <2>1. rec.pc = "decide" /\ rec.addr = task[b].addr /\ rec.ok = FALSE
    BY <1>2, TaskStateFailed
  <2> HIDE DEF rec
  <2>2. task'[b] = rec
    BY <1>1, <1>5 DEF rec
  <2>3. Pending(b)' /\ task'[b].addr = task[b].addr
    BY <2>1, <2>2 DEF Pending
  <2>4. task'[b].pc = "decide" /\ ~task'[b].ok
    BY <2>1, <2>2
  <2>5. ~Checked(b)'
    BY <2>4 DEF Checked
  <2>6. QED
    BY <2>3, <2>5
<1>6. CASE FirstQuery(b)
  <2>1. CASE task' = [task EXCEPT ![b] = [task[b] EXCEPT !.pc = "queryAgain"]]
             /\ reserved' = reserved \cup {Reservation(b)}
    BY <1>3, <1>4, <2>1 DEF Reservation
  <2>2. CASE task' = [task EXCEPT ![b] = [task[b] EXCEPT !.pc = "decide", !.ok = FALSE]]
    BY <1>3, <1>5, <2>2
  <2>3. QED
    BY <1>6, <2>1, <2>2 DEF FirstQuery
<1>7. CASE SecondQuery(b)
  <2>1. Checked(b) /\ reserved' = reserved
    BY <1>7 DEF SecondQuery, Checked, mdnsVars
  <2>2. CASE task' = [task EXCEPT ![b] = [task[b] EXCEPT !.pc = "decide"]]
    BY <1>3, <1>4, <2>1, <2>2
  <2>3. CASE task' = [task EXCEPT ![b] = [task[b] EXCEPT !.pc = "decide", !.ok = FALSE]]
    BY <1>3, <1>5, <2>3
  <2>4. QED
    BY <1>7, <2>2, <2>3 DEF SecondQuery
<1>8. QED
  BY <1>6, <1>7

\* A pending task that was not aborted has its bundle, and the bundle its flow.
LEMMA PendingOwns ==
    ASSUME OwnershipInv, NEW b \in Bundle, Pending(b), b \notin aborted
    PROVE  /\ task[b].index \in Indices /\ bundles[task[b].index] = b
           /\ b # NoBundle
           /\ control.flows[task[b].index].remote = task[b].addr
           /\ task[b].addr \in MulticastAddrs
           /\ \A j \in Indices : bundles[j] = b => j = task[b].index
<1>1. task[b] # NoTask
  BY DEF Pending, NoTask
<1>2. task[b].index \in Indices /\ task[b].addr \in MulticastAddrs
  BY <1>1 DEF OwnershipInv, MulticastsInv, BundlesInv, TasksStarted
<1>3. bundles[task[b].index] = b /\ Owns(task[b].index)
  BY <1>2 DEF OwnershipInv, FlowsOwned
<1>4. b # NoBundle
  BY DEF Bundle, NoBundle
<1>5. control.flows[task[b].index].remote = task[b].addr
  BY <1>3, <1>4 DEF Owns
<1>6. \A j \in Indices : bundles[j] = b => j = task[b].index
  BY <1>4 DEF OwnershipInv, MulticastsInv, BundlesInv, BundlesOwned
<1>7. QED
  BY <1>2, <1>3, <1>4, <1>5, <1>6

\* What remains to be shown of a step of the task of bundle b: what it does to
\* the other bundles' flows, and to its own.
LEMMA TaskKeepsOwners ==
    ASSUME OwnershipInv, NEW b \in Bundle, BundleTask(b),
           UNCHANGED dstAddr \/ dstAddr' = [dstAddr EXCEPT ![b] = dstAddr'[b]],
           reserved \subseteq reserved',
           \A j \in Indices : bundles[j] \notin {b, NoBundle} => FlowStays(j),
           \A j \in Indices : bundles[j] = b => Owns(j)',
           \A j \in Indices : control'.flows[j].remote \in MulticastAddrs =>
               bundles[j] # NoBundle,
           \A j \in Indices : /\ control'.flows[j] # NoFlow
                              /\ control'.flows[j].remote \notin MulticastAddrs
                  => control'.flows[j] = control.flows[j],
           Pending(b)' => Pending(b)
    PROVE  FlowsOwned' /\ IndicesVacant'
<1>1. BundlesTypeOK /\ BundlesOwned /\ TasksStarted /\ FlowsOwned /\ BundlesInv
  BY DEF OwnershipInv, MulticastsInv, BundlesInv
<1>2. task \in [Bundle -> TaskState] /\ bundles \in [Indices -> Bundle \cup {NoBundle}]
      /\ dstAddr \in [Bundle -> MulticastAddrs \cup {NoAddr}]
  BY <1>1 DEF BundlesTypeOK, TaskState
<1>3. PICK pc \in {"query", "queryAgain", "decide", "done"} : Moves(b, pc)
  BY <1>1, BundleTasksMove
<1>4. /\ task[b] # NoTask
      /\ UNCHANGED <<bundles, server, request, toLoad, aborted>>
  BY <1>1, BundleTasksMove
<1>5. /\ \A x \in Bundle \ {b} : task'[x] = task[x] /\ dstAddr'[x] = dstAddr[x]
      /\ task'[b].index = task[b].index /\ task'[b].pc # "none"
  BY <1>2, <1>3 DEF Moves
<1>6. ASSUME NEW x \in Bundle \ {b} PROVE StaysPut(x)
  BY <1>5 DEF StaysPut, Pending, Checked
<1>7. ASSUME NEW j \in Indices PROVE Owns(j)'
  <2>1. CASE bundles[j] = b
    BY <2>1
  <2>2. CASE bundles[j] # b
    <3>1. bundles[j] # NoBundle => StaysPut(bundles[j]) /\ FlowStays(j)
      BY <1>2, <1>6, <2>2
    <3>2. QED
      BY <1>1, <1>4, <3>1, OwnsStays DEF FlowsOwned
  <2>3. QED
    BY <2>1, <2>2
<1>8. ASSUME NEW x \in Bundle, Pending(x)', x \notin aborted' PROVE bundles'[task'[x].index] = x
  <2>1. Pending(x) /\ task'[x].index = task[x].index
    BY <1>5, <1>6, <1>8 DEF StaysPut
  <2>2. QED
    BY <1>1, <1>4, <1>8, <2>1 DEF FlowsOwned
<1>9. ASSUME NEW x \in Bundle, task'[x] = NoTask PROVE dstAddr'[x] = NoAddr
  <2>1. x # b
    BY <1>5, <1>9 DEF NoTask
  <2>2. QED
    BY <1>1, <1>5, <1>9, <2>1 DEF FlowsOwned
<1>10. IndicesVacant'
  <2>1. \A j \in Indices : AwaitsBundle(j)' = AwaitsBundle(j)
    BY <1>4 DEF AwaitsBundle, Loaded
  <2>2. QED
    BY <2>1, ReceiversAreUnicast DEF IndicesVacant, OwnershipInv
<1>11. QED
  BY <1>4, <1>7, <1>8, <1>9, <1>10 DEF FlowsOwned

LEMMA QuietTaskKeepsOwners ==
    ASSUME OwnershipInv, NEW b \in Bundle, FirstQuery(b) \/ SecondQuery(b) \/ Abort(b)
    PROVE  FlowsOwned' /\ IndicesVacant'
<1>1. /\ UNCHANGED <<control, expired, dstAddr>> /\ reserved \subseteq reserved'
      /\ UNCHANGED <<bundles, aborted>> /\ BundleTask(b) /\ Pending(b)
  BY DEF FirstQuery, SecondQuery, Abort, flowsVars, bundleVars, mdnsVars, BundleTask, Pending
<1>2. FlowsOwned /\ BundlesOwned /\ BundlesInv
  BY DEF OwnershipInv, MulticastsInv, BundlesInv
<1>3. \A j \in Indices : FlowStays(j)
  BY <1>1 DEF FlowStays
<1>4. ASSUME NEW j \in Indices, bundles[j] = b PROVE Owns(j)'
  <2>1. b \notin aborted /\ b # NoBundle
    BY <1>2, <1>4 DEF BundlesOwned, Bundle, NoBundle
  <2>2. FirstQuery(b) \/ SecondQuery(b)
    BY <2>1 DEF Abort
  <2>3. /\ control.flows[j].remote = task[b].addr
        /\ control.flows[j].id \in expired /\ dstAddr[b] = NoAddr
        /\ Checked(b) => task[b].addr \in reserved
    BY <1>1, <1>2, <1>4, <2>1 DEF FlowsOwned, Owns
  <2>4. /\ Pending(b)' /\ task'[b].addr = task[b].addr
        /\ Checked(b)' => task[b].addr \in reserved'
    BY <1>2, <2>2, <2>3, QueryChecks
  <2>5. /\ control'.flows[j].remote = task'[b].addr
        /\ Pending(b)' /\ control'.flows[j].id \in expired' /\ dstAddr'[b] = NoAddr
        /\ Checked(b)' => task'[b].addr \in reserved'
    BY <1>1, <2>3, <2>4
  <2>6. bundles'[j] = b
    BY <1>1, <1>4
  <2>7. QED
    BY <2>5, <2>6 DEF Owns, Pending, Checked
<1>5. \A j \in Indices : control'.flows[j].remote \in MulticastAddrs => bundles[j] # NoBundle
  BY <1>1, <1>2 DEF FlowsOwned
<1>6. \A j \in Indices : control'.flows[j] = control.flows[j]
  BY <1>1
<1>7. QED
  BY <1>1, <1>3, <1>4, <1>5, <1>6, TaskKeepsOwners

LEMMA ActivateKeepsOwners ==
    ASSUME OwnershipInv, NEW b \in Bundle, Activate(b)
    PROVE  FlowsOwned' /\ IndicesVacant'
<1> DEFINE i == task[b].index
           flow == control.flows[i]
<1>1. /\ Checked(b) /\ Pending(b) /\ b \notin aborted /\ BundleTask(b)
      /\ dstAddr' = [dstAddr EXCEPT ![b] = task[b].addr]
      /\ ActivateMulticastFlow(i) \/ (flow = NoFlow /\ UNCHANGED flowsVars)
      /\ Done(b)
      /\ UNCHANGED <<bundles, reserved, aborted>>
  BY DEF Activate, Checked, Pending, BundleTask
<1>2. /\ i \in Indices /\ bundles[i] = b /\ b # NoBundle
      /\ flow.remote = task[b].addr /\ task[b].addr \in MulticastAddrs
      /\ \A j \in Indices : bundles[j] = b => j = i
  BY <1>1, PendingOwns
<1>3. control' = control /\ expired' = expired \ {flow.id}
  BY <1>1, <1>2, ReceiversAreUnicast DEF ActivateMulticastFlow
<1>4. BundlesTypeOK /\ BundlesOwned /\ TasksStarted /\ FlowsOwned /\ MulticastsInv
  BY DEF OwnershipInv, MulticastsInv, BundlesInv
<1>5. task \in [Bundle -> TaskState] /\ bundles \in [Indices -> Bundle \cup {NoBundle}]
      /\ dstAddr \in [Bundle -> MulticastAddrs \cup {NoAddr}]
  BY <1>4 DEF BundlesTypeOK, TaskState
<1>6. dstAddr'[b] = task[b].addr
  BY <1>1, <1>5
<1>7. task'[b].pc = "done" /\ task'[b].addr = task[b].addr
  <2> DEFINE rec == [task[b] EXCEPT !.pc = "done"]
  <2>1. rec.pc = "done" /\ rec.addr = task[b].addr
    BY <1>5, TaskStateAt
  <2> HIDE DEF rec
  <2>2. task'[b] = rec
    BY <1>1, <1>5 DEF Done, rec
  <2>3. QED
    BY <2>1, <2>2
<1>8. ASSUME NEW j \in Indices, bundles[j] \notin {b, NoBundle} PROVE FlowStays(j)
  <2>1. control.flows[j].id # flow.id
    BY <1>2, <1>4, <1>8, NumbersDiffer
  <2>2. QED
    BY <1>3, <2>1 DEF FlowStays
<1>9. ASSUME NEW j \in Indices, bundles[j] = b PROVE Owns(j)'
  <2>1. j = i
    BY <1>2, <1>9
  <2>2. Checked(b) => task[b].addr \in reserved
    BY <1>2, <1>4 DEF FlowsOwned, Owns
  <2>3. /\ control'.flows[j] = flow /\ bundles'[j] = b /\ reserved' = reserved
    BY <1>1, <1>2, <1>3, <2>1
  <2>4. ~Pending(b)'
    BY <1>7 DEF Pending
  <2>5. /\ control'.flows[j].remote = task'[b].addr
        /\ ~Pending(b)' /\ control'.flows[j].id \notin expired' /\ dstAddr'[b] = task'[b].addr
        /\ task'[b].addr \in reserved'
    BY <1>1, <1>2, <1>3, <1>6, <1>7, <2>2, <2>3, <2>4
  <2>6. QED
    BY <2>3, <2>5 DEF Owns, Pending
<1>10. \A j \in Indices : control'.flows[j].remote \in MulticastAddrs => bundles[j] # NoBundle
  BY <1>3, <1>4 DEF FlowsOwned
<1>11. \A j \in Indices : control'.flows[j] = control.flows[j]
  BY <1>3
<1>12. dstAddr' = [dstAddr EXCEPT ![b] = dstAddr'[b]] /\ reserved \subseteq reserved'
  BY <1>1, <1>6
<1> HIDE DEF i, flow
<1>13. QED
  BY <1>1, <1>8, <1>9, <1>10, <1>11, <1>12, TaskKeepsOwners

LEMMA RetryKeepsOwners ==
    ASSUME OwnershipInv, "noSocket" \notin Races, NEW b \in Bundle, Retry(b)
    PROVE  FlowsOwned' /\ IndicesVacant'
<1> DEFINE i == task[b].index
           removed == RemoveMulticast(control, i)
<1>1. /\ Pending(b) /\ b \notin aborted /\ BundleTask(b)
      /\ UNCHANGED <<bundles, dstAddr, reserved, aborted>>
  BY DEF Retry, Pending, BundleTask, bundleVars, mdnsVars
<1>2. PICK a \in MulticastAddrs :
          /\ ReplaceMulticastFlow(i, a)
          /\ task' = [task EXCEPT ![b] =
                        [task[b] EXCEPT !.pc = "query", !.addr = a, !.ok = TRUE]]
  BY DEF Retry
<1> DEFINE flow == NewFlow(a)
<1>3. /\ i \in Indices /\ bundles[i] = b /\ b # NoBundle
      /\ control.flows[i].remote \in MulticastAddrs
      /\ \A j \in Indices : bundles[j] = b => j = i
  BY <1>1, PendingOwns
<1>4. BundlesTypeOK /\ BundlesOwned /\ TasksStarted /\ FlowsOwned /\ MulticastsInv
      /\ TablesInv(control)
  BY DEF OwnershipInv, MulticastsInv, BundlesInv, TransmitterInv, FlowsInv
<1>5. /\ removed.flows[i] = NoFlow /\ TablesInv(removed)
      /\ \A j \in Indices \ {i} : removed.flows[j] = control.flows[j]
  BY <1>3, <1>4, RemoveMulticastAt, RemoveMulticastKeeps
<1>6. flow.id = created + 1 /\ flow.remote = a
  BY DEF NewFlow
<1>7. /\ control' = AddMulticast(removed, i, flow)
      /\ expired' = expired \cup AddMulticastFlag(removed, i, flow)
  BY <1>2 DEF ReplaceMulticastFlow, NewFlow
<1>a. removed.ipPortToId[a] = NoIndex
  BY <1>2 DEF ReplaceMulticastFlow, RandomDestination
<1> HIDE DEF i, removed, flow
<1>8. /\ control'.flows[i] = flow /\ expired' = expired \cup {created + 1}
      /\ \A j \in Indices \ {i} : /\ Keeps(control, control', j)
                                  /\ control'.flows[j] \in {control.flows[j], NoFlow}
  <2>1. /\ control'.flows[i] = flow /\ AddMulticastFlag(removed, i, flow) = {flow.id}
        /\ \A j \in Indices \ {i} : /\ Keeps(removed, control', j)
                                    /\ control'.flows[j] \in {removed.flows[j], NoFlow}
    BY <1>3, <1>5, <1>6, <1>7, <1>a, AddMulticastAt
  <2>2. \A j \in Indices \ {i} : Keeps(control, control', j)
    BY <1>5, <2>1 DEF Keeps
  <2>3. QED
    BY <1>5, <1>6, <1>7, <2>1, <2>2
<1>9. task \in [Bundle -> TaskState]
  BY <1>4 DEF BundlesTypeOK, TaskState
<1>10. task'[b].pc = "query" /\ task'[b].addr = a
  <2> DEFINE rec == [task[b] EXCEPT !.pc = "query", !.addr = a, !.ok = TRUE]
  <2>1. rec.pc = "query" /\ rec.addr = a
    BY <1>9, TaskStateRetried
  <2> HIDE DEF rec
  <2>2. task'[b] = rec
    BY <1>2, <1>9 DEF rec
  <2>3. QED
    BY <2>1, <2>2
<1>11. ASSUME NEW j \in Indices, bundles[j] \notin {b, NoBundle} PROVE FlowStays(j)
  <2>1. j # i
    BY <1>3, <1>11
  <2>2. control.flows[j].remote = task[bundles[j]].addr
    BY <1>4, <1>11 DEF FlowsOwned, Owns
  <2>3. bundles[j] \in Bundle /\ task[bundles[j]] # NoTask
    BY <1>4, <1>11 DEF BundlesTypeOK, BundlesOwned
  <2>4. control.flows[j].remote \in MulticastAddrs
    BY <1>4, <2>2, <2>3 DEF TasksStarted
  <2>5. control'.flows[j] = control.flows[j]
    BY <1>8, <2>1, <2>4 DEF Keeps
  <2>6. control.flows[j].id # created + 1
    BY <1>4, NewNumber
  <2>7. QED
    BY <1>8, <2>5, <2>6 DEF FlowStays
<1>12. ASSUME NEW j \in Indices, bundles[j] = b PROVE Owns(j)'
  <2>1. j = i
    BY <1>3, <1>12
  <2>2. dstAddr[b] = NoAddr
    BY <1>1, <1>3, <1>4 DEF FlowsOwned, Owns
  <2>3. Pending(b)' /\ ~Checked(b)'
    BY <1>10 DEF Pending, Checked
  <2>4. /\ bundles'[j] = b /\ control'.flows[j].remote = task'[b].addr
        /\ control'.flows[j].id \in expired' /\ dstAddr'[b] = NoAddr
    BY <1>1, <1>6, <1>8, <1>10, <1>12, <2>1, <2>2
  <2>5. QED
    BY <2>3, <2>4 DEF Owns, Pending, Checked
<1>13. ASSUME NEW j \in Indices, control'.flows[j].remote \in MulticastAddrs
       PROVE  bundles[j] # NoBundle
  BY <1>3, <1>4, <1>8, <1>13 DEF FlowsOwned, Keeps
<1>14. ASSUME NEW j \in Indices, control'.flows[j] # NoFlow,
              control'.flows[j].remote \notin MulticastAddrs
       PROVE  control'.flows[j] = control.flows[j]
  BY <1>6, <1>8, <1>14
<1>15. QED
  BY <1>1, <1>11, <1>12, <1>13, <1>14, TaskKeepsOwners

\* A bundle on the air is deleted.
LEMMA DeleteKeepsOwners ==
    ASSUME OwnershipInv, "deleteInGrace" \notin Races, NEW i \in Indices, DeleteMulticast(i)
    PROVE  FlowsOwned' /\ IndicesVacant'
<1> DEFINE b == bundles[i]
           addr == dstAddr[b]
<1>1. /\ server = "idle" /\ server' \in {"saving", "idle"}
      /\ b # NoBundle /\ addr # NoAddr
      /\ control' = RemoveMulticast(control, i) /\ expired' = expired
      /\ bundles' = [bundles EXCEPT ![i] = NoBundle]
      /\ reserved' = reserved \ {addr}
      /\ UNCHANGED <<dstAddr, task, request, toLoad, aborted>> /\ request = NoRequest
  BY DEF DeleteMulticast, RemoveMulticastFlow, TakeBack
<1>2. BundlesTypeOK /\ BundlesOwned /\ TasksStarted /\ ListsOK /\ FlowsOwned /\ MulticastsInv
      /\ TablesInv(control) /\ TablesMatch(control)
  BY DEF OwnershipInv, MulticastsInv, BundlesInv, TransmitterInv, FlowsInv, TablesInv
<1>3. b \in Bundle /\ task[b] # NoTask
  BY <1>1, <1>2 DEF BundlesTypeOK, BundlesOwned
<1>4. control.flows[i].remote = task[b].addr /\ ~Pending(b) /\ addr = task[b].addr
  BY <1>1, <1>2 DEF FlowsOwned, Owns
<1>5. control.flows[i].remote = addr /\ addr \in MulticastAddrs /\ addr \in Addrs
  BY <1>2, <1>3, <1>4 DEF TasksStarted, Addrs
<1>6. /\ control'.flows[i] = NoFlow
      /\ \A j \in Indices \ {i} : control'.flows[j] = control.flows[j]
  BY <1>1, <1>2, <1>5, RemoveMulticastAt
<1>7. /\ bundles'[i] = NoBundle
      /\ \A j \in Indices \ {i} : bundles'[j] = bundles[j]
  BY <1>1, <1>2 DEF BundlesTypeOK
<1> HIDE DEF b, addr
<1>8. ASSUME NEW j \in Indices PROVE Owns(j)'
  <2>1. CASE j = i
    BY <1>7, <2>1 DEF Owns
  <2>2. CASE j # i
    <3>1. ASSUME bundles[j] # NoBundle PROVE StaysPut(bundles[j]) /\ FlowStays(j)
      <4>1. control.flows[j].remote = task[bundles[j]].addr
        BY <1>2, <3>1 DEF FlowsOwned, Owns
      <4>2. control.flows[j].remote # addr
        BY <1>2, <1>5, <2>2 DEF TablesMatch
      <4>3. task[bundles[j]].addr \in reserved => task[bundles[j]].addr \in reserved'
        BY <1>1, <4>1, <4>2
      <4>4. StaysPut(bundles[j])
        BY <1>1, <1>7, <2>2, <4>3 DEF StaysPut, Pending, Checked
      <4>5. FlowStays(j)
        BY <1>1, <1>6, <2>2 DEF FlowStays
      <4>6. QED
        BY <4>4, <4>5
    <3>2. QED
      BY <1>2, <1>7, <2>2, <3>1, OwnsStays DEF FlowsOwned
  <2>3. QED
    BY <2>1, <2>2
<1>9. ASSUME NEW j \in Indices, control'.flows[j].remote \in MulticastAddrs
      PROVE  bundles'[j] # NoBundle
  BY <1>2, <1>6, <1>7, <1>9, ReceiversAreUnicast DEF FlowsOwned
<1>10. ASSUME NEW x \in Bundle, Pending(x)', x \notin aborted' PROVE bundles'[task'[x].index] = x
  <2>1. Pending(x) /\ x \notin aborted /\ task' = task
    BY <1>1, <1>10 DEF Pending
  <2>2. bundles[task[x].index] = x /\ task[x].index \in Indices
    <3>1. task[x] # NoTask
      BY <2>1 DEF Pending, NoTask
    <3>2. QED
      BY <1>2, <2>1, <3>1 DEF FlowsOwned, TasksStarted
  <2>3. task[x].index # i
    BY <1>4, <2>1, <2>2 DEF b
  <2>4. QED
    BY <1>7, <2>1, <2>2, <2>3
<1>11. \A x \in Bundle : task'[x] = NoTask => dstAddr'[x] = NoAddr
  BY <1>1, <1>2 DEF FlowsOwned
<1>12. \A j \in Indices : ~AwaitsBundle(j)'
  BY <1>1, <1>2 DEF AwaitsBundle, Loaded, ListsOK, NoRequest
<1>13. QED
  BY <1>8, <1>9, <1>10, <1>11, <1>12 DEF FlowsOwned, IndicesVacant

LEMMA ServerKeepsOwners ==
    ASSUME OwnershipInv, LoadEnds \/ Save \/ Start
    PROVE  FlowsOwned' /\ IndicesVacant'
<1>1. BundlesTypeOK /\ BundlesOwned /\ TasksStarted /\ ListsOK /\ FlowsOwned /\ IndicesVacant
  BY DEF OwnershipInv, MulticastsInv, BundlesInv
<1>2. task \in [Bundle -> TaskState] /\ bundles \in [Indices -> Bundle \cup {NoBundle}]
  BY <1>1 DEF BundlesTypeOK, TaskState
<1>3. UNCHANGED <<control, expired, bundles, dstAddr, reserved, request, aborted>>
  BY DEF LoadEnds, Save, Start, flowsVars, bundleVars, mdnsVars
<1>4. ASSUME NEW x \in Bundle
      PROVE  StaysPut(x) /\ task'[x].index = task[x].index /\ (task'[x] = NoTask => task[x] = NoTask)
  <2>1. CASE task'[x] = task[x]
    BY <1>3, <2>1 DEF StaysPut, Pending, Checked
  <2>2. CASE Save /\ task[x].pc = "spawn"
    <3> DEFINE rec == [task[x] EXCEPT !.pc = "query"]
    <3>1. rec.pc = "query" /\ rec.addr = task[x].addr /\ rec.index = task[x].index
      BY <1>2, TaskStateAt
    <3> HIDE DEF rec
    <3>2. task'[x] = rec
      BY <2>2 DEF Save, rec
    <3>3. Pending(x) /\ Pending(x)' /\ ~Checked(x)'
      BY <2>2, <3>1, <3>2 DEF Pending, Checked
    <3>4. task'[x] # NoTask
      BY <3>1, <3>2 DEF NoTask
    <3>5. QED
      BY <1>3, <3>1, <3>2, <3>3, <3>4 DEF StaysPut
  <2>3. CASE Save /\ task[x].pc # "spawn"
    BY <2>1, <2>3 DEF Save
  <2>4. CASE LoadEnds \/ Start
    BY <2>1, <2>4 DEF LoadEnds, Start
  <2>5. QED
    BY <2>2, <2>3, <2>4
<1>5. \A j \in Indices : FlowStays(j)
  BY <1>3 DEF FlowStays
<1>6. \A j \in Indices : Owns(j)'
  BY <1>1, <1>2, <1>3, <1>4, <1>5, OwnsStays DEF FlowsOwned
<1>7. ASSUME NEW x \in Bundle, Pending(x)', x \notin aborted' PROVE bundles'[task'[x].index] = x
  <2>1. Pending(x) /\ task'[x].index = task[x].index
    BY <1>4, <1>7 DEF StaysPut
  <2>2. QED
    BY <1>1, <1>3, <1>7, <2>1 DEF FlowsOwned
<1>8. FlowsOwned'
  BY <1>1, <1>3, <1>4, <1>6, <1>7 DEF FlowsOwned
<1>9. IndicesVacant'
  <2>1. ~Loaded' => ~Loaded
    BY DEF LoadEnds, Save, Start, Loaded
  <2>2. QED
    BY <1>1, <1>3, <2>1 DEF IndicesVacant, AwaitsBundle
<1>10. QED
  BY <1>8, <1>9

\* A request is checked, or comes to nothing.
LEMMA RequestKeepsOwners ==
    ASSUME OwnershipInv,
           \/ \E i \in Indices, channels \in SUBSET Channels : CreateMulticast(i, channels)
           \/ AddRefused \/ AddPanics
    PROVE  FlowsOwned' /\ IndicesVacant'
<1>1. UNCHANGED <<control, expired, bundles, dstAddr, reserved, task, server, toLoad, aborted>>
  BY DEF CreateMulticast, AddRefused, AddPanics, flowsVars, bundleVars, mdnsVars
<1>2. FlowsOwned'
  BY <1>1 DEF OwnershipInv, FlowsOwned, Owns, Pending, Checked
<1>3. ASSUME NEW i \in Indices, NEW channels \in SUBSET Channels, CreateMulticast(i, channels)
      PROVE  IndicesVacant'
  <2>1. control.flows[i].remote = NoAddr
    BY <1>3
    DEF CreateMulticast, OwnershipInv, MulticastsInv, TransmitterInv, FlowsInv, TablesInv, TablesMatch
  <2>2. \A j \in Indices \ {i} : AwaitsBundle(j)' => AwaitsBundle(j)
    BY <1>1, <1>3 DEF CreateMulticast, AwaitsBundle, Loaded
  <2>3. QED
    BY <1>1, <2>1, <2>2, ReceiversAreUnicast DEF IndicesVacant, OwnershipInv
<1>4. CASE AddRefused \/ AddPanics
  <2>1. \A j \in Indices : AwaitsBundle(j)' => AwaitsBundle(j)
    BY <1>1, <1>4 DEF AddRefused, AddPanics, AwaitsBundle, Loaded, NoRequest
  <2>2. IndicesVacant'
    BY <1>1, <2>1 DEF IndicesVacant, OwnershipInv
  <2>3. QED
    BY <1>2, <2>2
<1>5. QED
  BY <1>2, <1>3, <1>4

LEMMA EndKeepsOwners ==
    ASSUME OwnershipInv, Stop \/ Crash
    PROVE  FlowsOwned' /\ IndicesVacant'
<1>1. FlowsOwned
  BY DEF OwnershipInv
<1>2. /\ bundles' = [i \in Indices |-> NoBundle]
      /\ control' = NoFlows
  BY DEF Stop, Crash, ResetFlows
<1>3. \A i \in Indices : bundles'[i] = NoBundle /\ control'.flows[i] = NoFlow
  BY <1>2 DEF NoFlows
<1>4. ASSUME NEW x \in Bundle
      PROVE  /\ Pending(x)' => x \in aborted'
             /\ task'[x] = NoTask => dstAddr'[x] = NoAddr
  <2>1. CASE Stop
    <3>1. UNCHANGED <<task, dstAddr>> /\ aborted' = {b \in Bundle : task[b] # NoTask}
      BY <2>1 DEF Stop
    <3>2. Pending(x)' => task[x] # NoTask
      BY <3>1 DEF Pending, NoTask
    <3>3. QED
      BY <1>1, <3>1, <3>2 DEF FlowsOwned
  <2>2. CASE Crash
    BY <2>2 DEF Crash, Pending, NoTask
  <2>3. QED
    BY <2>1, <2>2
<1>5. FlowsOwned'
  BY <1>3, <1>4, ReceiversAreUnicast DEF FlowsOwned, Owns
<1>6. QED
  BY <1>3, <1>5, ReceiversAreUnicast DEF IndicesVacant

LEMMA OthersKeepOwners ==
    ASSUME OwnershipInv, "takenIndex" \notin Races, TablesMatch(control'),
           OtherUsers \/ UNCHANGED vars
    PROVE  FlowsOwned' /\ IndicesVacant'
<1>1. /\ BundlesTypeOK /\ BundlesOwned /\ TasksStarted /\ FlowsOwned /\ RequestOK
      /\ MulticastsInv /\ QueueInvFor(Receivers) /\ IndicesVacant
      /\ TablesTypeOK(control) /\ TablesMatch(control)
  BY DEF OwnershipInv, MulticastsInv, BundlesInv, TransmitterInv, FlowsInv, TablesInv
<1>2. UNCHANGED <<bundles, dstAddr, reserved, task, aborted, server, request, toLoad>>
  BY DEF OtherUsers, vars, multicastVars, bundleVars, mdnsVars, serverVars
<1>3. ASSUME NEW i \in Indices
      PROVE  /\ Keeps(control, control', i)
             /\ control.flows[i].remote \in MulticastAddrs =>
                    (control.flows[i].id \in expired' <=> control.flows[i].id \in expired)
  <2>1. CASE OtherUsers
    BY <1>1, <2>1, OtherUsersKeep DEF OtherUsers
  <2>2. CASE UNCHANGED vars
    BY <2>2 DEF vars, flowsVars, Keeps
  <2>3. QED
    BY <2>1, <2>2
<1>4. ASSUME NEW i \in Indices PROVE Owns(i)'
  <2>1. ASSUME bundles[i] # NoBundle PROVE StaysPut(bundles[i]) /\ FlowStays(i)
    <3>1. bundles[i] \in Bundle /\ task[bundles[i]] # NoTask
      BY <1>1, <2>1 DEF BundlesTypeOK, BundlesOwned
    <3>2. control.flows[i].remote \in MulticastAddrs
      BY <1>1, <2>1, <3>1 DEF FlowsOwned, Owns, TasksStarted
    <3>3. FlowStays(i)
      BY <1>3, <3>2 DEF FlowStays, Keeps
    <3>4. StaysPut(bundles[i])
      BY <1>2 DEF StaysPut, Pending, Checked
    <3>5. QED
      BY <3>3, <3>4
  <2>2. QED
    BY <1>1, <1>2, <2>1, OwnsStays DEF FlowsOwned
<1>5. FlowsOwned'
  <2>1. \A i \in Indices : control'.flows[i].remote \in MulticastAddrs => bundles'[i] # NoBundle
    BY <1>1, <1>2, <1>3 DEF FlowsOwned, Keeps
  <2>2. \A b \in Bundle : Pending(b)' => Pending(b)
    BY <1>2 DEF Pending
  <2>3. QED
    BY <1>1, <1>2, <1>4, <2>1, <2>2 DEF FlowsOwned
<1>6. IndicesVacant'
  <2>1. \A i \in Indices : AwaitsBundle(i)' = AwaitsBundle(i)
    BY <1>2 DEF AwaitsBundle, Loaded
  <2>2. ASSUME NEW i \in Indices, AwaitsBundle(i)
        PROVE  control'.flows[i].remote = control.flows[i].remote
    <3>1. CASE TxThread \/ UNCHANGED vars
      <4>1. control'.flows = control.flows
        BY <1>1, <3>1
        DEF TxThread, ExecuteAdd, ExecuteRemove, ExecuteSetChannels, Expire, Consume,
            TablesTypeOK, vars, flowsVars
      <4>2. QED
        BY <4>1
    <3>2. CASE Loaded /\ RequestedIndexFree
      <4>1. request.pc = "checked" /\ request.index = i
        BY <2>2, <3>2 DEF AwaitsBundle
      <4>2. control'.info[i] = control.info[i]
        BY <3>2, <4>1 DEF RequestedIndexFree
      <4>3. QED
        BY <1>1, <4>2 DEF TablesMatch
    <3>3. QED
      BY <3>1, <3>2 DEF OtherUsers
  <2>3. QED
    BY <1>1, <2>1, <2>2 DEF IndicesVacant
<1>7. QED
  BY <1>5, <1>6

-----------------------------------------------------------------------------
LEMMA OwnershipInvInit == Init => OwnershipInv
<1> SUFFICES ASSUME Init PROVE FlowsOwned /\ IndicesVacant
  BY MulticastsInvInit, QueueInvInit DEF OwnershipInv, Init
<1>1. control.flows = [i \in Indices |-> NoFlow]
  BY DEF Init, FlowsInit, NoFlows
<1>2. \A b \in Bundle : task[b].pc = "none" /\ dstAddr[b] = NoAddr
  BY DEF Init, NoTask
<1>3. \A i \in Indices : bundles[i] = NoBundle
  BY DEF Init
<1>4. QED
  BY <1>1, <1>2, <1>3, ReceiversAreUnicast DEF FlowsOwned, Owns, Pending, IndicesVacant

\* A bundle that gets its flow finds the index vacant.
LEMMA IndexIsVacant ==
    ASSUME OwnershipInv, NEW i \in Indices, AwaitsBundle(i), bundles[i] = NoBundle
    PROVE  control.flows[i] = NoFlow
<1>1. control.flows[i] \in FlowsUpTo(created)
  BY DEF OwnershipInv, QueueInvFor, Queued, QueueTypeOK
<1>2. control.flows[i].remote \notin Receivers \cup MulticastAddrs
  BY DEF OwnershipInv, FlowsOwned, IndicesVacant
<1>3. QED
  BY <1>1, <1>2 DEF FlowsUpTo, Addrs

\* What must not happen for each bundle to have its flow.
FlowsAreLost == {"deleteInGrace", "takenIndex", "usedAddress", "noSocket"}

LEMMA OwnershipInvNext ==
    ASSUME Races \cap FlowsAreLost = {}
    PROVE  OwnershipInv /\ [Next]_vars => OwnershipInv'
<1> SUFFICES ASSUME OwnershipInv, [Next]_vars PROVE OwnershipInv'
  OBVIOUS
<1>a. Races \cap {"deleteInGrace", "takenIndex", "usedAddress", "noSocket"} = {}
  BY DEF FlowsAreLost
<1>b. MulticastsInv'
  BY MulticastsInvNext DEF OwnershipInv
<1>c. QueueInvFor(Receivers)'
  <2>1. TasksStarted /\ RequestOK /\ FlowsInv /\ QueueInvFor(Receivers)
    BY DEF OwnershipInv, MulticastsInv, BundlesInv, TransmitterInv
  <2>2. [NextWithin(Receivers)]_flowsVars
    BY <1>a, <2>1, StepsOfTransmitter
  <2>3. Receivers \in SUBSET Addrs
    BY DEF Addrs
  <2>4. QED
    BY <2>1, <2>2, <2>3, QueueInvNext
<1>d. TablesMatch(control')
  BY <1>b DEF MulticastsInv, TransmitterInv, FlowsInv, TablesInv
<1> SUFFICES FlowsOwned' /\ IndicesVacant'
  BY <1>b, <1>c DEF OwnershipInv
<1>1. CASE AddChecked
  <2>1. PICK a \in RandomDestination(control) : AddBundle(request.index, request.channels, a)
    BY <1>1 DEF AddChecked
  <2>2. request.index \in Indices /\ AwaitsBundle(request.index)
        /\ UNCHANGED toLoad /\ request' = NoRequest
    BY <1>1 DEF AddChecked, AwaitsBundle, OwnershipInv, MulticastsInv, BundlesInv, RequestOK
  <2>3. bundles[request.index] = NoBundle
    BY <2>1 DEF AddBundle
  <2>4. QED
    BY <1>a, <2>1, <2>2, <2>3, IndexIsVacant, AddBundleKeepsOwners
<1>2. ASSUME NEW i \in Indices, LoadNext(i) PROVE FlowsOwned' /\ IndicesVacant'
  <2>1. PICK a \in RandomDestination(control) : AddBundle(i, toLoad[i].channels, a)
    BY <1>2, <1>a DEF LoadNext
  <2>2. AwaitsBundle(i) /\ UNCHANGED toLoad /\ request' = request
    BY <1>2 DEF LoadNext, AwaitsBundle, Loaded
  <2>3. bundles[i] = NoBundle
    BY <2>1 DEF AddBundle
  <2>4. QED
    BY <1>a, <2>1, <2>2, <2>3, IndexIsVacant, AddBundleKeepsOwners
<1>3. ASSUME NEW i \in Indices, DeleteMulticast(i) PROVE FlowsOwned' /\ IndicesVacant'
  BY <1>3, <1>a, DeleteKeepsOwners
<1>4. CASE LoadEnds \/ Save \/ Start
  BY <1>4, ServerKeepsOwners
<1>5. CASE Stop \/ Crash
  BY <1>5, EndKeepsOwners
<1>6. ASSUME NEW b \in Bundle, BundleTask(b) PROVE FlowsOwned' /\ IndicesVacant'
  BY <1>6, <1>a, QuietTaskKeepsOwners, ActivateKeepsOwners, RetryKeepsOwners DEF BundleTask
<1>7. CASE OtherUsers \/ UNCHANGED vars
  BY <1>7, <1>a, <1>d, OthersKeepOwners
<1>8. CASE \/ \E i \in Indices, channels \in SUBSET Channels : CreateMulticast(i, channels)
           \/ AddRefused \/ AddPanics
  BY <1>8, RequestKeepsOwners
<1>9. QED
  BY <1>1, <1>2, <1>3, <1>4, <1>5, <1>6, <1>7, <1>8 DEF Next

\* The grace period is respected for any number of bundles, retries, stops,
\* restarts and crashes, as long as no bundle is deleted during it and each gets
\* its flow: no receiver takes the index between the check of a request and its
\* execution, no saved address is in use when it is loaded, and sockets can be
\* made.
THEOREM GraceIsRespected ==
    ASSUME Races \cap FlowsAreLost = {}
    PROVE  Spec => []GracePeriodRespected
<1>1. OwnershipInv => GracePeriodRespected
  <2> SUFFICES ASSUME OwnershipInv, NEW i \in Indices,
                      control.flows[i].remote \in MulticastAddrs,
                      control.flows[i].id \notin expired
               PROVE  control.flows[i].remote \in reserved
    BY DEF GracePeriodRespected
  <2>1. bundles[i] # NoBundle /\ Owns(i) /\ BundlesTypeOK /\ BundlesOwned /\ TasksStarted
    BY DEF OwnershipInv, FlowsOwned, MulticastsInv, BundlesInv
  <2>2. ~Pending(bundles[i]) /\ control.flows[i].remote = task[bundles[i]].addr
    BY <2>1 DEF Owns
  <2>3. task[bundles[i]].pc = "done"
    <3>1. bundles[i] \in Bundle /\ task \in [Bundle -> TaskState]
      BY <2>1 DEF BundlesTypeOK, TaskState
    <3>2. task[bundles[i]] \in TaskState /\ task[bundles[i]].pc # "none"
      BY <2>1, <3>1 DEF BundlesOwned, TasksStarted
    <3>3. QED
      BY <2>2, <3>2 DEF TaskState, Pending
  <2>4. QED
    BY <2>1, <2>2, <2>3 DEF Owns, Checked
<1>2. QED
  BY <1>1, OwnershipInvInit, OwnershipInvNext, PTL DEF Spec

LEMMA AdvertisedOwnedNext ==
    ASSUME Races \cap (FlowsAreLost \cup {"stop"}) = {}
    PROVE  OwnershipInv /\ AdvertisedOwned /\ [Next]_vars => AdvertisedOwned'
<1> SUFFICES ASSUME OwnershipInv, AdvertisedOwned, [Next]_vars PROVE AdvertisedOwned'
  OBVIOUS
<1>a. BundlesTypeOK /\ BundlesOwned /\ TasksStarted /\ BundlesInv
  BY DEF OwnershipInv, MulticastsInv, BundlesInv
<1>b. /\ task \in [Bundle -> TaskState] /\ bundles \in [Indices -> Bundle \cup {NoBundle}]
      /\ dstAddr \in [Bundle -> MulticastAddrs \cup {NoAddr}]
      /\ advertised \in [Indices -> MulticastAddrs \cup {NoAddr}]
  BY <1>a DEF BundlesTypeOK, TaskState
<1>c. Races \cap {"deleteInGrace", "takenIndex", "usedAddress", "noSocket", "stop"} = {}
  BY DEF FlowsAreLost
<1>1. ASSUME NEW i \in Indices, NEW channels, NEW a \in MulticastAddrs,
             AddBundle(i, channels, a)
      PROVE  AdvertisedOwned'
  <2>1. /\ bundles[i] = NoBundle
        /\ UNCHANGED <<dstAddr, advertised>>
        /\ \A j \in Indices \ {i} : bundles'[j] = bundles[j]
    BY <1>1 DEF AddBundle, mdnsVars
  <2>2. advertised[i] = NoAddr
    BY <2>1 DEF AdvertisedOwned
  <2>3. QED
    BY <2>1, <2>2 DEF AdvertisedOwned
<1>2. ASSUME NEW i \in Indices, DeleteMulticast(i) PROVE AdvertisedOwned'
  <2>1. /\ advertised' = [advertised EXCEPT ![i] = NoAddr]
        /\ bundles' = [bundles EXCEPT ![i] = NoBundle]
        /\ dstAddr' = dstAddr
    BY <1>2, <1>c DEF DeleteMulticast, TakeBack
  <2>2. \A j \in Indices \ {i} : advertised'[j] = advertised[j] /\ bundles'[j] = bundles[j]
    BY <1>b, <2>1
  <2>3. advertised'[i] = NoAddr
    BY <1>b, <2>1
  <2>4. QED
    BY <2>1, <2>2, <2>3 DEF AdvertisedOwned
<1>3. ASSUME NEW b \in Bundle, Activate(b) PROVE AdvertisedOwned'
  <2> DEFINE i == task[b].index
  <2>1. /\ Pending(b) /\ b \notin aborted
        /\ dstAddr' = [dstAddr EXCEPT ![b] = task[b].addr]
        /\ advertised' = [advertised EXCEPT ![i] = task[b].addr]
        /\ bundles' = bundles
    BY <1>3 DEF Activate, Pending
  <2>2. i \in Indices /\ bundles[i] = b /\ b # NoBundle
        /\ \A j \in Indices : bundles[j] = b => j = i
    BY <2>1, PendingOwns
  <2> HIDE DEF i
  <2>3. dstAddr'[b] = task[b].addr /\ advertised'[i] = task[b].addr
    BY <1>b, <2>1, <2>2
  <2>4. ASSUME NEW j \in Indices, j # i, advertised'[j] # NoAddr
        PROVE  bundles'[j] # NoBundle /\ dstAddr'[bundles'[j]] = advertised'[j]
    <3>1. advertised'[j] = advertised[j]
      BY <1>b, <2>1, <2>4
    <3>2. bundles[j] # NoBundle /\ dstAddr[bundles[j]] = advertised[j] /\ bundles[j] # b
      BY <2>2, <2>4, <3>1 DEF AdvertisedOwned
    <3>3. dstAddr'[bundles[j]] = dstAddr[bundles[j]]
      BY <1>b, <2>1, <3>2
    <3>4. QED
      BY <2>1, <3>1, <3>2, <3>3
  <2>5. QED
    BY <2>1, <2>2, <2>3, <2>4 DEF AdvertisedOwned
<1>4. CASE Crash
  BY <1>4 DEF Crash, AdvertisedOwned
<1>5. CASE UNCHANGED <<bundles, dstAddr, advertised>>
  BY <1>5 DEF AdvertisedOwned
<1>6. ASSUME NEW b \in Bundle, BundleTask(b) PROVE AdvertisedOwned'
  <2>1. CASE Activate(b)
    BY <1>3, <2>1
  <2>2. CASE FirstQuery(b) \/ SecondQuery(b) \/ Abort(b) \/ Retry(b)
    BY <1>5, <2>2 DEF FirstQuery, SecondQuery, Abort, Retry, bundleVars, mdnsVars
  <2>3. QED
    BY <1>6, <2>1, <2>2 DEF BundleTask
<1>7. CASE LoadEnds \/ Save \/ Start \/ OtherUsers \/ UNCHANGED vars
  BY <1>5, <1>7
  DEF LoadEnds, Save, Start, OtherUsers, vars, multicastVars, bundleVars, mdnsVars
<1>8. ~Stop
  BY <1>c DEF Stop
<1>9. CASE \/ \E i \in Indices, channels \in SUBSET Channels : CreateMulticast(i, channels)
           \/ AddRefused \/ AddPanics
  BY <1>5, <1>9 DEF CreateMulticast, AddRefused, AddPanics, bundleVars, mdnsVars
<1>10. ASSUME NEW i \in Indices, LoadNext(i) PROVE AdvertisedOwned'
  BY <1>1, <1>10 DEF LoadNext
<1>11. CASE AddChecked
  BY <1>1, <1>11
  DEF AddChecked, RandomDestination, OwnershipInv, MulticastsInv, BundlesInv, RequestOK
<1>12. QED
  BY <1>2, <1>4, <1>6, <1>7, <1>8, <1>9, <1>10, <1>11 DEF Next

\* What is advertised at an index is a bundle, and its flow transmits to the
\* address it is advertised with, across crashes and restarts, as long as no
\* bundle is deleted during its grace period, each gets its flow (see above) and
\* the transmitter is not stopped.
THEOREM AdvertisedIsTransmitted ==
    ASSUME Races \cap (FlowsAreLost \cup {"stop"}) = {}
    PROVE  Spec => [](AdvertisedIsOnAir /\ DeletedIsNotAdvertised)
<1>1. Init => AdvertisedOwned
  BY DEF Init, AdvertisedOwned
<1>2. OwnershipInv /\ AdvertisedOwned => AdvertisedIsOnAir
  <2> SUFFICES ASSUME OwnershipInv, AdvertisedOwned, NEW i \in Indices, advertised[i] # NoAddr
               PROVE  control.flows[i].remote = advertised[i]
                      /\ control.flows[i].id \notin expired
    BY DEF AdvertisedIsOnAir
  <2>1. bundles[i] # NoBundle /\ dstAddr[bundles[i]] = advertised[i] /\ Owns(i)
    BY DEF AdvertisedOwned, OwnershipInv, FlowsOwned
  <2>2. QED
    BY <2>1 DEF Owns
<1>3. AdvertisedOwned => DeletedIsNotAdvertised
  BY DEF AdvertisedOwned, DeletedIsNotAdvertised
<1>4. Races \cap FlowsAreLost = {}
  OBVIOUS
<1>5. OwnershipInv /\ [Next]_vars => OwnershipInv'
  BY <1>4, OwnershipInvNext
<1>6. OwnershipInv /\ AdvertisedOwned /\ [Next]_vars => AdvertisedOwned'
  BY AdvertisedOwnedNext
<1>7. QED
  BY <1>1, <1>2, <1>3, <1>5, <1>6, OwnershipInvInit, PTL DEF Spec
=============================================================================
