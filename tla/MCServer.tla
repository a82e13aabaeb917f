------------------------------ MODULE MCServer ------------------------------
(***************************************************************************)
(* For TLC, three parts of the device server that have no state in common: *)
(* the real-time box channel, the periodic samples collector and the names *)
(* of the channels.  A behaviour is one of the three, so that a run        *)
(* explores the sum of their state spaces and not the product.             *)
(***************************************************************************)
EXTENDS RealTimeBox, Collector, Names

VARIABLE part       \* which of the three moves

serverPartsVars == <<vars, collectorVars, namesVars, part>>

\* A flow of a short latency and one of a long one.
ShortAndLong == <<1, 3>>

\* ... whose latency and the stall of the RX thread exceed READ_INTERVAL.
ShortAndTooLong == <<1, 4>>

ServerInit ==
    /\ Init /\ CollectorInit /\ NamesInit
    /\ part \in {"box", "collector", "names"}

OfBox(action) == part = "box" /\ action /\ UNCHANGED <<collectorVars, namesVars, part>>
OfCollector   == part = "collector" /\ CollectorNext /\ UNCHANGED <<vars, namesVars, part>>
OfNames       == part = "names" /\ NamesNext /\ UNCHANGED <<vars, collectorVars, part>>

ServerNext == OfBox(Next) \/ OfCollector \/ OfNames

\* The fairness of RealTimeBox!FairSpec.
FairServerSpec ==
    /\ ServerInit /\ [][ServerNext]_serverPartsVars
    /\ WF_serverPartsVars(OfBox(ReceiverNext))
    /\ WF_serverPartsVars(OfBox(SendSwap))
    /\ WF_serverPartsVars(OfBox(sender = "collect" /\ CollectGarbage))
=============================================================================
