--------------------------- MODULE MCRelayRuntime ---------------------------
(* The coordinator c with two members a and b.  All operations have the    *)
(* same small payload: the reservation limits are explored by              *)
(* MCCoordinatorRelay, here the queue never fills.                         *)
EXTENDS RelayRuntime

CONSTANTS a, b, m1, m2, m3, small

Send(from, to, id, mode) ==
    [source |-> from, destination |-> to, id |-> id, mode |-> mode,
     payload |-> small]

UnitSize == [payload \in Payloads |-> 1]

Scenario(workload, repeated, maxLosses, faults) ==
    [workload |-> workload, repeated |-> repeated, losses |-> maxLosses,
     faults |-> faults]

(* An acknowledged and an ordered send of one source to b.                 *)
Mixed(source) == {Send(source, b, m1, "acked"), Send(source, b, m2, "ordered")}

OneAcked == {Send(a, b, m1, "acked")}
TwoAcked == OneAcked \cup {Send(a, b, m2, "acked")}

(* Safety: one relayed and one local pair with every fault at once, an     *)
(* acknowledged pair likewise, and a source hop that arrives twice around  *)
(* a transport loss.                                                       *)
RaceScenarios ==
    {Scenario(Mixed(a), {}, 1, FaultKinds),
     Scenario(TwoAcked, {}, 1, FaultKinds),
     Scenario(Mixed(Coordinator), {}, 1, FaultKinds),
     Scenario(Mixed(a), {Send(a, b, m2, "ordered")}, 1, {"loss"})}

(* Liveness that the code does provide: ordered relays under losses and    *)
(* closes, and acknowledged relays, queued ones and one for the            *)
(* coordinator itself included, on stable links.                           *)
SettlingScenarios ==
    {Scenario({Send(a, b, m1, "ordered"), Send(a, b, m2, "ordered")}, {}, 2,
              {"loss", "lossInSubmission", "close"}),
     Scenario({Send(Coordinator, b, m1, "acked"),
               Send(Coordinator, b, m2, "acked"),
               Send(b, Coordinator, m1, "acked")}, {}, 0, {})}

(* Liveness that it does not provide.                                      *)
EarlyAckScenarios == {Scenario(OneAcked, {}, 0, {"earlyAck"})}

(* Order that it does not provide: three ordered sends of a pair whose     *)
(* link is lost twice, once while it carries a hop.                        *)
ReorderScenarios ==
    {Scenario({Send(a, b, id, "ordered") : id \in {m1, m2, m3}}, {}, 2,
              {"loss", "lossInSubmission"})}
=============================================================================
