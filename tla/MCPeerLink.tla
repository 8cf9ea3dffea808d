----------------------------- MODULE MCPeerLink -----------------------------
(* Small instances of PeerLink: two messages in a few combinations of      *)
(* delivery mode, priority and length.                                     *)
EXTENDS PeerLink

Message(m, p, c) == [mode |-> m, priority |-> p, chunks |-> c]
Scenario(k, l, u, f) == [kinds |-> k, losses |-> l, fulls |-> u, faults |-> f]

AckedFirst == <<Message("acked", 0, 2), Message("ordered", 0, 1)>>
OrderedFirst == <<Message("ordered", 0, 2), Message("acked", 0, 1)>>
TwoAcked == <<Message("acked", 0, 1), Message("acked", 0, 1)>>

(* Two losses with and without a cancellation, a refused write before or   *)
(* after a loss, and a close at any time.                                  *)
MixedScenarios ==
    { Scenario(AckedFirst, 2, 0, {"cancel"}),
      Scenario(OrderedFirst, 2, 0, {}),
      Scenario(TwoAcked, 2, 0, {}),
      Scenario(AckedFirst, 1, 1, {"close"}),
      Scenario(OrderedFirst, 1, 1, {"cancel", "close"}) }

(* A bulk message followed by an interactive one.                          *)
PriorityScenarios ==
    { Scenario(<<Message("ordered", 1, 2), Message("ordered", 0, 1)>>, 0, 0, {}) }

(* An acknowledged message followed by an ordered one, both with the       *)
(* default priority.                                                       *)
OrderScenarios ==
    { Scenario(<<Message("acked", 0, 1), Message("ordered", 0, 1)>>, 0, 0, {}) }
=============================================================================
