------------------------- MODULE MCCoordinatorRelay -------------------------
(* Three peers, two message ids and two contents of sizes 1 and 3.  With   *)
(* two slots and three bytes per destination both limits bind separately:  *)
(* a large relay leaves no bytes, two small ones leave bytes but no slot.  *)
EXTENDS CoordinatorRelay, TLC

CONSTANTS a, b, m1, m2, small, large

MCPayloadSize == [payload \in Payloads |-> IF payload = small THEN 1 ELSE 3]

(* The two members and the two message ids are interchangeable.            *)
MCSymmetry == Permutations({a, b}) \cup Permutations({m1, m2})
=============================================================================
