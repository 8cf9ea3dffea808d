-------------------------- MODULE BackendContract --------------------------
(***************************************************************************)
(* What a PeerConnection may rely on: the contract of BackendConnection    *)
(* and PrioritizedBackendConnection (lib/src/backend.dart).  A backend     *)
(* accepts complete frames while it is open.  It answers each of them      *)
(* once: submitted to the platform, in acceptance order within a priority, *)
(* or failed together with everything else that is pending.                *)
(***************************************************************************)
EXTENDS Integers, Sequences

CONSTANTS
    Frames,         \* what is written
    Priorities      \* SendPriority indices

VARIABLES
    open,   \* state == TransportConnectionState.open
    writes  \* every accepted TransportWrite, in acceptance order

contractVars == <<open, writes>>

PendingWrites == {w \in 1..Len(writes) : writes[w].state = "pending"}

(* A pending write may be submitted when no earlier one of its priority is *)
(* still pending.                                                          *)
Eligible(w) ==
    /\ w \in PendingWrites
    /\ \A v \in PendingWrites :
            writes[v].priority = writes[w].priority => w =< v

Accept(frame, priority) ==
    /\ open
    /\ writes' = Append(writes, [frame |-> frame, priority |-> priority,
                                 state |-> "pending"])
    /\ UNCHANGED open

Complete(w) ==
    /\ open
    /\ Eligible(w)
    /\ writes' = [writes EXCEPT ![w].state = "submitted"]
    /\ UNCHANGED open

FailAll ==
    /\ open
    /\ open' = FALSE
    /\ writes' = [w \in 1..Len(writes) |->
            IF writes[w].state = "pending"
            THEN [writes[w] EXCEPT !.state = "failed"] ELSE writes[w]]

ContractInit == open = TRUE /\ writes = <<>>

ContractNext ==
    \/ \E frame \in Frames, priority \in Priorities : Accept(frame, priority)
    \/ \E w \in 1..Len(writes) : Complete(w)
    \/ FailAll

ContractSpec == ContractInit /\ [][ContractNext]_contractVars
=============================================================================
