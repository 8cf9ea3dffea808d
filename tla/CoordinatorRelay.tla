-------------------------- MODULE CoordinatorRelay --------------------------
(***************************************************************************)
(* The coordinator's relay bookkeeping: CoordinatorRelayTable              *)
(* (lib/src/protocol/group_relay.dart), which owns the bounded             *)
(* reservations and the per source/destination order of admitted           *)
(* GROUP_RELIABLE relays, together with CoordinatorRelayController         *)
(* (lib/src/protocol/coordinator_relay_controller.dart), which turns every *)
(* table outcome into a declarative CoordinatorRelayActions value.         *)
(*                                                                         *)
(* Neither class performs I/O.  The specification lets a caller invoke the *)
(* operations in any order, with any committed membership and any          *)
(* destination readiness, so what is shown here holds for every caller;    *)
(* RelayRuntime is the caller that the program really has.                 *)
(***************************************************************************)
EXTENDS Integers, Sequences, FiniteSets, SequencesExt

CONSTANTS
    Peers,          \* PeerIds of the group
    Coordinator,    \* coordinatorPeerId, the local peer
    MessageIds,     \* GroupMessageIds
    Payloads,       \* application contents (bytes and priority)
    PayloadSize,    \* length of each payload, the reservationBytes of a relay
    MaxBytes,       \* maxReservedBytesPerDestination
    MaxMessages,    \* maxReservedMessagesPerDestination
    None            \* absence of an optional value (Dart null)

Modes == {"acked", "ordered"}

Operations ==
    [source : Peers, destination : Peers, id : MessageIds,
     mode : Modes, payload : Payloads]

(* _operationKey and _sourceDestinationKey *)
Keys == Peers \X MessageIds
Pairs == Peers \X Peers
Key(op) == <<op.source, op.id>>
Pair(op) == <<op.source, op.destination>>

FailureStatuses ==
    {"destinationNotInGroup", "destinationUnavailable",
     "destinationAckTimeout", "relayQueueFull"}

(* The statuses a failed final hop is reported with. *)
HopFailures == {"destinationUnavailable", "destinationAckTimeout"}

SignalStatuses ==
    FailureStatuses \cup {"deliveryAck", "sentToDestinationTransport"}

(* GROUP_DELIVERY_ACK and GROUP_RELAY_STATUS payloads *)
Signals ==
    [status : SignalStatuses, source : Peers, destination : Peers,
     id : MessageIds]

LocalStates == {"sentToTransport", "remoteAcknowledged", "failed"}

(* The committed memberships a coordinator can have: it is a member itself. *)
Memberships == {members \in SUBSET Peers : Coordinator \in members}

(* CoordinatorRelayActions *)
RelayActions ==
    [genericAck : BOOLEAN,
     deliver : Operations \cup {None},
     signal : Signals \cup {None},
     localState : LocalStates \cup {None},
     forward : Operations \cup {None}]

ASSUME CoordinatorAssumption == Coordinator \in Peers
ASSUME NoneAssumption ==
    /\ None \notin Operations
    /\ None \notin Signals
    /\ None \notin LocalStates
ASSUME SizeAssumption == PayloadSize \in [Payloads -> Nat]
ASSUME LimitAssumption == MaxBytes \in Nat /\ MaxMessages \in Nat \ {0}
ASSUME FiniteAssumption == IsFiniteSet(Peers) /\ IsFiniteSet(MessageIds)

VARIABLES
    operations,         \* _operations: key -> admitted operation
    reservedBytes,      \* _reservations: destination -> bytes
    reservedMessages,   \* _reservations: destination -> messages
    order,              \* _sourceDestinationOrder: pair -> list of keys
    out                 \* the actions returned by the last call

tableVars == <<operations, reservedBytes, reservedMessages, order>>
relayVars == <<operations, reservedBytes, reservedMessages, order, out>>

-----------------------------------------------------------------------------
(* CoordinatorRelayActions values                                          *)

NoActions ==
    [genericAck |-> FALSE, deliver |-> None, signal |-> None,
     localState |-> None, forward |-> None]

Signal(op, status) ==
    [status |-> status, source |-> op.source,
     destination |-> op.destination, id |-> op.id]

(* The pairwise ACK of a source hop exists only for acknowledged traffic   *)
(* that arrived from another peer.                                         *)
GenericAck(op) == op.source # Coordinator /\ op.mode = "acked"

(* _routeFailure: a local source fails its handle, a remote one is told.   *)
RouteFailure(op, status, ack, next) ==
    IF op.source = Coordinator
    THEN [NoActions EXCEPT !.genericAck = ack, !.localState = "failed",
                           !.forward = next]
    ELSE [NoActions EXCEPT !.genericAck = ack, !.signal = Signal(op, status),
                           !.forward = next]

(* Mutant of FinalSuccess: submission counts as delivery in both modes.    *)
FinalSuccessAlwaysDelivery(op) ==
    [local |-> "remoteAcknowledged", status |-> "deliveryAck"]

(* The outcome of a relay that reached its destination.                    *)
FinalSuccess(op) ==
    IF op.mode = "acked"
    THEN [local |-> "remoteAcknowledged", status |-> "deliveryAck"]
    ELSE [local |-> "sentToTransport",
          status |-> "sentToDestinationTransport"]

(* Mutant of RouteSuccess: the local source is forgotten.                  *)
RouteSuccessNoLocalState(op, next) ==
    IF op.source = Coordinator
    THEN [NoActions EXCEPT !.forward = next]
    ELSE [NoActions EXCEPT !.signal = Signal(op, FinalSuccess(op).status),
                           !.forward = next]

RouteSuccess(op, next) ==
    IF op.source = Coordinator
    THEN [NoActions EXCEPT !.localState = FinalSuccess(op).local,
                           !.forward = next]
    ELSE [NoActions EXCEPT !.signal = Signal(op, FinalSuccess(op).status),
                           !.forward = next]

-----------------------------------------------------------------------------
(* CoordinatorRelayTable                                                   *)

Admitted(key) == operations[key] # None

(* The relays that hold a reservation towards destination.                 *)
AdmittedTo(destination) ==
    {key \in Keys : Admitted(key) /\ operations[key].destination = destination}

(* takeNextForward, evaluated after a completion changed the order.        *)
NextForward(ops, pairOrder) ==
    IF pairOrder = <<>> THEN None ELSE ops[Head(pairOrder)]

(* Mutants of Release: only the head leaves its order; bytes are not given *)
(* back.                                                                   *)
ReleaseOnlyHead(key) ==
    LET op == operations[key] IN
    /\ operations' = [operations EXCEPT ![key] = None]
    /\ order' = [order EXCEPT ![Pair(op)] = IF Head(@) = key THEN Tail(@) ELSE @]
    /\ reservedBytes' = [reservedBytes EXCEPT
            ![op.destination] = @ - PayloadSize[op.payload]]
    /\ reservedMessages' = [reservedMessages EXCEPT ![op.destination] = @ - 1]

(* complete(): release one relay, whichever position it has in its order.  *)
Release(key) ==
    LET op == operations[key] IN
    /\ operations' = [operations EXCEPT ![key] = None]
    /\ order' = [order EXCEPT ![Pair(op)] = RemoveFirst(@, key)]
    /\ reservedBytes' = [reservedBytes EXCEPT
            ![op.destination] = @ - PayloadSize[op.payload]]
    /\ reservedMessages' = [reservedMessages EXCEPT ![op.destination] = @ - 1]

(* Mutant of ReleaseDestination: the slots are not given back.             *)
ReleaseDestinationKeepsSlots(destination) ==
    /\ operations' = [key \in Keys |->
            IF key \in AdmittedTo(destination) THEN None ELSE operations[key]]
    /\ order' = [pair \in Pairs |->
            IF pair[2] = destination THEN <<>> ELSE order[pair]]
    /\ reservedBytes' = [reservedBytes EXCEPT ![destination] = 0]
    /\ UNCHANGED reservedMessages

(* _removeWhere for a destination.  The loop takes every relay towards the *)
(* destination out of its order list and gives back its reservation; the   *)
(* lists hold nothing else (OrderExact), so they and the reservation end   *)
(* up empty and are dropped.                                               *)
ReleaseDestination(destination) ==
    /\ operations' = [key \in Keys |->
            IF key \in AdmittedTo(destination) THEN None ELSE operations[key]]
    /\ order' = [pair \in Pairs |->
            IF pair[2] = destination THEN <<>> ELSE order[pair]]
    /\ reservedBytes' = [reservedBytes EXCEPT ![destination] = 0]
    /\ reservedMessages' = [reservedMessages EXCEPT ![destination] = 0]

-----------------------------------------------------------------------------
(* CoordinatorRelayController.admit, one action per outcome.  members is   *)
(* the committed membership, ready the state of the destination's          *)
(* PeerConnection at the moment of the call.                               *)

ValidRoute(op, members) ==
    op.source \in members /\ op.destination # op.source

(* The checks that stand before the existing-operation lookup all passed.  *)
Routable(op, members, ready) ==
    /\ ValidRoute(op, members)
    /\ op.destination \in members
    /\ op.destination # Coordinator
    /\ ready

(* protocolMismatch for an invalid route, messageIdCollision for an        *)
(* admitted key with other content: the call throws and changes nothing.   *)
AdmitThrows(op, members, ready) ==
    /\ \/ ~ValidRoute(op, members)
       \/ /\ Routable(op, members, ready)
          /\ Admitted(Key(op))
          /\ operations[Key(op)] # op
    /\ out' = {}
    /\ UNCHANGED tableVars

AdmitNotInGroup(op, members) ==
    /\ ValidRoute(op, members)
    /\ op.destination \notin members
    /\ out' = {RouteFailure(op, "destinationNotInGroup", GenericAck(op), None)}
    /\ UNCHANGED tableVars

AdmitLocal(op, members) ==
    /\ ValidRoute(op, members)
    /\ op.destination \in members
    /\ op.destination = Coordinator
    /\ out' = {[RouteSuccess(op, None) EXCEPT
                    !.genericAck = GenericAck(op), !.deliver = op]}
    /\ UNCHANGED tableVars

AdmitUnavailable(op, members, ready) ==
    /\ ValidRoute(op, members)
    /\ op.destination \in members
    /\ op.destination # Coordinator
    /\ ~ready
    /\ out' = {RouteFailure(op, "destinationUnavailable", GenericAck(op), None)}
    /\ UNCHANGED tableVars

AdmitDuplicate(op, members, ready) ==
    /\ Routable(op, members, ready)
    /\ operations[Key(op)] = op
    /\ out' = {[NoActions EXCEPT !.genericAck = GenericAck(op)]}
    /\ UNCHANGED tableVars

(* Mutant of HasCapacity: the new relay itself is not counted.             *)
HasCapacityBefore(op) ==
    /\ reservedBytes[op.destination] =< MaxBytes
    /\ reservedMessages[op.destination] =< MaxMessages

HasCapacity(op) ==
    /\ reservedBytes[op.destination] + PayloadSize[op.payload] =< MaxBytes
    /\ reservedMessages[op.destination] + 1 =< MaxMessages

AdmitQueueFull(op, members, ready) ==
    /\ Routable(op, members, ready)
    /\ ~Admitted(Key(op))
    /\ ~HasCapacity(op)
    /\ out' = {RouteFailure(op, "relayQueueFull", GenericAck(op), None)}
    /\ UNCHANGED tableVars

(* Mutants of AdmitForward: the relay is stored under its destination; it  *)
(* is forwarded whether or not others are before it.                       *)
AdmitForwardWrongKey(op, members, ready) ==
    /\ Routable(op, members, ready)
    /\ ~Admitted(Key(op))
    /\ HasCapacity(op)
    /\ operations' = [operations EXCEPT ![<<op.destination, op.id>>] = op]
    /\ order' = [order EXCEPT ![Pair(op)] = Append(@, Key(op))]
    /\ out' = {[NoActions EXCEPT !.genericAck = GenericAck(op)]}
    /\ UNCHANGED <<reservedBytes, reservedMessages>>

AdmitForwardAtOnce(op, members, ready) ==
    /\ Routable(op, members, ready)
    /\ ~Admitted(Key(op))
    /\ HasCapacity(op)
    /\ operations' = [operations EXCEPT ![Key(op)] = op]
    /\ reservedBytes' = [reservedBytes EXCEPT
            ![op.destination] = @ + PayloadSize[op.payload]]
    /\ reservedMessages' = [reservedMessages EXCEPT ![op.destination] = @ + 1]
    /\ order' = [order EXCEPT ![Pair(op)] = Append(@, Key(op))]
    /\ out' = {[NoActions EXCEPT !.genericAck = GenericAck(op), !.forward = op]}

(* forwardImmediately holds only for the first relay of its pair.          *)
AdmitForward(op, members, ready) ==
    /\ Routable(op, members, ready)
    /\ ~Admitted(Key(op))
    /\ HasCapacity(op)
    /\ operations' = [operations EXCEPT ![Key(op)] = op]
    /\ reservedBytes' = [reservedBytes EXCEPT
            ![op.destination] = @ + PayloadSize[op.payload]]
    /\ reservedMessages' = [reservedMessages EXCEPT ![op.destination] = @ + 1]
    /\ order' = [order EXCEPT ![Pair(op)] = Append(@, Key(op))]
    /\ out' = {[NoActions EXCEPT
                    !.genericAck = GenericAck(op),
                    !.forward = IF order[Pair(op)] = <<>> THEN op ELSE None]}

Admit(op, members, ready) ==
    \/ AdmitThrows(op, members, ready)
    \/ AdmitNotInGroup(op, members)
    \/ AdmitLocal(op, members)
    \/ AdmitUnavailable(op, members, ready)
    \/ AdmitDuplicate(op, members, ready)
    \/ AdmitQueueFull(op, members, ready)
    \/ AdmitForward(op, members, ready)

-----------------------------------------------------------------------------
(* Final-hop completion                                                    *)

(* complete() returned null: a completion that raced with a removal.       *)
AlreadyReleased(key) ==
    /\ ~Admitted(key)
    /\ out' = {NoActions}
    /\ UNCHANGED tableVars

(* finalHopSubmitted (ordered) and finalHopAcknowledged (acked).  Callers  *)
(* use the entry point of the relay's own delivery mode.                   *)
FinalHopSucceeded(key) ==
    /\ Admitted(key)
    /\ Release(key)
    /\ out' = {RouteSuccess(operations[key],
                   NextForward(operations', order'[Pair(operations[key])]))}

FinalHopSubmitted(key) ==
    AlreadyReleased(key)
        \/ (Admitted(key) /\ operations[key].mode = "ordered"
                /\ FinalHopSucceeded(key))

FinalHopAcknowledged(key) ==
    AlreadyReleased(key)
        \/ (Admitted(key) /\ operations[key].mode = "acked"
                /\ FinalHopSucceeded(key))

(* Mutants of FinalHopFailed: the successor is not taken; the relay stays  *)
(* in the table.                                                           *)
FinalHopFailedNoSuccessor(key, status) ==
    \/ AlreadyReleased(key)
    \/ /\ Admitted(key)
       /\ Release(key)
       /\ out' = {RouteFailure(operations[key], status, FALSE, None)}

FinalHopFailedKeepsRelay(key, status) ==
    \/ AlreadyReleased(key)
    \/ /\ Admitted(key)
       /\ out' = {RouteFailure(operations[key], status, FALSE, None)}
       /\ UNCHANGED tableVars

FinalHopFailed(key, status) ==
    \/ AlreadyReleased(key)
    \/ /\ Admitted(key)
       /\ Release(key)
       /\ out' = {RouteFailure(operations[key], status, FALSE,
                      NextForward(operations', order'[Pair(operations[key])]))}

-----------------------------------------------------------------------------
(* Destination and authority changes                                       *)

(* destinationResumeSucceeded: the head of every pair towards destination. *)
DestinationResumeSucceeded(destination) ==
    /\ out' = {[NoActions EXCEPT !.forward = operations[key]] :
                    key \in {k \in AdmittedTo(destination) :
                                k = Head(order[Pair(operations[k])])}}
    /\ UNCHANGED tableVars

(* Mutant of DestinationTerminated: only the heads are reported.           *)
DestinationTerminatedHeadsOnly(destination, status) ==
    /\ ReleaseDestination(destination)
    /\ out' = {RouteFailure(operations[key], status, FALSE, None) :
                    key \in {k \in AdmittedTo(destination) :
                                k = Head(order[Pair(operations[k])])}}

(* destinationResumeFailed and destinationRemoved differ in the status.    *)
DestinationTerminated(destination, status) ==
    /\ ReleaseDestination(destination)
    /\ out' = {RouteFailure(operations[key], status, FALSE, None) :
                    key \in AdmittedTo(destination)}

DestinationResumeFailed(destination) ==
    DestinationTerminated(destination, "destinationUnavailable")

DestinationRemoved(destination) ==
    DestinationTerminated(destination, "destinationNotInGroup")

(* coordinatorAuthorityLost releases everything and signals nothing.       *)
CoordinatorAuthorityLost ==
    /\ operations' = [key \in Keys |-> None]
    /\ order' = [pair \in Pairs |-> <<>>]
    /\ reservedBytes' = [peer \in Peers |-> 0]
    /\ reservedMessages' = [peer \in Peers |-> 0]
    /\ out' = {}

-----------------------------------------------------------------------------
RelayInit ==
    /\ operations = [key \in Keys |-> None]
    /\ order = [pair \in Pairs |-> <<>>]
    /\ reservedBytes = [peer \in Peers |-> 0]
    /\ reservedMessages = [peer \in Peers |-> 0]
    /\ out = {}

RelayNext ==
    \/ \E op \in Operations, members \in Memberships, ready \in BOOLEAN :
            Admit(op, members, ready)
    \/ \E key \in Keys : FinalHopSubmitted(key)
    \/ \E key \in Keys : FinalHopAcknowledged(key)
    \/ \E key \in Keys, status \in HopFailures : FinalHopFailed(key, status)
    \/ \E destination \in Peers : DestinationResumeSucceeded(destination)
    \/ \E destination \in Peers : DestinationResumeFailed(destination)
    \/ \E destination \in Peers : DestinationRemoved(destination)
    \/ CoordinatorAuthorityLost

RelaySpec == RelayInit /\ [][RelayNext]_relayVars

-----------------------------------------------------------------------------
(* Properties                                                              *)

TableTypeOK ==
    /\ operations \in [Keys -> Operations \cup {None}]
    /\ \A key \in Keys : Admitted(key) => Key(operations[key]) = key
    /\ reservedBytes \in [Peers -> Int]
    /\ reservedMessages \in [Peers -> Int]
    /\ order \in [Pairs -> Seq(Keys)]

(* Every table field holds values of its Dart type, an admitted operation  *)
(* is stored under its own key, and every call returns well-formed actions.*)
RelayTypeOK == TableTypeOK /\ out \in SUBSET RelayActions

(* Every order list of _sourceDestinationOrder names each admitted relay   *)
(* of its pair exactly once and names nothing else, whichever mixture of   *)
(* completions, removals and re-admissions happened, so takeNextForward    *)
(* never meets a dangling key and no admitted relay is forgotten.          *)
OrderExact ==
    \A pair \in Pairs :
        /\ \A i, j \in 1..Len(order[pair]) :
                order[pair][i] = order[pair][j] => i = j
        /\ \A i \in 1..Len(order[pair]) :
                /\ Admitted(order[pair][i])
                /\ Pair(operations[order[pair][i]]) = pair
        /\ \A key \in Keys :
                Admitted(key) /\ Pair(operations[key]) = pair
                    => \E i \in 1..Len(order[pair]) : order[pair][i] = key

(* The message reservation of a destination is exactly the number of its   *)
(* admitted relays: racing completions and removals never release twice    *)
(* and never leak a slot.                                                  *)
MessagesExact ==
    \A peer \in Peers :
        reservedMessages[peer] = Cardinality(AdmittedTo(peer))

(* Admission never lets a destination exceed either reservation limit.     *)
WithinLimits ==
    \A peer \in Peers :
        /\ reservedBytes[peer] =< MaxBytes
        /\ reservedMessages[peer] =< MaxMessages

(* Whenever another relay becomes the head of a source/destination order,  *)
(* the same call hands exactly that relay to the caller for forwarding:    *)
(* a completed, failed or first admitted relay never leaves a successor    *)
(* that nobody was asked to forward.                                       *)
HeadHandedOver ==
    [][\A pair \in Pairs :
        order'[pair] # <<>>
            /\ (order[pair] = <<>> \/ Head(order'[pair]) # Head(order[pair]))
            => \E a \in out' : a.forward = operations'[Head(order'[pair])]
      ]_relayVars

(* The terminal verdict on key carried by an actions value.                *)
Verdict(a, op) ==
    IF op.source = Coordinator
    THEN a.localState # None
    ELSE a.signal # None /\ a.signal.source = op.source /\ a.signal.id = op.id

(* A relay leaves the table only together with one verdict for its source, *)
(* except when authority is lost, which must stay silent                   *)
(* (coordinatorAuthorityLost creates no route signaling).                  *)
ReleasedWithVerdict ==
    [][LET released == {key \in Keys : Admitted(key) /\ operations'[key] = None}
       IN  \/ \A key \in released :
                \E a \in out' : Verdict(a, operations[key])
           \/ /\ out' = {}
              /\ \A key \in Keys : operations'[key] = None
      ]_relayVars

=============================================================================
