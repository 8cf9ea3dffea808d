---------------------------- MODULE RelayRuntime ----------------------------
(***************************************************************************)
(* The coordinator half of _RuntimeGroupRouteTransport (lib/src/           *)
(* runtime.dart): it feeds complete source hops and local sends to the     *)
(* relay controller of CoordinatorRelay and carries out the returned       *)
(* actions over PeerConnections that may be lost, resumed or closed.       *)
(*                                                                         *)
(* The runtime is single-threaded Dart.  A handler runs to its next await  *)
(* without interruption; while it waits for a platform write any other     *)
(* event may be handled.  Each running handler is a task.  A task at an    *)
(* immediate program counter is still in its turn, so events wait for it   *)
(* (Quiescent); a suspended one waits for a write to complete.             *)
(***************************************************************************)
EXTENDS CoordinatorRelay

CONSTANTS
    Scenarios,      \* what the applications send and the environment does
    MaxArrivals,    \* bound: how often the hop of one operation arrives
    MaxTasks        \* bound: concurrently running handlers

FaultKinds ==
    {"earlyAck",        \* the ACK of a hop overtakes its last write completion
     "lateFrame",       \* a source frame is handled after its link was lost
     "loss",            \* a link is lost while no hop is being written to it
     "lossInSubmission",    \* ... during the first submission of a hop
     "lossInRetry",     \* ... during a retransmission of a hop
     "close",           \* a lost link is given up instead of resumed
     "leave",           \* a member leaves the group
     "cancel",          \* the local application cancels its own send
     "authority"}       \* another peer takes over as coordinator

Remotes == Peers \ {Coordinator}
TaskIds == 1..MaxTasks

(* The pairwise MessageId of a destination hop: one per admission.         *)
Hops == Keys \X (1..MaxArrivals)

(* RetainedAckOperation: one submission and two retransmissions.           *)
MaxRetries == 2

(* A scenario: the operations that the sources send, those whose hop may   *)
(* arrive MaxArrivals times and not only once, the bound on the transport  *)
(* losses of all links, and the races the environment may add.             *)
ASSUME ScenarioAssumption ==
    \A s \in Scenarios :
        /\ s.workload \subseteq Operations
        /\ \A op \in s.workload : op.source # op.destination
        /\ \A op1, op2 \in s.workload : Key(op1) = Key(op2) => op1 = op2
        /\ s.repeated \subseteq s.workload
        /\ s.losses \in Nat
        /\ s.faults \subseteq FaultKinds
ASSUME BoundAssumption ==
    /\ MaxArrivals \in Nat \ {0}
    /\ MaxTasks \in Nat \ {0}

VARIABLES
    scenario,   \* the scenario of this behaviour
    members,    \* committed membership of the GroupSession
    authority,  \* group.isCoordinator
    link,       \* state of the PeerConnection to each remote peer
    losses,     \* transport losses so far
    arrivals,   \* complete source hops (or local sends) handled, per key
    admissions, \* the keys of all relays admitted so far, in order
    tasks,      \* running handlers
    retained,   \* ackRetention entries of the destination hops
    liveHops,   \* _ackHops: hops whose ACK the runtime will recognise
    wire,       \* complete hops on their way to each destination
    acks,       \* generic ACKs on their way back
    delivered,  \* what each application received, without the duplicates
    handle,     \* _sourceHandles of the coordinator's own sends
    told        \* statuses submitted to each operation's remote source

sessionVars == <<members, authority, link, losses>>
arrivalVars == <<scenario, arrivals, admissions>>
retentionVars == <<retained, liveHops>>
airVars == <<wire, acks>>
resultVars == <<delivered, handle, told>>
runtimeVars == <<sessionVars, arrivalVars, tasks, retentionVars, airVars,
                 resultVars>>
vars == <<relayVars, runtimeVars>>

Workload == scenario.workload
Faults == scenario.faults

-----------------------------------------------------------------------------
(* Handlers                                                                *)

(* act: the actions being applied; local: the localSourceMessageId passed  *)
(* along, if any; rest: the actions the enclosing loop has still to apply; *)
(* hops: the hops still to be replayed; hop and peer: the hop being        *)
(* written and its link; from: the peer whose frame is being handled; own: *)
(* the send whose submitReliable catches what the handler throws.          *)
Task(pc, act, local, rest) ==
    [pc |-> pc, act |-> act, local |-> local, rest |-> rest,
     hops |-> {}, hop |-> None, peer |-> None, from |-> None, own |-> None]

ImmediatePcs == {"apply", "forward", "next", "replay"}
HopPcs == {"submitting", "resubmitting", "replaying"}

Running(pcs) == {t \in TaskIds : tasks[t] # None /\ tasks[t].pc \in pcs}
Quiescent == Running(ImmediatePcs) = {}
FreeTasks == {t \in TaskIds : tasks[t] = None}
NewTask == CHOOSE t \in FreeTasks : \A u \in FreeTasks : t =< u

(* An event handler starts when no other handler holds the turn.           *)
CanStart == Quiescent /\ FreeTasks # {}

Spawn(task) == tasks' = [tasks EXCEPT ![NewTask] = task]
Goto(t, pc) == tasks' = [tasks EXCEPT ![t].pc = pc]
Finish(t) == tasks' = [tasks EXCEPT ![t] = None]

(* The handler goes on with the actions of a further controller call.      *)
ApplyNext(t, actions, local) ==
    tasks' = [tasks EXCEPT ![t] = [@ EXCEPT !.pc = "apply",
        !.act = CHOOSE a \in actions : TRUE, !.local = local]]

(* SendHandleController.complete: the first terminal state wins.           *)
Completed(key, state) ==
    IF key # None /\ handle[key] = "pending"
    THEN [handle EXCEPT ![key] = state] ELSE handle

(* The handler ends with an exception; submitReliable fails its handle,    *)
(* the other callers only log or ignore it.                                *)
Throw(t) ==
    /\ Finish(t)
    /\ handle' = Completed(tasks[t].own, "failed")

Ready(peer) == link[peer] = "ready"

HopOf(op) ==
    <<Key(op), Cardinality({i \in DOMAIN admissions : admissions[i] = Key(op)})>>
OpOf(key) == CHOOSE op \in Workload : Key(op) = key
HopPeer(hop) == OpOf(hop[1]).destination

(* The handlers that are writing a hop to the peer.                        *)
Writing(peer) == {t \in Running(HopPcs) : tasks[t].peer = peer}

(* PeerConnectionCore._handleTransportLoss: ACK deadlines pause, what was  *)
(* in flight is gone, and every pending write fails.  First submissions    *)
(* and timer retries notice the failed write and throw.  Replay does not   *)
(* look at the outcome of a write: it throws at the next chunk or, after   *)
(* the last one (finished), starts the deadline and goes on.  The handlers *)
(* in thrown end for a reason of their own.                                *)
DropTransport(peer, state, finished, thrown) ==
    LET ended == (Writing(peer) \ finished) \cup thrown IN
    /\ link' = [link EXCEPT ![peer] = state]
    /\ tasks' = [t \in TaskIds |->
            IF t \in finished THEN [tasks[t] EXCEPT !.pc = "replay"]
            ELSE IF t \in ended THEN None ELSE tasks[t]]
    /\ handle' = [key \in Keys |->
            IF \E t \in ended : tasks[t].own = key
            THEN Completed(key, "failed")[key] ELSE handle[key]]
    /\ retained' = [hop \in Hops |->
            IF retained[hop] = None \/ HopPeer(hop) # peer THEN retained[hop]
            ELSE [retained[hop] EXCEPT !.state =
                    IF \E t \in finished : tasks[t].hop = hop
                    THEN "awaiting" ELSE "pending"]]
    /\ wire' = [wire EXCEPT ![peer] = <<>>]
    /\ acks' = {hop \in acks : HopPeer(hop) # peer}

-----------------------------------------------------------------------------
(* Admission                                                               *)

RecordAdmission(op) ==
    /\ arrivals' = [arrivals EXCEPT ![Key(op)] = @ + 1]
    /\ admissions' = IF ~Admitted(Key(op)) /\ operations'[Key(op)] # None
                     THEN Append(admissions, Key(op)) ELSE admissions
    /\ UNCHANGED scenario

(* _receiveReliable on the coordinator for a completely reassembled hop.   *)
(* The generic ACK is the first thing _applyCoordinatorActions submits;    *)
(* on a link that is no longer READY submitEncrypted throws and the frame  *)
(* handler gives up, whatever actions were left.  Workload gives one       *)
(* content to each key, so admission never throws.                         *)
SourceHop(op) ==
    /\ CanStart
    /\ authority
    /\ op.source # Coordinator
    /\ arrivals[Key(op)] < IF op \in scenario.repeated THEN MaxArrivals ELSE 1
    /\ \/ Ready(op.source)
       \/ "lateFrame" \in Faults /\ link[op.source] = "reconnecting"
    /\ op.source \in members
    /\ Admit(op, members, op.destination = Coordinator \/ Ready(op.destination))
    /\ RecordAdmission(op)
    /\ \E act \in out' :
        \/ /\ act.genericAck /\ Ready(op.source)
           /\ Spawn([Task("acking", act, None, {}) EXCEPT !.from = op.source])
        \/ /\ act.genericAck /\ ~Ready(op.source)
           /\ UNCHANGED tasks
        \/ /\ ~act.genericAck
           /\ Spawn([Task("apply", act, None, {}) EXCEPT !.from = op.source])
    /\ UNCHANGED <<sessionVars, retentionVars, airVars, resultVars>>

(* submitReliable and _admitLocalCoordinatorOperation.                     *)
LocalSend(op) ==
    /\ CanStart
    /\ authority
    /\ op.source = Coordinator
    /\ arrivals[Key(op)] = 0
    /\ Admit(op, members, Ready(op.destination))
    /\ RecordAdmission(op)
    /\ handle' = [handle EXCEPT ![Key(op)] = "pending"]
    /\ \E act \in out' :
        Spawn([Task("apply", act, Key(op), {}) EXCEPT !.own = Key(op)])
    /\ UNCHANGED <<sessionVars, retentionVars, airVars, delivered, told>>

-----------------------------------------------------------------------------
(* _applyCoordinatorActions                                                *)

(* The write of the generic ACK ended; its outcome is not looked at.       *)
AckWritten(t) ==
    /\ Quiescent
    /\ t \in Running({"acking"})
    /\ Goto(t, "apply")
    /\ UNCHANGED <<relayVars, sessionVars, arrivalVars, retentionVars, airVars,
                   resultVars>>

(* GroupSession.receiveReliable emits an operation once.                   *)
Deliver(key) ==
    delivered' = [delivered EXCEPT ![OpOf(key).destination] =
        IF \E i \in DOMAIN @ : @[i] = key THEN @ ELSE Append(@, key)]

(* Local delivery, completion of a local handle, and _sendSignal up to its *)
(* write, in one turn.  A source without READY link only causes an error   *)
(* event.                                                                  *)
Apply(t) ==
    /\ t \in Running({"apply"})
    /\ LET act == tasks[t].act IN
       /\ IF act.deliver # None THEN Deliver(Key(act.deliver))
                                ELSE UNCHANGED delivered
       /\ handle' = IF act.localState # None
                    THEN Completed(tasks[t].local, act.localState) ELSE handle
       /\ \/ /\ act.signal # None
             /\ Ready(act.signal.source)
             /\ told' = [told EXCEPT ![<<act.signal.source, act.signal.id>>] =
                             @ \cup {act.signal.status}]
             /\ Goto(t, "signalling")
          \/ /\ ~(act.signal # None /\ Ready(act.signal.source))
             /\ Goto(t, "forward")
             /\ UNCHANGED told
    /\ UNCHANGED <<relayVars, sessionVars, arrivalVars, retentionVars, airVars>>

SignalWritten(t) ==
    /\ Quiescent
    /\ t \in Running({"signalling"})
    /\ Goto(t, "forward")
    /\ UNCHANGED <<relayVars, sessionVars, arrivalVars, retentionVars, airVars,
                   resultVars>>

(* _submitHop up to its first write: an acknowledged hop is retained       *)
(* before the first chunk is written.  With earlyAck the last chunk may be *)
(* received, and even acknowledged, before its write completes.            *)
BeginHop(t, op, rest) ==
    /\ tasks' = [tasks EXCEPT ![t] = [@ EXCEPT !.pc = "submitting",
            !.act = [NoActions EXCEPT !.forward = op],
            !.rest = rest, !.hop = HopOf(op), !.peer = op.destination]]
    /\ retained' = IF op.mode = "acked"
                   THEN [retained EXCEPT ![HopOf(op)] =
                            [state |-> "pending", tries |-> 0]]
                   ELSE retained
    /\ wire' = IF "earlyAck" \in Faults
               THEN [wire EXCEPT ![op.destination] = Append(@, HopOf(op))]
               ELSE wire

(* Mutant of HopCollides: retain() overwrites.                             *)
HopCollidesNever(op) == FALSE

(* retain() throws messageIdCollision for a hop that is already retained.  *)
(* It happens when the completion of a stale submission releases a         *)
(* re-admitted relay from the middle of its order: the head it hands over  *)
(* is already on its way.                                                  *)
HopCollides(op) == op.mode = "acked" /\ retained[HopOf(op)] # None

(* A frame handler disconnects the sender of a frame that caused a         *)
(* collision.                                                              *)
Collide(t) ==
    \/ /\ tasks[t].from # None
       /\ Ready(tasks[t].from)
       /\ DropTransport(tasks[t].from, "closing", {}, {t})
    \/ /\ ~(tasks[t].from # None /\ Ready(tasks[t].from))
       /\ Throw(t)
       /\ UNCHANGED <<link, retained, wire, acks>>

(* _submitForward.  Without a READY destination the relay fails and the    *)
(* same handler applies the consequences; _coordinator() throws once       *)
(* another peer coordinates the group.                                     *)
Forward(t) ==
    /\ t \in Running({"forward"})
    /\ LET op == tasks[t].act.forward IN
       \/ /\ op = None
          /\ Goto(t, "next")
          /\ UNCHANGED <<relayVars, link, retained, airVars, handle>>
       \/ /\ op # None
          /\ Ready(op.destination)
          /\ ~HopCollides(op)
          /\ BeginHop(t, op, tasks[t].rest)
          /\ UNCHANGED <<relayVars, link, acks, handle>>
       \/ /\ op # None
          /\ Ready(op.destination)
          /\ HopCollides(op)
          /\ Collide(t)
          /\ UNCHANGED relayVars
       \/ /\ op # None
          /\ ~Ready(op.destination)
          /\ authority
          /\ FinalHopFailed(Key(op), "destinationUnavailable")
          /\ ApplyNext(t, out', Key(op))
          /\ UNCHANGED <<link, retained, airVars, handle>>
       \/ /\ op # None
          /\ ~Ready(op.destination)
          /\ ~authority
          /\ Throw(t)
          /\ UNCHANGED <<relayVars, link, retained, airVars>>
    /\ UNCHANGED <<members, authority, losses, arrivalVars, liveHops, delivered,
                   told>>

(* The enclosing loop: over the failures of a closed or removed            *)
(* destination, or over the ordered heads of a resumed one, which are      *)
(* submitted directly and throw on a link that is not READY.               *)
NextInLoop(t) ==
    /\ t \in Running({"next"})
    /\ \/ /\ tasks[t].rest = {}
          /\ Finish(t)
          /\ UNCHANGED <<retained, wire>>
       \/ \E act \in tasks[t].rest :
            /\ act.forward = None
            /\ tasks' = [tasks EXCEPT ![t] = [tasks[t] EXCEPT !.pc = "apply",
                    !.act = act, !.local = None, !.rest = @ \ {act}]]
            /\ UNCHANGED <<retained, wire>>
       \/ \E act \in tasks[t].rest :
            /\ act.forward # None
            /\ IF Ready(act.forward.destination)
               THEN BeginHop(t, act.forward, tasks[t].rest \ {act})
               ELSE Finish(t) /\ UNCHANGED <<retained, wire>>
    /\ UNCHANGED <<relayVars, sessionVars, arrivalVars, liveHops, acks,
                   resultVars>>

(* finalFrameSubmitted: the ACK deadline starts, unless the ACK arrived in *)
(* the meantime.                                                           *)
DeadlineStarted(hop) ==
    IF retained[hop] = None THEN retained
    ELSE [retained EXCEPT ![hop].state = "awaiting"]

(* The last chunk of a first submission reached the platform.  An          *)
(* acknowledged hop starts its deadline and is entered in _ackHops; an     *)
(* ordered one is finished, and its consequences are applied without a     *)
(* localSourceMessageId.                                                   *)
HopSubmitted(t) ==
    /\ Quiescent
    /\ t \in Running({"submitting"})
    /\ LET hop == tasks[t].hop
           op == tasks[t].act.forward
       IN  /\ wire' = IF "earlyAck" \in Faults THEN wire
                      ELSE [wire EXCEPT ![op.destination] = Append(@, hop)]
           /\ \/ /\ op.mode = "acked"
                 /\ retained' = DeadlineStarted(hop)
                 /\ liveHops' = liveHops \cup {hop}
                 /\ Goto(t, "next")
                 /\ UNCHANGED <<relayVars, handle>>
              \/ /\ op.mode = "ordered"
                 /\ authority
                 /\ FinalHopSubmitted(Key(op))
                 /\ ApplyNext(t, out', None)
                 /\ UNCHANGED <<retentionVars, handle>>
              \/ /\ op.mode = "ordered"
                 /\ ~authority
                 /\ Throw(t)
                 /\ UNCHANGED <<relayVars, retentionVars>>
    /\ UNCHANGED <<sessionVars, arrivalVars, acks, delivered, told>>

-----------------------------------------------------------------------------
(* The destination and the generic ACK                                     *)

(* The destination completes the next hop, acknowledges and delivers it.   *)
DestinationReceives(peer) ==
    /\ Ready(peer)
    /\ wire[peer] # <<>>
    /\ LET hop == Head(wire[peer]) IN
       /\ wire' = [wire EXCEPT ![peer] = Tail(@)]
       /\ Deliver(hop[1])
       /\ acks' = IF OpOf(hop[1]).mode = "acked" THEN acks \cup {hop} ELSE acks
    /\ UNCHANGED <<relayVars, sessionVars, arrivalVars, tasks, retentionVars,
                   handle, told>>

(* receiveEncrypted consumes the retention entry; _receiveGenericAck acts  *)
(* only on a hop that is in _ackHops.                                      *)
GenericAckArrives(hop) ==
    /\ CanStart
    /\ hop \in acks
    /\ Ready(HopPeer(hop))
    /\ acks' = acks \ {hop}
    /\ retained' = [retained EXCEPT ![hop] = None]
    /\ liveHops' = IF retained[hop] # None THEN liveHops \ {hop} ELSE liveHops
    /\ \/ /\ retained[hop] # None /\ hop \in liveHops /\ authority
          /\ FinalHopAcknowledged(hop[1])
          /\ \E act \in out' : Spawn(Task("apply", act, hop[1], {}))
       \/ /\ ~(retained[hop] # None /\ hop \in liveHops /\ authority)
          /\ UNCHANGED <<relayVars, tasks>>
    /\ UNCHANGED <<sessionVars, arrivalVars, wire, resultVars>>

(* _pollAckTimeouts on an elapsed deadline of a live hop.                  *)
AckTimeout(hop) ==
    /\ CanStart
    /\ hop \in liveHops
    /\ Ready(HopPeer(hop))
    /\ retained[hop] # None
    /\ retained[hop].state = "awaiting"
    /\ \/ /\ retained[hop].tries < MaxRetries
          /\ retained' = [retained EXCEPT ![hop] =
                [state |-> "pending", tries |-> @.tries + 1]]
          /\ Spawn([Task("resubmitting", NoActions, None, {}) EXCEPT
                        !.hop = hop, !.peer = HopPeer(hop)])
          /\ UNCHANGED <<relayVars, liveHops>>
       \/ /\ retained[hop].tries = MaxRetries
          /\ retained' = [retained EXCEPT ![hop] = None]
          /\ liveHops' = liveHops \ {hop}
          /\ \/ /\ authority
                /\ FinalHopFailed(hop[1], "destinationAckTimeout")
                /\ \E act \in out' : Spawn(Task("apply", act, hop[1], {}))
             \/ /\ ~authority
                /\ UNCHANGED <<relayVars, tasks>>
    /\ UNCHANGED <<sessionVars, arrivalVars, airVars, resultVars>>

(* A repeated submission is complete.                                      *)
HopResubmitted(t) ==
    /\ Quiescent
    /\ t \in Running({"resubmitting", "replaying"})
    /\ LET hop == tasks[t].hop IN
       /\ wire' = [wire EXCEPT ![tasks[t].peer] = Append(@, hop)]
       /\ retained' = DeadlineStarted(hop)
    /\ IF tasks[t].pc = "resubmitting" THEN Finish(t) ELSE Goto(t, "replay")
    /\ UNCHANGED <<relayVars, sessionVars, arrivalVars, liveHops, acks,
                   resultVars>>

-----------------------------------------------------------------------------
(* Transport generations                                                   *)

LinkLost(peer, finished) ==
    /\ Quiescent
    /\ Ready(peer)
    /\ losses < scenario.losses
    /\ Writing(peer) = {} => "loss" \in Faults
    /\ Writing(peer) \cap Running({"submitting"}) # {}
            => "lossInSubmission" \in Faults
    /\ Writing(peer) \ Running({"submitting"}) # {} => "lossInRetry" \in Faults
    /\ finished \subseteq Writing(peer) \cap Running({"replaying"})
    /\ DropTransport(peer, "reconnecting", finished, {})
    /\ losses' = losses + 1
    /\ UNCHANGED <<relayVars, members, authority, arrivalVars, liveHops,
                   delivered, told>>

(* RESUME succeeded; _onPeerReconnected first sends GROUP_INFO.            *)
LinkResumed(peer) ==
    /\ CanStart
    /\ link[peer] = "reconnecting"
    /\ link' = [link EXCEPT ![peer] = "ready"]
    /\ Spawn([Task("info", NoActions, None, {}) EXCEPT !.peer = peer])
    /\ UNCHANGED <<relayVars, members, authority, losses, arrivalVars,
                   retentionVars, airVars, resultVars>>

(* GROUP_INFO was written, or could not be: replay goes on either way.     *)
InfoWritten(t) ==
    /\ Quiescent
    /\ t \in Running({"info"})
    /\ tasks' = [tasks EXCEPT ![t] = [@ EXCEPT !.pc = "replay",
            !.hops = {hop \in liveHops : HopPeer(hop) = tasks[t].peer}]]
    /\ UNCHANGED <<relayVars, sessionVars, arrivalVars, retentionVars, airVars,
                   resultVars>>

(* One hop of _retransmitHopsFor.  Taking it consumes a retry before       *)
(* anything is written; an exhausted hop is only dropped from _ackHops.    *)
ReplayHop(t, hop) ==
    /\ t \in Running({"replay"})
    /\ hop \in tasks[t].hops
    /\ LET done == [tasks[t] EXCEPT !.hops = @ \ {hop}] IN
       \/ /\ retained[hop] = None
          /\ tasks' = [tasks EXCEPT ![t] = done]
          /\ UNCHANGED retentionVars
       \/ /\ retained[hop] # None
          /\ retained[hop].tries = MaxRetries
          /\ retained' = [retained EXCEPT ![hop] = None]
          /\ liveHops' = liveHops \ {hop}
          /\ tasks' = [tasks EXCEPT ![t] = done]
       \/ /\ retained[hop] # None
          /\ retained[hop].tries < MaxRetries
          /\ retained' = [retained EXCEPT ![hop] =
                [state |-> "pending", tries |-> @.tries + 1]]
          /\ IF Ready(tasks[t].peer)
             THEN tasks' = [tasks EXCEPT ![t] =
                    [done EXCEPT !.pc = "replaying", !.hop = hop]]
             ELSE Finish(t)
          /\ UNCHANGED liveHops
    /\ UNCHANGED <<relayVars, sessionVars, arrivalVars, airVars, resultVars>>

(* Mutant of ReplayOrdered: ordered relays are not submitted again.        *)
ReplayOrderedNothing(t) ==
    /\ t \in Running({"replay"})
    /\ tasks[t].hops = {}
    /\ Finish(t)
    /\ UNCHANGED <<relayVars, sessionVars, arrivalVars, retentionVars, airVars,
                   resultVars>>

(* The rest of _onPeerReconnected: the ordered heads of the destination.   *)
ReplayOrdered(t) ==
    /\ t \in Running({"replay"})
    /\ tasks[t].hops = {}
    /\ \/ /\ authority
          /\ DestinationResumeSucceeded(tasks[t].peer)
          /\ tasks' = [tasks EXCEPT ![t] = Task("next", NoActions, None,
                {a \in out' : a.forward.mode = "ordered"})]
       \/ /\ ~authority
          /\ Finish(t)
          /\ UNCHANGED relayVars
    /\ UNCHANGED <<sessionVars, arrivalVars, retentionVars, airVars, resultVars>>

(* Reconnecting was given up, or a frame handler disconnected the peer:    *)
(* _onPeerDisconnected fails every relay towards it, one after the other.  *)
LinkClosed(peer) ==
    /\ CanStart
    /\ \/ link[peer] = "closing"
       \/ link[peer] = "reconnecting" /\ "close" \in Faults
    /\ link' = [link EXCEPT ![peer] = "closed"]
    /\ \/ /\ authority
          /\ DestinationResumeFailed(peer)
          /\ Spawn(Task("next", NoActions, None, out'))
       \/ /\ ~authority
          /\ UNCHANGED <<relayVars, tasks>>
    /\ UNCHANGED <<members, authority, losses, arrivalVars, retentionVars,
                   airVars, resultVars>>

-----------------------------------------------------------------------------
(* Group events and cancellation                                           *)

(* _onGroupEvent(MemberLeft): the table forgets the relays towards the     *)
(* peer; _ackHops and ackRetention are left alone.                         *)
MemberLeft(peer) ==
    /\ CanStart
    /\ "leave" \in Faults
    /\ authority
    /\ peer \in members
    /\ members' = members \ {peer}
    /\ DestinationRemoved(peer)
    /\ Spawn(Task("next", NoActions, None, out'))
    /\ UNCHANGED <<authority, link, losses, arrivalVars, retentionVars, airVars,
                   resultVars>>

(* _onGroupEvent(CoordinatorChanged) away from the local peer.             *)
AuthorityLost ==
    /\ Quiescent
    /\ "authority" \in Faults
    /\ authority
    /\ authority' = FALSE
    /\ CoordinatorAuthorityLost
    /\ UNCHANGED <<members, link, losses, arrivalVars, tasks, retentionVars,
                   airVars, resultVars>>

(* cancelReliable: the handle and the retained hop of the operation are    *)
(* dropped; the relay table is not told.                                   *)
CancelLocal(key) ==
    /\ Quiescent
    /\ "cancel" \in Faults
    /\ handle[key] = "pending"
    /\ handle' = [handle EXCEPT ![key] = "cancelled"]
    /\ liveHops' = {hop \in liveHops : hop[1] # key}
    /\ retained' = [hop \in Hops |->
            IF hop \in liveHops /\ hop[1] = key THEN None ELSE retained[hop]]
    /\ UNCHANGED <<relayVars, sessionVars, arrivalVars, tasks, airVars,
                   delivered, told>>

-----------------------------------------------------------------------------
Init ==
    /\ RelayInit
    /\ scenario \in Scenarios
    /\ members = Peers
    /\ authority = TRUE
    /\ link = [peer \in Remotes |-> "ready"]
    /\ losses = 0
    /\ arrivals = [key \in Keys |-> 0]
    /\ admissions = <<>>
    /\ tasks = [t \in TaskIds |-> None]
    /\ retained = [hop \in Hops |-> None]
    /\ liveHops = {}
    /\ wire = [peer \in Remotes |-> <<>>]
    /\ acks = {}
    /\ delivered = [peer \in Peers |-> <<>>]
    /\ handle = [key \in Keys |-> "none"]
    /\ told = [key \in Keys |-> {}]

(* Steps the running handlers take by themselves.                          *)
TaskStep(t) ==
    \/ AckWritten(t) \/ Apply(t) \/ SignalWritten(t) \/ Forward(t)
    \/ NextInLoop(t) \/ HopSubmitted(t) \/ HopResubmitted(t)
    \/ InfoWritten(t) \/ ReplayOrdered(t)
    \/ \E hop \in Hops : ReplayHop(t, hop)

Next ==
    \/ \E op \in Workload : SourceHop(op) \/ LocalSend(op)
    \/ \E t \in TaskIds : TaskStep(t)
    \/ \E hop \in Hops : GenericAckArrives(hop) \/ AckTimeout(hop)
    \/ \E peer \in Remotes :
        \/ DestinationReceives(peer)
        \/ \E finished \in SUBSET TaskIds : LinkLost(peer, finished)
        \/ LinkResumed(peer) \/ LinkClosed(peer) \/ MemberLeft(peer)
    \/ AuthorityLost
    \/ \E key \in Keys : CancelLocal(key)

(* Started handlers run on and platform writes complete; a received hop is *)
(* processed; the 50 ms timer keeps polling; reconnecting ends.            *)
Fairness ==
    /\ \A t \in TaskIds : WF_vars(TaskStep(t))
    /\ \A peer \in Remotes : WF_vars(DestinationReceives(peer))
    /\ \A hop \in Hops : WF_vars(GenericAckArrives(hop))
    /\ \A hop \in Hops : WF_vars(AckTimeout(hop))
    /\ \A peer \in Remotes : WF_vars(LinkResumed(peer) \/ LinkClosed(peer))

Spec == Init /\ [][Next]_vars
FairSpec == Spec /\ Fairness

-----------------------------------------------------------------------------
(* Properties                                                              *)

(* No source is ever told that an operation was delivered (a               *)
(* GROUP_DELIVERY_ACK, or REMOTE_ACKNOWLEDGED on a local handle) before    *)
(* the destination application has received it, whichever ACKs, timeouts,  *)
(* losses and cancellations raced.                                         *)
AckOnlyAfterDelivery ==
    \A op \in Workload :
        "deliveryAck" \in told[Key(op)] \/ handle[Key(op)] = "remoteAcknowledged"
            => \E i \in DOMAIN delivered[op.destination] :
                    delivered[op.destination][i] = Key(op)

(* Some admission of the one relay came before some admission of the other. *)
AdmittedBefore(key1, key2) ==
    \E m, n \in DOMAIN admissions :
        m < n /\ admissions[m] = key1 /\ admissions[n] = key2

(* One source's operations reach one destination application in the order  *)
(* in which the coordinator accepted them: of two delivered relays of a    *)
(* pair the later one was not admitted before every admission of the       *)
(* earlier one.                                                            *)
DeliveredInOrder ==
    \A peer \in Remotes : \A i, j \in DOMAIN delivered[peer] :
        i < j /\ delivered[peer][i][1] = delivered[peer][j][1]
            => AdmittedBefore(delivered[peer][i], delivered[peer][j])

(* No ordered relay of the pair was admitted a second time, which happens  *)
(* when its source hop arrives again after the relay had completed.        *)
OrderedOnce(pair) ==
    \A op \in Workload :
        Pair(op) = pair /\ op.mode = "ordered" => ~AdmittedBefore(Key(op), Key(op))

(* The acknowledged operations among them do, whatever is lost, repeated,  *)
(* cancelled or given up in between, as long as no ordered relay of their  *)
(* pair was admitted twice: the completion of a stale ordered submission   *)
(* then releases the new relay from the middle of its order and hands the  *)
(* head of the order over again.                                           *)
AcknowledgedInOrder ==
    \A peer \in Remotes :
        LET acknowledged == {i \in DOMAIN delivered[peer] :
                LET op == OpOf(delivered[peer][i])
                IN  op.mode = "acked" /\ OrderedOnce(Pair(op))}
        IN  \A i, j \in acknowledged :
                i < j /\ delivered[peer][i][1] = delivered[peer][j][1]
                    => AdmittedBefore(delivered[peer][i], delivered[peer][j])

(* Racing completions, failures and removals of one relay tell its source  *)
(* at most one outcome per source hop that arrived.                        *)
OneVerdictPerArrival ==
    \A key \in Keys : Cardinality(told[key]) =< arrivals[key]

(* A hop that is retained for retransmission keeps the retries it already  *)
(* consumed, so timeouts and resumes together transmit it at most three    *)
(* times.                                                                  *)
RetriesNeverRefilled ==
    [][\A hop \in Hops : retained[hop] # None /\ retained'[hop] # None
            => retained'[hop].tries >= retained[hop].tries]_vars

(* Every admitted relay is eventually delivered or failed and leaves the   *)
(* coordinator's table, so the relays queued behind it get their turn.     *)
RelaySettles == \A key \in Keys : Admitted(key) ~> ~Admitted(key)

(* Every send of the coordinator's own application eventually reaches a    *)
(* terminal state.                                                         *)
HandleSettles ==
    \A key \in Keys : handle[key] = "pending" ~> handle[key] # "pending"
=============================================================================
