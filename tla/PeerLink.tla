------------------------------ MODULE PeerLink ------------------------------
(***************************************************************************)
(* Application DATA between two PeerConnectionCores                        *)
(* (lib/src/peer_connection_core.dart): the sending core with its retained *)
(* operations and ACK deadlines, the receiving core with its sequence      *)
(* window, reassembly and duplicate suppression, transport loss noticed by *)
(* each side on its own, and RESUME.                                       *)
(*                                                                         *)
(* The sender writes frames through BackendContract.  Its asynchronous     *)
(* methods are tasks; a task runs to its next await without interruption,  *)
(* so every step of the environment waits until no task can go on.         *)
(* Encryption only passes through the microtask queue and is part of the   *)
(* step that writes the frame.                                             *)
(***************************************************************************)
EXTENDS BackendContract, SequencesExt

CONSTANTS
    Poll,       \* pollAckTimeouts as a task
    Replay,     \* retransmitReliableDataAfterResume as a task
    Ops,        \* MessageIds, in the order in which they are sent
    MaxChunks,  \* bound: chunks of a message
    MaxFaults,  \* bound: transport losses, and writes refused as queue full
    Scenarios   \* what happens in a behaviour: the messages and the faults

ASSUME OpsAssumption ==
    Ops \subseteq Nat /\ {Poll, Replay} \cap Ops = {} /\ Poll # Replay
ASSUME BoundAssumption == MaxChunks \in Nat \ {0} /\ MaxFaults \in Nat

Modes == {"ordered", "acked"}
Kinds == [mode : Modes, priority : Priorities, chunks : 1..MaxChunks]

ASSUME ScenarioAssumption ==
    Scenarios \subseteq [kinds : [Ops -> Kinds], losses : 0..MaxFaults,
                         fulls : 0..MaxFaults, faults : SUBSET {"cancel", "close"}]

VARIABLES
    scenario,   \* the scenario of this behaviour
    core,       \* state of the sending core
    gen,        \* transport generation of the sending core
    nextSeq,    \* _nextSequence
    retained,   \* keys of _reliableDataOperations, in insertion order
    cancelled,  \* operations with their cancelled flag set
    entries,    \* ackRetention: state, retransmissions and deadline
    handle,     \* the SendHandle of each operation
    tasks,      \* running asynchronous methods of the sending core
    losses,     \* transport losses so far
    fulls,      \* writes refused so far
    wire,       \* frames on their way to the receiver
    peer,       \* state of the receiving core
    highest,    \* _receiveSequences._highest
    partial,    \* _dataReceiver: chunks of incomplete messages
    dedup,      \* _dataReceiver: completed MessageIds
    acks,       \* ACK writes the receiver awaits
    ackWire,    \* ACK frames on their way to the sender
    delivered   \* messages handed to the receiving application

senderVars == <<scenario, core, gen, nextSeq, retained, cancelled, entries, handle,
                tasks, losses, fulls>>
receiverVars == <<peer, highest, partial, dedup, acks, delivered>>
linkVars == <<contractVars, senderVars, wire, receiverVars, ackWire>>

(* Every send is a task; so are pollAckTimeouts and the replay of RESUME.  *)
TaskIds == Ops \cup {Poll, Replay}

Idle == [pc |-> "idle", op |-> 0, chunk |-> 0, write |-> 0, rest |-> <<>>]
Runnable == {t \in TaskIds : tasks[t].pc \in {"chunk", "written", "next"}}

(* ACK writes of the receiver have failed and their awaits return.         *)
AcksFailing == peer # "ready" /\ acks # <<>>

Quiet == Runnable = {} /\ ~AcksFailing

kind == scenario.kinds

MaxRetransmissions == 2
NoEntry == [state |-> "none", tries |-> 0, armed |-> FALSE]
Terminal == {"sent", "acknowledged", "failed", "cancelled"}

Acked(o) == kind[o].mode = "acked"

(* SendHandle._complete and _transition: a terminal handle does not change.*)
Settle(h, o, state) == IF h[o] \in Terminal THEN h ELSE [h EXCEPT ![o] = state]

Goto(t, pc) == tasks' = [tasks EXCEPT ![t].pc = pc]
Finish(t) == tasks' = [tasks EXCEPT ![t] = Idle]

-----------------------------------------------------------------------------
(* The sending core                                                        *)

(* PeerConnection.send, up to the first chunk.                             *)
Send(o) ==
    /\ Quiet
    /\ handle[o] = "unsent"
    /\ \A p \in Ops : p < o => handle[p] # "unsent"
    /\ core = "ready"
    /\ handle' = [handle EXCEPT ![o] = "transmitting"]
    /\ retained' = Append(retained, o)
    /\ entries' = IF Acked(o) THEN [entries EXCEPT ![o].state = "pending"]
                  ELSE entries
    /\ tasks' = [tasks EXCEPT ![o] = [Idle EXCEPT !.pc = "chunk", !.op = o,
                                                  !.chunk = 1]]
    /\ UNCHANGED <<scenario, core, gen, nextSeq, cancelled, losses, fulls,
                   contractVars, wire, receiverVars, ackWire>>

(* An exception ends the method; only that of a send completes its handle. *)
Throw(t) ==
    /\ Finish(t)
    /\ handle' = IF t \in Ops THEN Settle(handle, t, "failed") ELSE handle

(* One turn of the loop of _submitReliableDataAttempt up to its await, with*)
(* submitEncrypted: the sequence number is taken before the write.         *)
Chunk(t) ==
    /\ tasks[t].pc = "chunk"
    /\ \/ /\ tasks[t].op \in cancelled
          /\ Goto(t, "next")
          /\ UNCHANGED <<contractVars, nextSeq, handle, fulls>>
       \/ /\ tasks[t].op \notin cancelled
          /\ core # "ready"
          /\ Throw(t)
          /\ UNCHANGED <<contractVars, nextSeq, fulls>>
       \/ /\ tasks[t].op \notin cancelled
          /\ core = "ready"
          /\ Accept([op |-> tasks[t].op, chunk |-> tasks[t].chunk,
                     seq |-> nextSeq, gen |-> gen], kind[tasks[t].op].priority)
          /\ nextSeq' = nextSeq + 1
          /\ tasks' = [tasks EXCEPT ![t] = [@ EXCEPT !.pc = "writing",
                                                     !.write = Len(writes) + 1]]
          /\ UNCHANGED <<handle, fulls>>
       \/ /\ tasks[t].op \notin cancelled
          /\ core = "ready"
          /\ fulls < scenario.fulls
          /\ fulls' = fulls + 1
          /\ nextSeq' = nextSeq + 1
          /\ Throw(t)
          /\ UNCHANGED contractVars
    /\ UNCHANGED <<scenario, core, gen, retained, cancelled, entries,
                   losses, wire, receiverVars, ackWire>>

(* The receiver is still on the transport that the sender uses.            *)
Linked == core = "ready" /\ peer = "ready"

(* The backend has submitted a frame.                                      *)
WriteDone(w) ==
    /\ Quiet
    /\ Complete(w)
    /\ wire' = IF Linked THEN Append(wire, writes[w].frame) ELSE wire
    /\ tasks' = [t \in TaskIds |->
            IF tasks[t].pc = "writing" /\ tasks[t].write = w
            THEN [tasks[t] EXCEPT !.pc = "written"] ELSE tasks[t]]
    /\ UNCHANGED <<scenario, core, gen, nextSeq, retained, cancelled, entries, handle,
                   losses, fulls, receiverVars, ackWire>>

(* Mutant of FinalSubmitted: an ordered operation stays retained.          *)
FinalSubmittedKeeps(o) ==
    \/ /\ Acked(o)
       /\ entries' = IF entries[o].state = "none" THEN entries
                     ELSE [entries EXCEPT ![o] =
                                    [@ EXCEPT !.state = "awaiting", !.armed = TRUE]]
       /\ UNCHANGED <<retained, handle>>
    \/ /\ ~Acked(o)
       /\ handle' = Settle(handle, o, "sent")
       /\ UNCHANGED <<entries, retained>>

(* All chunks of the attempt are submitted: AckRetentionSet.               *)
(* finalFrameSubmitted arms the deadline, an ordered operation is done.    *)
FinalSubmitted(o) ==
    \/ /\ Acked(o)
       /\ entries' = IF entries[o].state = "none" THEN entries
                     ELSE [entries EXCEPT ![o] =
                                    [@ EXCEPT !.state = "awaiting", !.armed = TRUE]]
       /\ UNCHANGED <<retained, handle>>
    \/ /\ ~Acked(o)
       /\ retained' = RemoveFirst(retained, o)
       /\ handle' = Settle(handle, o, "sent")
       /\ UNCHANGED entries

(* _submitReliableDataAttempt after its await of a submitted frame.        *)
Written(t) ==
    LET o == tasks[t].op IN
    /\ tasks[t].pc = "written"
    /\ \/ /\ o \in cancelled
          /\ Goto(t, "next")
          /\ UNCHANGED <<retained, entries, handle>>
       \/ /\ o \notin cancelled
          /\ tasks[t].chunk < kind[o].chunks
          /\ tasks' = [tasks EXCEPT ![t] = [@ EXCEPT !.pc = "chunk",
                                                     !.chunk = tasks[t].chunk + 1]]
          /\ UNCHANGED <<retained, entries, handle>>
       \/ /\ o \notin cancelled
          /\ tasks[t].chunk = kind[o].chunks
          /\ FinalSubmitted(o)
          /\ Goto(t, "next")
    /\ UNCHANGED <<scenario, core, gen, nextSeq, cancelled, losses, fulls,
                   contractVars, wire, receiverVars, ackWire>>

(* Mutant of Due: an entry without a deadline is due.                      *)
DueUnset(o) == entries[o].state # "none"

(* AckRetentionSet.dueMessageIds and the deadline check of onTimer; time is*)
(* abstract, so any deadline that is set may have passed.                  *)
Due(o) == entries[o].armed

(* The loops of pollAckTimeouts and retransmitReliableDataAfterResume skip *)
(* an acknowledged operation that is no longer retained, and the former    *)
(* one whose deadline is no longer set (onTimer, retransmitOneAfterResume).*)
Skipped(t, o) ==
    /\ Acked(o)
    /\ entries[o].state = "none" \/ (t = Poll /\ ~Due(o))

Exhausted(o) == Acked(o) /\ entries[o].tries = MaxRetransmissions

(* Mutant of GiveUp: the handle of a dropped operation stays.              *)
GiveUpSilently(o) ==
    /\ entries' = [entries EXCEPT ![o] = NoEntry]
    /\ retained' = RemoveFirst(retained, o)
    /\ UNCHANGED handle

(* terminalAckTimeout *)
GiveUp(o) ==
    /\ entries' = [entries EXCEPT ![o] = NoEntry]
    /\ retained' = RemoveFirst(retained, o)
    /\ handle' = Settle(handle, o, "failed")

(* onAckTimeout and retransmitAfterResume with budget left: begin the next *)
(* whole-operation attempt in task t.                                      *)
Attempt(t, o) ==
    /\ entries' = IF Acked(o)
                  THEN [entries EXCEPT ![o] = [state |-> "pending",
                                               tries |-> entries[o].tries + 1,
                                               armed |-> FALSE]]
                  ELSE entries
    /\ tasks' = [tasks EXCEPT ![t] = [@ EXCEPT !.pc = "chunk", !.op = o, !.chunk = 1,
                                            !.rest = Tail(tasks[t].rest)]]
    /\ UNCHANGED <<retained, handle>>

(* The attempt is over, whatever its result.  A send returns, the poll     *)
(* returns when the transport is gone, and the replay goes on.             *)
NextOp(t) ==
    LET rest == tasks[t].rest
        over == rest = <<>> \/ (t = Poll /\ core # "ready")
        o == Head(rest)
    IN
    /\ tasks[t].pc = "next"
    /\ \/ /\ over
          /\ Finish(t)
          /\ UNCHANGED <<retained, entries, handle>>
       \/ /\ ~over
          /\ Skipped(t, o)
          /\ tasks' = [tasks EXCEPT ![t].rest = Tail(@)]
          /\ UNCHANGED <<retained, entries, handle>>
       \/ /\ ~over
          /\ ~Skipped(t, o)
          /\ Exhausted(o)
          /\ GiveUp(o)
          /\ tasks' = [tasks EXCEPT ![t].rest = Tail(@)]
       \/ /\ ~over
          /\ ~Skipped(t, o)
          /\ ~Exhausted(o)
          /\ Attempt(t, o)
    /\ UNCHANGED <<scenario, core, gen, nextSeq, cancelled, losses, fulls,
                   contractVars, wire, receiverVars, ackWire>>

(* dueMessageIds in retention order: the entries whose deadline has passed.*)
DueList(rest) ==
    /\ rest # <<>>
    /\ \E pick \in [1..Len(rest) -> 1..Len(retained)] :
        /\ \A i, j \in 1..Len(rest) : i < j => pick[i] < pick[j]
        /\ \A i \in 1..Len(rest) : rest[i] = retained[pick[i]] /\ Due(rest[i])

(* The connection timer polls the deadlines.                               *)
PollAckTimeouts ==
    /\ Quiet
    /\ core = "ready"
    /\ tasks[Poll] = Idle
    /\ \E n \in 1..Len(retained) : \E rest \in [1..n -> Ops] :
        /\ DueList(rest)
        /\ tasks' = [tasks EXCEPT ![Poll] = [Idle EXCEPT !.pc = "next", !.rest = rest]]
    /\ UNCHANGED <<scenario, core, gen, nextSeq, retained, cancelled, entries, handle,
                   losses, fulls, contractVars, wire, receiverVars,
                   ackWire>>

(* receiveEncrypted of an ACK.                                             *)
ReceiveAck ==
    /\ Quiet
    /\ ackWire # <<>>
    /\ core = "ready"
    /\ ackWire' = Tail(ackWire)
    /\ LET o == Head(ackWire) IN
       \/ /\ entries[o].state = "none"
          /\ UNCHANGED <<retained, entries, handle>>
       \/ /\ entries[o].state # "none"
          /\ entries' = [entries EXCEPT ![o] = NoEntry]
          /\ retained' = RemoveFirst(retained, o)
          /\ handle' = Settle(handle, o, "acknowledged")
    /\ UNCHANGED <<scenario, core, gen, nextSeq, cancelled, tasks, losses,
                   fulls, contractVars, wire, receiverVars>>

(* SendHandle.cancel and _cancelReliableData.                              *)
Cancel(o) ==
    /\ Quiet
    /\ "cancel" \in scenario.faults
    /\ handle[o] = "transmitting"
    /\ handle' = [handle EXCEPT ![o] = "cancelled"]
    /\ \/ /\ Contains(retained, o)
          /\ retained' = RemoveFirst(retained, o)
          /\ cancelled' = cancelled \cup {o}
          /\ entries' = [entries EXCEPT ![o] = NoEntry]
       \/ /\ ~Contains(retained, o)
          /\ UNCHANGED <<retained, cancelled, entries>>
    /\ UNCHANGED <<scenario, core, gen, nextSeq, tasks, losses, fulls,
                   contractVars, wire, receiverVars, ackWire>>

(* Every write fails; whoever awaits one returns from its attempt.         *)
Interrupt ==
    tasks' = [t \in TaskIds |->
            IF tasks[t].pc = "writing"
            THEN [tasks[t] EXCEPT !.pc = "next"] ELSE tasks[t]]

(* Mutant of PauseDeadlines: transport loss leaves them running.           *)
DeadlinesRunOn == UNCHANGED entries

(* AckRetentionSet.transportLost *)
PauseDeadlines ==
    entries' = [o \in Ops |->
            [entries[o] EXCEPT !.armed = FALSE,
                !.state = IF @ = "awaiting" THEN "pending" ELSE @]]

(* _handleTransportLoss of the sender.  A frame whose last fragment was    *)
(* submitted but not confirmed may still reach the receiver.               *)
TransportLost ==
    /\ Quiet
    /\ core = "ready"
    /\ losses < scenario.losses \/ peer # "ready"
    /\ losses' = IF peer = "ready" THEN losses + 1 ELSE losses
    /\ FailAll
    /\ core' = "reconnecting"
    /\ PauseDeadlines
    /\ Interrupt
    /\ \/ UNCHANGED wire
       \/ /\ peer = "ready"
          /\ \E w \in 1..Len(writes) :
                Eligible(w) /\ wire' = Append(wire, writes[w].frame)
    /\ ackWire' = <<>>
    /\ UNCHANGED <<scenario, gen, nextSeq, retained, cancelled, handle,
                   fulls, receiverVars>>

(* completeResume on both sides and the start of the replay.               *)
Resume ==
    /\ Quiet
    /\ core = "reconnecting"
    /\ peer = "reconnecting"
    /\ core' = "ready"
    /\ peer' = "ready"
    /\ gen' = gen + 1
    /\ nextSeq' = 1
    /\ highest' = 0
    /\ open' = TRUE
    /\ writes' = <<>>
    /\ tasks' = [tasks EXCEPT ![Replay] = [Idle EXCEPT !.pc = "next",
                                                       !.rest = retained]]
    /\ UNCHANGED <<scenario, retained, cancelled, entries, handle, losses,
                   fulls, wire, partial, dedup, acks, delivered, ackWire>>

(* PeerConnection.disconnect *)
Close ==
    /\ Quiet
    /\ "close" \in scenario.faults
    /\ core \in {"ready", "reconnecting"}
    /\ core' = "closed"
    /\ \/ open /\ FailAll
       \/ ~open /\ UNCHANGED contractVars
    /\ Interrupt
    /\ ackWire' = <<>>
    /\ UNCHANGED <<scenario, gen, nextSeq, retained, cancelled, entries, handle,
                   losses, fulls, wire, receiverVars>>

-----------------------------------------------------------------------------
(* The receiving core                                                      *)

(* ReceiveSequenceWindow.accept *)
Replayed(f) == f.seq =< highest

(* DataReassembler.add: the chunks of a message, each with the generation  *)
(* that brought it.                                                        *)
Chunks(f) == partial[f.op] \cup {<<f.chunk, f.gen>>}
Whole(f) == \A c \in 1..kind[f.op].chunks : \E g \in 0..gen : <<c, g>> \in Chunks(f)

(* Mutant of FirstCompletion: completed messages are not remembered.       *)
FirstCompletionAlways(o) == TRUE

(* CompletedMessageDedup.accept *)
FirstCompletion(o) == o \notin dedup

(* receiveEncrypted, receiveDataFrame and PeerConnection._onFrame of DATA: *)
(* an ordered message is delivered at once, an acknowledged one after the  *)
(* await of its ACK.                                                       *)
Receive ==
    /\ Quiet
    /\ wire # <<>>
    /\ peer = "ready"
    /\ wire' = Tail(wire)
    /\ LET f == Head(wire) IN
       \/ /\ Replayed(f)
          /\ UNCHANGED <<highest, partial, dedup, acks, delivered>>
       \/ /\ ~Replayed(f)
          /\ ~Whole(f)
          /\ highest' = f.seq
          /\ partial' = [partial EXCEPT ![f.op] = Chunks(f)]
          /\ UNCHANGED <<dedup, acks, delivered>>
       \/ /\ ~Replayed(f)
          /\ Whole(f)
          /\ ~Acked(f.op)
          /\ highest' = f.seq
          /\ partial' = [partial EXCEPT ![f.op] = {}]
          /\ delivered' = Append(delivered, f.op)
          /\ UNCHANGED <<dedup, acks>>
       \/ /\ ~Replayed(f)
          /\ Whole(f)
          /\ Acked(f.op)
          /\ highest' = f.seq
          /\ partial' = [partial EXCEPT ![f.op] = {}]
          /\ dedup' = dedup \cup {f.op}
          /\ acks' = Append(acks, [op |-> f.op, deliver |-> FirstCompletion(f.op)])
          /\ UNCHANGED delivered
    /\ UNCHANGED <<contractVars, senderVars, peer, ackWire>>

(* The await of the first ACK returns: _onFrame delivers the message unless*)
(* it had been completed before.                                           *)
HandOver ==
    /\ acks' = Tail(acks)
    /\ delivered' = IF Head(acks).deliver THEN Append(delivered, Head(acks).op)
                    ELSE delivered

(* The ACK has been submitted: receiveDataChunk returns.                   *)
AckWritten ==
    /\ Quiet
    /\ acks # <<>>
    /\ peer = "ready"
    /\ HandOver
    /\ ackWire' = IF Linked THEN Append(ackWire, Head(acks).op) ELSE ackWire
    /\ UNCHANGED <<contractVars, senderVars, wire, peer, highest, partial, dedup>>

(* Mutants of AckFailed and DiscardPartial: a failed ACK suppresses the    *)
(* delivery; incomplete messages survive.                                  *)
AckFailedOnly ==
    /\ AcksFailing
    /\ acks' = Tail(acks)
    /\ UNCHANGED <<contractVars, senderVars, wire, peer, highest, partial, dedup,
                   ackWire, delivered>>
KeepPartial == UNCHANGED partial

(* A failed ACK write does not keep receiveDataFrame from delivering.      *)
AckFailed ==
    /\ AcksFailing
    /\ HandOver
    /\ UNCHANGED <<contractVars, senderVars, wire, peer, highest, partial, dedup,
                   ackWire>>

(* DataReassembler.onTransportGenerationLost *)
DiscardPartial == partial' = [o \in Ops |-> {}]

(* _handleTransportLoss of the receiver.                                   *)
PeerLost ==
    /\ Quiet
    /\ peer = "ready"
    /\ losses < scenario.losses \/ core # "ready"
    /\ losses' = IF core = "ready" THEN losses + 1 ELSE losses
    /\ peer' = "reconnecting"
    /\ wire' = <<>>
    /\ DiscardPartial
    /\ UNCHANGED <<contractVars, scenario, core, gen, nextSeq, retained, cancelled,
                   entries, handle, tasks, fulls, highest, dedup,
                   acks, ackWire, delivered>>

-----------------------------------------------------------------------------
LinkInit ==
    /\ ContractInit
    /\ scenario \in Scenarios
    /\ core = "ready"
    /\ gen = 1
    /\ nextSeq = 1
    /\ retained = <<>>
    /\ cancelled = {}
    /\ entries = [o \in Ops |-> NoEntry]
    /\ handle = [o \in Ops |-> "unsent"]
    /\ tasks = [t \in TaskIds |-> Idle]
    /\ losses = 0
    /\ fulls = 0
    /\ wire = <<>>
    /\ peer = "ready"
    /\ highest = 0
    /\ partial = [o \in Ops |-> {}]
    /\ dedup = {}
    /\ acks = <<>>
    /\ ackWire = <<>>
    /\ delivered = <<>>

Running == AckFailed \/ \E t \in TaskIds : Chunk(t) \/ Written(t) \/ NextOp(t)

LinkNext ==
    \/ \E o \in Ops : Send(o) \/ Cancel(o)
    \/ Running
    \/ \E w \in 1..Len(writes) : WriteDone(w)
    \/ PollAckTimeouts \/ ReceiveAck
    \/ TransportLost \/ Resume \/ Close
    \/ Receive \/ AckWritten \/ PeerLost

(* The event loops run, the backend submits what it accepted, frames on an *)
(* intact link arrive, deadlines pass, a loss is noticed on both sides,    *)
(* and the reconnect succeeds.                                             *)
LinkFairness ==
    /\ WF_linkVars(Running)
    /\ WF_linkVars(\E w \in 1..Len(writes) : WriteDone(w))
    /\ WF_linkVars(PollAckTimeouts)
    /\ WF_linkVars(ReceiveAck)
    /\ WF_linkVars(Receive)
    /\ WF_linkVars(AckWritten)
    /\ WF_linkVars(peer # "ready" /\ TransportLost)
    /\ WF_linkVars(core # "ready" /\ PeerLost)
    /\ WF_linkVars(Resume)

LinkSpec == LinkInit /\ [][LinkNext]_linkVars
FairLinkSpec == LinkSpec /\ LinkFairness

-----------------------------------------------------------------------------
(* Properties                                                              *)

(* The message has been, or is about to be, handed to the application.     *)
Held(o) ==
    Contains(delivered, o) \/ \E i \in 1..Len(acks) : acks[i].op = o /\ acks[i].deliver

(* An acknowledged message is delivered at most once, whatever is          *)
(* retransmitted by timers and after RESUME.                               *)
AckedAtMostOnce ==
    \A i, j \in 1..Len(delivered) :
        Acked(delivered[i]) /\ delivered[i] = delivered[j] => i = j

(* REMOTE_ACKNOWLEDGED is only reported for a message that the receiver    *)
(* has completed and handed over.                                          *)
AcknowledgedIsHeld ==
    \A o \in Ops : handle[o] = "acknowledged" => Held(o)

Transmitting(t, o) == tasks[t].op = o /\ tasks[t].pc \in {"chunk", "writing", "written"}

(* At most one method transmits an operation at a time: the ACK poll, the  *)
(* replay of RESUME and the send never send it side by side.               *)
OneTransmitter ==
    \A o \in Ops, t, u \in TaskIds : Transmitting(t, o) /\ Transmitting(u, o) => t = u

(* An ACK deadline runs only while every chunk of the last attempt has     *)
(* been submitted on the transport in use.                                 *)
DeadlineAfterSubmission ==
    \A o \in Ops : entries[o].armed =>
        /\ core # "reconnecting"
        /\ \A t \in TaskIds : ~Transmitting(t, o)
        /\ \A c \in 1..kind[o].chunks : \E w \in 1..Len(writes) :
            /\ writes[w].frame.op = o
            /\ writes[w].frame.chunk = c
            /\ writes[w].state # "pending"

(* No message is put together from chunks of two transport generations.    *)
NoMixedGenerations ==
    \A o \in Ops : \A x, y \in partial[o] : x[2] = y[2]

(* Frames of a cancelled or failed message, or of an ordered one that was  *)
(* fully submitted, are never written again.  A send that failed because   *)
(* the queue was full is the exception: it stays retained and is sent      *)
(* after the next RESUME.                                                  *)
SilentAfterEnd ==
    [][\A o \in Ops :
        /\ handle[o] \in {"cancelled", "failed", "sent"}
        /\ fulls = 0
        => \A w \in 1..Len(writes') :
              writes'[w].frame.op = o => w =< Len(writes)]_linkVars

(* On a connection that is not closed every send ends: submitted,          *)
(* acknowledged, failed or cancelled.  After sendQueueFull nothing but the *)
(* next RESUME takes an operation up again.                                *)
HandlesSettle ==
    \A o \in Ops :
        handle[o] = "transmitting"
            ~> handle[o] \in Terminal \/ core = "closed" \/ fulls > 0

(* The receiver sees increasing sequence numbers: it never discards a      *)
(* frame that was written once as a replay.                                *)
SequencesMonotone == wire # <<>> /\ peer = "ready" => ~Replayed(Head(wire))
=============================================================================
