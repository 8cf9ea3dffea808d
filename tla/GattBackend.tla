---------------------------- MODULE GattBackend ----------------------------
(***************************************************************************)
(* GattBackendConnection (lib/src/gatt_backend_connection.dart): complete  *)
(* frames are cut into fragments, queued by priority and submitted to the  *)
(* operating system one fragment at a time; the remote GattReassembler     *)
(* (lib/src/protocol/gatt_fragment.dart) puts the frames together again.   *)
(*                                                                         *)
(* The native plugin is the environment.  It accepts a bounded number of   *)
(* fragments, answers every submission, and reports room for more with a   *)
(* gattWritable event.  Answers and events reach Dart in the order in      *)
(* which the platform's main thread sent them.                             *)
(*                                                                         *)
(* Sizes are counted in fragments; a frame is known by the number of the   *)
(* write that brought it.                                                  *)
(***************************************************************************)
EXTENDS Integers, Sequences

CONSTANTS
    Priorities,     \* SendPriority indices; the smallest goes first
    Sizes,          \* possible frame sizes, in fragments
    MaxQueued,      \* maxQueuedBytes, in fragments
    NativeSlots,    \* fragments the plugin holds before it refuses more
    MaxWrites,      \* bound: number of accepted writes
    MaxRefusals,    \* bound: fragments the operating system refuses
    Undrained       \* value of draining when no drain loop is running

ASSUME PriorityAssumption == Priorities \subseteq Nat
ASSUME FragmentAssumption == Sizes \subseteq Nat \ {0}
ASSUME QueueAssumption ==
    /\ MaxQueued \in Nat \ {0}
    /\ NativeSlots \in Nat \ {0}
    /\ MaxWrites \in Nat
    /\ MaxRefusals \in Nat
    /\ Undrained \notin Nat

VARIABLES
    backend,    \* _state
    queue,      \* _writes
    queuedSize, \* _queuedBytes
    draining,   \* the write whose fragment _drain awaits (_draining)
    writes,     \* every accepted write: its priority, size and completion
    call,       \* the fragment submission on its way to the plugin, if any
    inFlight,   \* fragments the operating system has not finished
    toDart,     \* answers and events on their way to Dart
    refusals,   \* fragments refused although nothing was in flight
    connected,  \* the physical link is up
    air,        \* fragments on their way to the remote peer
    partial,    \* fragments in the remote reassembler
    frames      \* the frames the remote peer has received

dartVars == <<backend, queue, queuedSize, draining, writes>>
nativeVars == <<call, inFlight, toDart, refusals, connected>>
remoteVars == <<air, partial, frames>>
gattVars == <<dartVars, nativeVars, remoteVars>>

Fragment(w, index) == [write |-> w, index |-> index]

WriteIds == 1..MaxWrites
Fragments == [write : WriteIds, index : Nat]
Pending == [write : WriteIds, priority : Priorities, size : Sizes, next : Nat]
Completions == {"pending", "submitted", "failed"}
Answers == {"submitted", "temporarilyUnavailable", "terminalFailure"}
NativeEvents == {"writable", "disconnected"}

-----------------------------------------------------------------------------
(* The queue                                                               *)

(* Mutants of IsNext: a frame that has been started can be overtaken; the  *)
(* last of the most urgent frames is next.                                 *)
IsNextPreempting(q, i) ==
    \A j \in 1..Len(q) :
        \/ q[i].priority < q[j].priority
        \/ q[i].priority = q[j].priority /\ i =< j

IsNextLast(q, i) ==
    IF q[1].next # 0 THEN i = 1
    ELSE \A j \in 1..Len(q) :
            \/ q[i].priority < q[j].priority
            \/ q[i].priority = q[j].priority /\ i >= j

(* _takeNext: a frame that has been started is finished first; otherwise   *)
(* the first of the most urgent frames is next.                            *)
IsNext(q, i) ==
    IF q[1].next # 0 THEN i = 1
    ELSE \A j \in 1..Len(q) :
            \/ q[i].priority < q[j].priority
            \/ q[i].priority = q[j].priority /\ i =< j

(* Move frame i of the queue to its front.                                 *)
MoveToFront(q, i) ==
    [k \in 1..Len(q) |-> IF k = 1 THEN q[i]
                         ELSE IF k =< i THEN q[k - 1] ELSE q[k]]

(* _drain up to its next await, with queue content q.                      *)
Submit(q) ==
    \/ /\ q = <<>>
       /\ queue' = q
       /\ draining' = Undrained
       /\ UNCHANGED call
    \/ \E i \in 1..Len(q) :
        /\ IsNext(q, i)
        /\ queue' = MoveToFront(q, i)
        /\ draining' = q[i].write
        /\ call' = <<Fragment(q[i].write, q[i].next)>>

(* _drain returns at once when it is already running.                      *)
Drain(q) ==
    \/ /\ draining = Undrained
       /\ Submit(q)
    \/ /\ draining # Undrained
       /\ queue' = q
       /\ UNCHANGED <<draining, call>>

(* Mutant of Write: the queue is not limited.                              *)
WriteUnlimited(priority, size) ==
    /\ Len(writes) < MaxWrites
    /\ backend = "open"
    /\ writes' = Append(writes, [priority |-> priority, size |-> size,
                                 state |-> "pending"])
    /\ queuedSize' = queuedSize + size
    /\ Drain(Append(queue, [write |-> Len(writes) + 1, priority |-> priority,
                            size |-> size, next |-> 0]))
    /\ UNCHANGED <<backend, inFlight, toDart, refusals, connected, remoteVars>>

(* _write of a frame.  A write that finds the queue full, or the link      *)
(* gone, throws and leaves no trace.                                       *)
Write(priority, size) ==
    /\ Len(writes) < MaxWrites
    /\ backend = "open"
    /\ queuedSize + size =< MaxQueued
    /\ writes' = Append(writes, [priority |-> priority, size |-> size,
                                 state |-> "pending"])
    /\ queuedSize' = queuedSize + size
    /\ Drain(Append(queue, [write |-> Len(writes) + 1, priority |-> priority,
                            size |-> size, next |-> 0]))
    /\ UNCHANGED <<backend, inFlight, toDart, refusals, connected, remoteVars>>

(* Mutant of TerminalFailure: the queue is dropped without an answer.      *)
TerminalFailureSilent ==
    /\ backend' = "failed"
    /\ queue' = <<>>
    /\ queuedSize' = 0
    /\ UNCHANGED writes

(* terminalFailure: every accepted write fails, and nothing is retried.    *)
TerminalFailure ==
    /\ backend' = "failed"
    /\ queue' = <<>>
    /\ queuedSize' = 0
    /\ writes' = [w \in DOMAIN writes |->
            IF writes[w].state = "pending"
            THEN [writes[w] EXCEPT !.state = "failed"] ELSE writes[w]]

(* close() by the owner of the connection.  The drain loop, if it waits    *)
(* for an answer, finds the failed state later; the plugin drops the link  *)
(* after the queue has been failed (NativeDisconnect).                     *)
Close ==
    /\ backend = "open"
    /\ TerminalFailure
    /\ UNCHANGED <<draining, nativeVars, remoteVars>>

-----------------------------------------------------------------------------
(* Answers and events reach Dart                                           *)

(* Mutant of Submitted: a finished frame keeps its share of the limit.     *)
SubmittedKeepsSize ==
    LET head == queue[1] IN
    \/ /\ head.next + 1 < head.size
       /\ Submit([queue EXCEPT ![1].next = head.next + 1])
       /\ UNCHANGED <<queuedSize, writes>>
    \/ /\ head.next + 1 = head.size
       /\ UNCHANGED queuedSize
       /\ writes' = [writes EXCEPT ![head.write].state = "submitted"]
       /\ Submit(Tail(queue))

(* The part of _drain after an accepted fragment.                          *)
Submitted ==
    LET head == queue[1] IN
    \/ /\ head.next + 1 < head.size
       /\ Submit([queue EXCEPT ![1].next = head.next + 1])
       /\ UNCHANGED <<queuedSize, writes>>
    \/ /\ head.next + 1 = head.size
       /\ queuedSize' = queuedSize - head.size
       /\ writes' = [writes EXCEPT ![head.write].state = "submitted"]
       /\ Submit(Tail(queue))

(* The queue still starts with the frame whose fragment was submitted.     *)
StillFirst == backend = "open" /\ queue # <<>> /\ queue[1].write = draining

(* The rest of _drain after its await.                                     *)
Answered ==
    /\ toDart # <<>>
    /\ Head(toDart) \in Answers
    /\ toDart' = Tail(toDart)
    /\ \/ /\ ~StillFirst
          /\ draining' = Undrained
          /\ UNCHANGED <<backend, queue, queuedSize, writes, call>>
       \/ /\ StillFirst
          /\ Head(toDart) = "temporarilyUnavailable"
          /\ draining' = Undrained
          /\ UNCHANGED <<backend, queue, queuedSize, writes, call>>
       \/ /\ StillFirst
          /\ Head(toDart) = "terminalFailure"
          /\ TerminalFailure
          /\ draining' = Undrained
          /\ UNCHANGED call
       \/ /\ StillFirst
          /\ Head(toDart) = "submitted"
          /\ Submitted
          /\ UNCHANGED backend
    /\ UNCHANGED <<inFlight, refusals, connected, remoteVars>>

(* Mutant of Writable: the drain loop is not restarted.                    *)
WritableIgnored ==
    /\ toDart # <<>>
    /\ Head(toDart) = "writable"
    /\ toDart' = Tail(toDart)
    /\ UNCHANGED <<dartVars, call, inFlight, refusals, connected, remoteVars>>

(* writable() *)
Writable ==
    /\ toDart # <<>>
    /\ Head(toDart) = "writable"
    /\ toDart' = Tail(toDart)
    /\ \/ /\ backend = "open"
          /\ Drain(queue)
       \/ /\ backend # "open"
          /\ UNCHANGED <<queue, draining, call>>
    /\ UNCHANGED <<backend, queuedSize, writes, inFlight, refusals, connected,
                   remoteVars>>

(* terminalFailure() for a gattDisconnected event.                         *)
Disconnected ==
    /\ toDart # <<>>
    /\ Head(toDart) = "disconnected"
    /\ toDart' = Tail(toDart)
    /\ \/ /\ backend = "open"
          /\ TerminalFailure
       \/ /\ backend # "open"
          /\ UNCHANGED <<backend, queue, queuedSize, writes>>
    /\ UNCHANGED <<draining, call, inFlight, refusals, connected, remoteVars>>

-----------------------------------------------------------------------------
(* The native plugin                                                       *)

(* submitGattFragment.  Android may refuse a write although none is in     *)
(* flight; that answer is not followed by a gattWritable event.            *)
NativeSubmit ==
    /\ call # <<>>
    /\ call' = <<>>
    /\ \/ /\ ~connected
          /\ toDart' = Append(toDart, "terminalFailure")
          /\ UNCHANGED <<inFlight, refusals, air>>
       \/ /\ connected
          /\ inFlight = NativeSlots
          /\ toDart' = Append(toDart, "temporarilyUnavailable")
          /\ UNCHANGED <<inFlight, refusals, air>>
       \/ /\ connected
          /\ inFlight < NativeSlots
          /\ toDart' = Append(toDart, "submitted")
          /\ inFlight' = inFlight + 1
          /\ air' = Append(air, call[1])
          /\ UNCHANGED refusals
       \/ /\ connected
          /\ inFlight < NativeSlots
          /\ refusals < MaxRefusals
          /\ refusals' = refusals + 1
          /\ toDart' = Append(toDart, "temporarilyUnavailable")
          /\ UNCHANGED <<inFlight, air>>
    /\ UNCHANGED <<dartVars, connected, partial, frames>>

(* onCharacteristicWrite, onNotificationSent *)
NativeWriteDone ==
    /\ connected
    /\ inFlight > 0
    /\ inFlight' = inFlight - 1
    /\ toDart' = Append(toDart, "writable")
    /\ UNCHANGED <<dartVars, call, refusals, connected, remoteVars>>

NativeDisconnect ==
    /\ connected
    /\ connected' = FALSE
    /\ inFlight' = 0
    /\ toDart' = Append(toDart, "disconnected")
    /\ air' = <<>>
    /\ UNCHANGED <<dartVars, call, refusals, partial, frames>>

-----------------------------------------------------------------------------
(* The remote GattReassembler                                              *)

IsEnd(f) == f.index + 1 = writes[f.write].size

(* add() accepts a START fragment only between two frames, and any other   *)
(* fragment only directly after its predecessor.                           *)
Contiguous(f) == f.index = Len(partial)

(* Mutant of Receive: a completed frame stays in the buffer.               *)
ReceiveKeepsBuffer ==
    /\ air # <<>>
    /\ air' = Tail(air)
    /\ LET f == Head(air) IN
       \/ /\ ~Contiguous(f)
          /\ partial' = <<>>
          /\ frames' = Append(frames, <<>>)
       \/ /\ Contiguous(f)
          /\ partial' = Append(partial, f)
          /\ frames' = IF IsEnd(f) THEN Append(frames, Append(partial, f))
                       ELSE frames
    /\ UNCHANGED <<dartVars, nativeVars>>

(* receiveGattFragment and GattReassembler.add; a refused fragment is      *)
(* recorded as an empty frame.                                             *)
Receive ==
    /\ air # <<>>
    /\ air' = Tail(air)
    /\ LET f == Head(air) IN
       \/ /\ ~Contiguous(f)
          /\ partial' = <<>>
          /\ frames' = Append(frames, <<>>)
       \/ /\ Contiguous(f)
          /\ ~IsEnd(f)
          /\ partial' = Append(partial, f)
          /\ UNCHANGED frames
       \/ /\ Contiguous(f)
          /\ IsEnd(f)
          /\ partial' = <<>>
          /\ frames' = Append(frames, Append(partial, f))
    /\ UNCHANGED <<dartVars, nativeVars>>

-----------------------------------------------------------------------------
GattInit ==
    /\ backend = "open"
    /\ queue = <<>>
    /\ queuedSize = 0
    /\ draining = Undrained
    /\ writes = <<>>
    /\ call = <<>>
    /\ inFlight = 0
    /\ toDart = <<>>
    /\ refusals = 0
    /\ connected = TRUE
    /\ air = <<>>
    /\ partial = <<>>
    /\ frames = <<>>

GattNext ==
    \/ \E priority \in Priorities, size \in Sizes : Write(priority, size)
    \/ Close
    \/ Answered \/ Writable \/ Disconnected
    \/ NativeSubmit \/ NativeWriteDone \/ NativeDisconnect
    \/ Receive

(* The event loop handles what the platform sends, the plugin answers      *)
(* method calls, and a submitted fragment is finished while the link is up.*)
GattFairness ==
    /\ WF_gattVars(Answered \/ Writable \/ Disconnected)
    /\ WF_gattVars(NativeSubmit)
    /\ WF_gattVars(NativeWriteDone)

GattSpec == GattInit /\ [][GattNext]_gattVars
FairGattSpec == GattSpec /\ GattFairness

-----------------------------------------------------------------------------
(* Properties                                                              *)

(* Every field of the backend, the plugin and the reassembler has its type.*)
GattTypeOK ==
    /\ backend \in {"open", "failed"}
    /\ queue \in Seq(Pending)
    /\ queuedSize \in 0..MaxQueued
    /\ draining \in WriteIds \cup {Undrained}
    /\ writes \in Seq([priority : Priorities, size : Sizes, state : Completions])
    /\ Len(writes) =< MaxWrites
    /\ call \in Seq(Fragments)
    /\ inFlight \in 0..NativeSlots
    /\ toDart \in Seq(Answers \cup NativeEvents)
    /\ refusals \in 0..MaxRefusals
    /\ connected \in BOOLEAN
    /\ air \in Seq(Fragments)
    /\ partial \in Seq(Fragments)
    /\ frames \in Seq(Seq(Fragments))

(* Each write in q is pending in ws, occurs once, and is as accepted.      *)
QueuedArePending(q, ws) ==
    /\ \A i, j \in 1..Len(q) : q[i].write = q[j].write => i = j
    /\ \A i \in 1..Len(q) :
            LET w == q[i].write IN
            /\ w \in 1..Len(ws)
            /\ ws[w].state = "pending"
            /\ q[i].priority = ws[w].priority
            /\ q[i].size = ws[w].size
            /\ q[i].next < q[i].size

PendingAreQueued(q, ws) ==
    \A w \in 1..Len(ws) :
        ws[w].state = "pending" => \E i \in 1..Len(q) : q[i].write = w

(* The queue holds exactly the writes that have no answer yet, each of     *)
(* them once and as it was accepted: whatever races, no write is forgotten *)
(* and none is answered while it is still going to be sent.                *)
QueueExact == QueuedArePending(queue, writes) /\ PendingAreQueued(queue, writes)

OnlyFirstStarted(q) == \A i \in 2..Len(q) : q[i].next = 0

(* While the drain loop waits for the answer to a fragment, that frame     *)
(* stays first in the queue, so the staleness guard of _drain can only     *)
(* fire on a failed connection; and only the first frame is ever partly    *)
(* submitted.                                                              *)
OneFrameAtATime ==
    /\ backend = "open" /\ draining # Undrained
            => queue # <<>> /\ queue[1].write = draining
    /\ OnlyFirstStarted(queue)

(* The connection implements the contract its callers rely on; the frame   *)
(* of a write is known by its size.                                        *)
Contract == INSTANCE BackendContract WITH
    Frames <- Sizes,
    open <- backend = "open",
    writes <- [w \in 1..Len(writes) |->
                    [frame |-> writes[w].size, priority |-> writes[w].priority,
                     state |-> writes[w].state]]

(* Whatever the plugin answers and in whatever order frames overtake each  *)
(* other, the connection accepts, submits and fails writes only as         *)
(* backend.dart promises: in acceptance order within a priority, once      *)
(* each, and all together on a failure.                                    *)
ImplementsContract == Contract!ContractSpec

(* The sizes of the frames of a queue, added up.                           *)
Total(q) ==
    LET total[i \in 0..Len(q)] == IF i = 0 THEN 0 ELSE total[i - 1] + q[i].size
    IN  total[Len(q)]

(* The byte count that limits the queue is the size of what is queued.     *)
QueuedSizeExact == queuedSize = Total(queue)

(* The remote peer only ever completes whole frames: all fragments of one  *)
(* write in order, whichever frames overtook each other in the queue, and  *)
(* no fragment is ever refused as non-contiguous.                          *)
FramesWhole ==
    \A n \in 1..Len(frames) : \E w \in 1..Len(writes) :
        frames[n] = [i \in 1..writes[w].size |-> Fragment(w, i - 1)]

(* Every accepted write is eventually submitted or failed: a drain loop    *)
(* that stopped because fragments are in flight is always woken up again.  *)
(* Only a refusal that no event follows can leave the queue waiting for    *)
(* the next write.                                                         *)
EveryWriteAnswered ==
    \A w \in WriteIds :
        w \in DOMAIN writes
            ~> \/ w \in DOMAIN writes /\ writes[w].state # "pending"
               \/ refusals > 0
=============================================================================
