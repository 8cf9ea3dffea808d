--------------------------- MODULE PeerLinkProofs ---------------------------
(***************************************************************************)
(* Proofs, for any number of messages, chunks, losses and full queues,     *)
(* that PeerLink delivers acknowledged messages at most once, reports only *)
(* what is held, never mixes transport generations, transmits an operation *)
(* in one task at a time and keeps silent about what has ended.            *)
(***************************************************************************)
EXTENDS PeerLink, SequencesExt, SequenceTheorems, TLAPS

-----------------------------------------------------------------------------
(* The retained operations: an insertion-ordered list without duplicates   *)

Distinct(s) == \A i, j \in 1..Len(s) : s[i] = s[j] => i = j

(* t is s without its element at position p *)
ShiftedUp(S, s, t, p) ==
    /\ t \in Seq(S)
    /\ Len(t) = Len(s) - 1
    /\ \A i \in 1..(Len(s) - 1) : t[i] = IF i < p THEN s[i] ELSE s[i + 1]

(* What List.remove leaves of an order list: the element at the removed    *)
(* position disappears and the later ones move up by one.                  *)
LEMMA RemoveFirstShape ==
    ASSUME NEW S, NEW s \in Seq(S), NEW e, NEW p \in 1..Len(s), s[p] = e,
           Distinct(s)
    PROVE  ShiftedUp(S, s, RemoveFirst(s, e), p)
<1> DEFINE I == {i \in 1..Len(s) : s[i] = e}
           before == SubSeq(s, 1, p - 1)
           after == SubSeq(s, p + 1, Len(s))
<1>1. I = {p}
  BY DEF Distinct
<1>2. SelectInSeq(s, LAMBDA v : v = e) = p
  <2>1. Min(I) = p
    BY <1>1 DEF Min
  <2> QED
    BY <1>1, <2>1 DEF SelectInSeq
<1>3. RemoveFirst(s, e) = before \o after
  BY <1>2 DEF RemoveFirst, RemoveAt
<1>4. /\ Len(s) \in Nat
      /\ \A i \in 1..Len(s) : s[i] \in S
  BY LenProperties
<1>5. /\ before \in Seq(S)
      /\ Len(before) = p - 1
      /\ \A i \in 1..(p - 1) : before[i] = s[i]
  BY <1>4, SubSeqProperties
<1>6. /\ after \in Seq(S)
      /\ Len(after) = Len(s) - p
      /\ \A i \in 1..(Len(s) - p) : after[i] = s[p + i]
  <2>1. \A i \in (p + 1)..Len(s) : s[i] \in S
    BY <1>4
  <2>2. /\ after \in Seq(S)
        /\ Len(after) = IF p + 1 =< Len(s) THEN Len(s) - (p + 1) + 1 ELSE 0
        /\ \A i \in 1..(Len(s) - (p + 1) + 1) : after[i] = s[(p + 1) + i - 1]
    BY <1>4, <2>1, SubSeqProperties
  <2> QED
    BY <1>4, <2>2
<1> HIDE DEF before, after
<1>7. /\ before \o after \in Seq(S)
      /\ Len(before \o after) = Len(before) + Len(after)
      /\ \A i \in 1..(Len(before) + Len(after)) : (before \o after)[i] =
            IF i =< Len(before) THEN before[i] ELSE after[i - Len(before)]
  <2>1. before \in Seq(S) /\ after \in Seq(S)
    BY <1>5, <1>6
  <2> QED
    BY ONLY <2>1, ConcatProperties
<1> QED
  BY <1>3, <1>4, <1>5, <1>6, <1>7 DEF ShiftedUp

(* List.remove on a list without duplicates removes exactly the element.   *)
LEMMA RemoveFirstElements ==
    ASSUME NEW S, NEW s \in Seq(S), NEW e, Distinct(s)
    PROVE  /\ RemoveFirst(s, e) \in Seq(S)
           /\ Distinct(RemoveFirst(s, e))
           /\ \A x : Contains(RemoveFirst(s, e), x) <=> Contains(s, x) /\ x # e
<1>1. CASE ~Contains(s, e)
  BY <1>1 DEF Contains, RemoveFirst
<1>2. CASE Contains(s, e)
  <2>1. PICK p \in 1..Len(s) : s[p] = e
    BY <1>2 DEF Contains
  <2> DEFINE t == RemoveFirst(s, e)
  <2>2. ShiftedUp(S, s, t, p)
    BY <2>1, RemoveFirstShape
  <2> HIDE DEF t
  <2>3. /\ t \in Seq(S)
        /\ Len(t) = Len(s) - 1
        /\ \A i \in 1..(Len(s) - 1) : t[i] = IF i < p THEN s[i] ELSE s[i + 1]
    BY <2>2 DEF ShiftedUp
  <2>4. Distinct(t)
    <3> SUFFICES ASSUME NEW i \in 1..Len(t), NEW j \in 1..Len(t), t[i] = t[j]
                 PROVE  i = j
      BY DEF Distinct
    <3> QED
      BY <2>1, <2>3 DEF Distinct
  <2>5. ASSUME NEW x PROVE Contains(t, x) <=> Contains(s, x) /\ x # e
    <3>1. ASSUME NEW i \in 1..Len(t), t[i] = x PROVE Contains(s, x) /\ x # e
      <4>1. CASE i < p
        BY <2>1, <2>3, <3>1, <4>1 DEF Distinct, Contains
      <4>2. CASE ~(i < p)
        <5>1. i + 1 \in 1..Len(s) /\ s[i + 1] = x /\ i + 1 # p
          BY <2>3, <3>1, <4>2
        <5> QED
          BY <5>1, <2>1 DEF Distinct, Contains
      <4> QED
        BY <4>1, <4>2
    <3>2. ASSUME NEW i \in 1..Len(s), s[i] = x, x # e PROVE Contains(t, x)
      <4>1. CASE i < p
        BY <2>1, <2>3, <3>2, <4>1 DEF Contains
      <4>2. CASE ~(i < p)
        <5>1. i - 1 \in 1..Len(t) /\ t[i - 1] = x
          BY <2>1, <2>3, <3>2, <4>2
        <5> QED
          BY <5>1 DEF Contains
      <4> QED
        BY <4>1, <4>2
    <3> QED
      BY <3>1, <3>2 DEF Contains
  <2> QED
    BY <2>3, <2>4, <2>5 DEF t
<1> QED
  BY <1>1, <1>2

(* Without its head a list still lacks duplicates and loses nothing else.  *)
LEMMA TailElements ==
    ASSUME NEW S, NEW s \in Seq(S), s # <<>>, Distinct(s)
    PROVE  /\ Distinct(Tail(s))
           /\ \A x : Contains(Tail(s), x) <=> Contains(s, x) /\ x # Head(s)
<1>1. /\ Len(Tail(s)) = Len(s) - 1
      /\ Len(s) \in Nat
      /\ \A i \in 1..(Len(s) - 1) : Tail(s)[i] = s[i + 1]
      /\ Head(s) = s[1] /\ 1 \in 1..Len(s)
  BY HeadTailProperties
<1>2. Distinct(Tail(s))
  BY <1>1 DEF Distinct
<1>3. ASSUME NEW x PROVE Contains(Tail(s), x) <=> Contains(s, x) /\ x # Head(s)
  <2>1. ASSUME NEW i \in 1..Len(Tail(s)), Tail(s)[i] = x
        PROVE  Contains(s, x) /\ x # Head(s)
    <3>1. i + 1 \in 1..Len(s) /\ s[i + 1] = x /\ i + 1 # 1
      BY <1>1, <2>1
    <3> QED
      BY <3>1, <1>1 DEF Distinct, Contains
  <2>2. ASSUME NEW i \in 1..Len(s), s[i] = x, x # Head(s)
        PROVE  Contains(Tail(s), x)
    <3>1. i - 1 \in 1..Len(Tail(s)) /\ Tail(s)[i - 1] = x
      BY <1>1, <2>2
    <3> QED
      BY <3>1 DEF Contains
  <2> QED
    BY <2>1, <2>2 DEF Contains
<1> QED
  BY <1>2, <1>3

(* Appending adds one element, and no duplicate if it was absent.          *)
LEMMA AppendElements ==
    ASSUME NEW S, NEW s \in Seq(S), NEW e \in S
    PROVE  /\ \A x : Contains(Append(s, e), x) <=> Contains(s, x) \/ x = e
           /\ Distinct(s) /\ ~Contains(s, e) => Distinct(Append(s, e))
<1>1. /\ Len(Append(s, e)) = Len(s) + 1
      /\ Len(s) \in Nat
      /\ \A i \in 1..Len(s) : Append(s, e)[i] = s[i]
      /\ Append(s, e)[Len(s) + 1] = e
  BY AppendProperties
<1>2. ASSUME NEW x PROVE Contains(Append(s, e), x) <=> Contains(s, x) \/ x = e
  BY <1>1 DEF Contains
<1>3. ASSUME Distinct(s), ~Contains(s, e) PROVE Distinct(Append(s, e))
  BY <1>1, <1>3 DEF Distinct, Contains
<1> QED
  BY <1>2, <1>3

-----------------------------------------------------------------------------
(* Types                                                                   *)

DataFrames == [op : Ops, chunk : Nat, seq : Nat, gen : Nat]
Writes == [frame : DataFrames, priority : Priorities,
           state : {"pending", "submitted", "failed"}]
Entries == [state : {"none", "pending", "awaiting"}, tries : Nat, armed : BOOLEAN]
Handles == {"unsent", "transmitting"} \cup Terminal
Tasks == [pc : {"idle", "chunk", "writing", "written", "next"}, op : Nat,
          chunk : Nat, write : Nat, rest : Seq(Ops)]
Acks == [op : Ops, deliver : BOOLEAN]

(* Tasks in the loop of _submitReliableDataAttempt.                        *)
Sending(t) == tasks[t].pc \in {"chunk", "writing", "written"}

TasksOK ==
    /\ tasks \in [TaskIds -> Tasks]
    /\ \A t \in TaskIds : Sending(t) => tasks[t].op \in Ops

SenderTypeOK ==
    /\ open \in BOOLEAN
    /\ writes \in Seq(Writes)
    /\ scenario \in Scenarios
    /\ core \in {"ready", "reconnecting", "closed"}
    /\ gen \in Nat
    /\ nextSeq \in Nat
    /\ retained \in Seq(Ops)
    /\ cancelled \subseteq Ops
    /\ entries \in [Ops -> Entries]
    /\ handle \in [Ops -> Handles]
    /\ TasksOK
    /\ losses \in Nat
    /\ fulls \in Nat

ReceiverTypeOK ==
    /\ wire \in Seq(DataFrames)
    /\ peer \in {"ready", "reconnecting"}
    /\ highest \in Nat
    /\ partial \in [Ops -> SUBSET (Nat \X Nat)]
    /\ dedup \subseteq Ops
    /\ acks \in Seq(Acks)
    /\ ackWire \in Seq(Ops)
    /\ delivered \in Seq(Ops)

LinkTypeOK == SenderTypeOK /\ ReceiverTypeOK

-----------------------------------------------------------------------------
(* Inductive invariants                                                    *)

(* Everything in use on the transport is of the current generation, and    *)
(* nothing of a lost one is left at the receiver.                          *)
OneGeneration ==
    /\ \A i \in 1..Len(writes) : writes[i].frame.gen = gen
    /\ \A i \in 1..Len(wire) : wire[i].gen = gen
    /\ \A o \in Ops : \A x \in partial[o] : x[2] = gen
    /\ peer # "ready" => wire = <<>> /\ \A o \in Ops : partial[o] = {}

Waits(o, i) == acks[i].op = o /\ acks[i].deliver

(* Whatever is acknowledged, or will be, is held; whatever is held is in   *)
(* the duplicate filter, once.                                             *)
HeldOnce ==
    /\ \A i \in 1..Len(acks) : Held(acks[i].op) /\ Acked(acks[i].op)
    /\ \A o \in dedup : Held(o)
    /\ \A i \in 1..Len(ackWire) : Held(ackWire[i])
    /\ \A o \in Ops : handle[o] = "acknowledged" => Held(o)
    /\ \A o \in Ops : Acked(o) /\ Held(o) => o \in dedup
    /\ \A i, j \in 1..Len(acks) :
            acks[i].deliver /\ acks[j].deliver /\ acks[i].op = acks[j].op => i = j
    /\ \A i \in 1..Len(acks), j \in 1..Len(delivered) :
            acks[i].deliver => acks[i].op # delivered[j]
    /\ AckedAtMostOnce

(* The retained operations, the retention entries and the handles agree.   *)
RetentionExact ==
    /\ Distinct(retained)
    /\ \A o \in Ops : Contains(retained, o) => handle[o] # "unsent"
    /\ \A o \in Ops : ~Acked(o) => entries[o].state = "none"
    /\ \A o \in Ops : entries[o].armed => entries[o].state # "none"
    /\ \A o \in Ops : entries[o].state # "none" => Contains(retained, o)
    /\ \A o \in Ops : handle[o] = "transmitting" => Contains(retained, o)

(* An operation that the replay of RESUME has still to transmit.           *)
ToReplay(o) == Contains(tasks[Replay].rest, o)

(* Who may transmit what.                                                  *)
TransmitterExact ==
    /\ \A t \in Ops : tasks[t].rest = <<>>
    /\ \A t \in Ops : Sending(t) => tasks[t].op = t
    /\ \A t \in Ops : handle[t] = "unsent" => tasks[t].pc = "idle"
    /\ \A t \in Ops : tasks[t].pc = "chunk" => core = "ready"
    /\ \A t \in TaskIds : tasks[t].pc \in {"writing", "written"} => core = "ready"
    /\ \A i \in 1..Len(tasks[Poll].rest) : Acked(tasks[Poll].rest[i])
    /\ Distinct(tasks[Replay].rest)
    /\ \A o \in Ops : ToReplay(o) => handle[o] # "unsent" /\ ~entries[o].armed
    /\ \A o \in Ops, t \in TaskIds : Transmitting(t, o) =>
            /\ handle[o] # "unsent"
            /\ ~entries[o].armed
            /\ ~ToReplay(o)
    /\ OneTransmitter

(* A deadline runs only on a transport that this side has not lost.        *)
DeadlineConnected == \A o \in Ops : entries[o].armed => core # "reconnecting"

Submitted(o, c) ==
    \E w \in 1..Len(writes) :
        /\ writes[w].frame.op = o
        /\ writes[w].frame.chunk = c
        /\ writes[w].state # "pending"

(* The chunks of an attempt before the current one have been submitted, on *)
(* this transport; the current one is the write that the task awaits.      *)
AttemptSubmitted(t) ==
    /\ tasks[t].pc = "writing" =>
            /\ tasks[t].write \in 1..Len(writes)
            /\ writes[tasks[t].write].frame.op = tasks[t].op
            /\ writes[tasks[t].write].frame.chunk = tasks[t].chunk
    /\ Sending(t) => \A c \in 1..(tasks[t].chunk - 1) : Submitted(tasks[t].op, c)
    /\ tasks[t].pc = "written" => Submitted(tasks[t].op, tasks[t].chunk)

(* A deadline starts after all chunks of the attempt.                      *)
PrefixSubmitted ==
    /\ \A t \in TaskIds : AttemptSubmitted(t)
    /\ \A o \in Ops : entries[o].armed => \A c \in 1..kind[o].chunks : Submitted(o, c)

(* As long as no queue was full, only an operation under way is retained,  *)
(* and what is transmitted or replayed is under way, acknowledged or       *)
(* marked as cancelled.                                                    *)
EndsAreSilent ==
    fulls = 0 =>
        /\ \A o \in Ops : Contains(retained, o) => handle[o] = "transmitting"
        /\ \A o \in Ops : (ToReplay(o) \/ \E t \in TaskIds : Transmitting(t, o)) =>
              o \in cancelled \/ handle[o] \in {"transmitting", "acknowledged"}

-----------------------------------------------------------------------------
(* Type correctness                                                        *)

(* A scenario gives every operation a mode, a priority and a length.       *)
LEMMA KindType ==
    ASSUME scenario \in Scenarios, NEW o \in Ops
    PROVE  /\ kind[o] \in Kinds
           /\ kind[o].priority \in Priorities
           /\ kind[o].chunks \in Nat \ {0}
<1>1. kind \in [Ops -> Kinds]
  BY ScenarioAssumption DEF kind
<1>2. kind[o] \in Kinds
  BY <1>1
<1> QED
  BY <1>2, BoundAssumption DEF Kinds

(* Settling a handle keeps it a handle.                                    *)
LEMMA SettleType ==
    ASSUME NEW h \in [Ops -> Handles], NEW o \in Ops, NEW s \in Handles
    PROVE  /\ Settle(h, o, s) \in [Ops -> Handles]
           /\ \A p \in Ops : p # o => Settle(h, o, s)[p] = h[p]
           /\ Settle(h, o, s)[o] = IF h[o] \in Terminal THEN h[o] ELSE s
  BY DEF Settle

(* Every entry that the retention set forms is an entry.                   *)
LEMMA EntryTypes ==
    /\ NoEntry \in Entries
    /\ \A e \in Entries :
        /\ [e EXCEPT !.state = "pending"] \in Entries
        /\ [e EXCEPT !.state = "awaiting", !.armed = TRUE] \in Entries
        /\ [state |-> "pending", tries |-> e.tries + 1, armed |-> FALSE] \in Entries
        /\ [e EXCEPT !.armed = FALSE,
                !.state = IF e.state = "awaiting" THEN "pending" ELSE e.state] \in Entries
<1>1. NoEntry \in Entries
  BY DEF Entries, NoEntry
<1>2. ASSUME NEW e \in Entries
      PROVE  /\ [e EXCEPT !.state = "pending"] \in Entries
             /\ [e EXCEPT !.state = "awaiting", !.armed = TRUE] \in Entries
  BY DEF Entries
<1>3. ASSUME NEW e \in Entries
      PROVE  /\ [state |-> "pending", tries |-> e.tries + 1, armed |-> FALSE] \in Entries
  BY DEF Entries
<1>4. ASSUME NEW e \in Entries, NEW s \in {"none", "pending", "awaiting"}
      PROVE  [e EXCEPT !.armed = FALSE, !.state = s] \in Entries
  BY DEF Entries
<1>5. \A e \in Entries :
        (IF e.state = "awaiting" THEN "pending" ELSE e.state)
            \in {"none", "pending", "awaiting"}
  BY DEF Entries
<1> QED
  BY <1>1, <1>2, <1>3, <1>4, <1>5

(* Every step of a task keeps it a task.                                   *)
LEMMA TaskTypes ==
    /\ Idle \in Tasks
    /\ \A k \in Tasks :
        /\ \A pc \in {"chunk", "written", "next"} : [k EXCEPT !.pc = pc] \in Tasks
        /\ \A w \in Nat : [k EXCEPT !.pc = "writing", !.write = w] \in Tasks
        /\ [k EXCEPT !.pc = "chunk", !.chunk = k.chunk + 1] \in Tasks
        /\ \A r \in Seq(Ops) : [k EXCEPT !.rest = r] \in Tasks
        /\ \A o \in Ops, r \in Seq(Ops) :
              [k EXCEPT !.pc = "chunk", !.op = o, !.chunk = 1, !.rest = r] \in Tasks
    /\ \A o \in Ops : [Idle EXCEPT !.pc = "chunk", !.op = o, !.chunk = 1] \in Tasks
    /\ \A r \in Seq(Ops) : [Idle EXCEPT !.pc = "next", !.rest = r] \in Tasks
<1>1. Idle \in Tasks
  BY DEF Tasks, Idle
<1>2. ASSUME NEW k \in Tasks
      PROVE  /\ \A pc \in {"chunk", "written", "next"} : [k EXCEPT !.pc = pc] \in Tasks
             /\ \A w \in Nat : [k EXCEPT !.pc = "writing", !.write = w] \in Tasks
             /\ \A r \in Seq(Ops) : [k EXCEPT !.rest = r] \in Tasks
             /\ \A r \in Seq(Ops) : [k EXCEPT !.pc = "next", !.rest = r] \in Tasks
  BY DEF Tasks
<1>3. ASSUME NEW k \in Tasks PROVE [k EXCEPT !.pc = "chunk", !.chunk = k.chunk + 1] \in Tasks
  <2>1. k.chunk + 1 \in Nat
    BY DEF Tasks
  <2> QED
    BY <2>1 DEF Tasks
<1>4. ASSUME NEW k \in Tasks, NEW o \in Ops
      PROVE  [k EXCEPT !.pc = "chunk", !.op = o, !.chunk = 1] \in Tasks
  <2>1. o \in Nat
    BY OpsAssumption
  <2> QED
    BY <2>1 DEF Tasks
<1>5. ASSUME NEW k \in Tasks, NEW o \in Ops, NEW r \in Seq(Ops)
      PROVE  [k EXCEPT !.pc = "chunk", !.op = o, !.chunk = 1, !.rest = r] \in Tasks
  <2>1. o \in Nat
    BY OpsAssumption
  <2> QED
    BY <2>1 DEF Tasks
<1> QED
  BY <1>1, <1>2, <1>3, <1>4, <1>5

(* Giving one task a new record, or all of them a new program counter that *)
(* does not make one send, keeps the tasks well typed.                     *)
LEMMA TaskUpdate ==
    ASSUME TasksOK
    PROVE  /\ \A t \in TaskIds, k \in Tasks :
                 /\ tasks' = [tasks EXCEPT ![t] = k]
                 /\ k.pc \in {"chunk", "writing", "written"} => k.op \in Ops
                 => TasksOK'
           /\ \A S \in SUBSET TaskIds, pc \in {"written", "next"} :
                 /\ tasks' = [t \in TaskIds |-> IF t \in S THEN [tasks[t] EXCEPT !.pc = pc]
                                                ELSE tasks[t]]
                 /\ \A t \in S : Sending(t)
                 => TasksOK'
<1>1. ASSUME NEW t \in TaskIds, NEW k \in Tasks, tasks' = [tasks EXCEPT ![t] = k],
             k.pc \in {"chunk", "writing", "written"} => k.op \in Ops
      PROVE  TasksOK'
  BY <1>1 DEF TasksOK, Sending
<1>2. ASSUME NEW S \in SUBSET TaskIds, NEW pc \in {"written", "next"},
             tasks' = [t \in TaskIds |-> IF t \in S THEN [tasks[t] EXCEPT !.pc = pc]
                                        ELSE tasks[t]],
             \A t \in S : Sending(t)
      PROVE  TasksOK'
  <2>1. \A t \in TaskIds : tasks'[t] \in Tasks /\ tasks'[t].op = tasks[t].op
    <3> SUFFICES ASSUME NEW t \in TaskIds
                 PROVE  tasks'[t] \in Tasks /\ tasks'[t].op = tasks[t].op
      OBVIOUS
    <3>1. tasks[t] \in Tasks
      BY DEF TasksOK
    <3>2. /\ [tasks[t] EXCEPT !.pc = pc] \in Tasks
          /\ [tasks[t] EXCEPT !.pc = pc].op = tasks[t].op
      BY <3>1, TaskTypes DEF Tasks
    <3> QED
      BY <1>2, <3>1, <3>2
  <2> QED
    BY <1>2, <2>1 DEF TasksOK, Sending
<1> QED
  BY <1>1, <1>2

(* The initial state is well typed.                                        *)
LEMMA LinkTypeInit == LinkInit => LinkTypeOK
  BY DEF LinkInit, LinkTypeOK, SenderTypeOK, ReceiverTypeOK, ContractInit, NoEntry,
         Idle, Entries, Handles, TasksOK, Tasks, Sending, Terminal

(* The backend keeps a well-typed list of writes: it grows by one, one is  *)
(* answered, or everything pending fails.                                  *)
LEMMA ContractTypes ==
    ASSUME open \in BOOLEAN, writes \in Seq(Writes)
    PROVE  /\ \A f \in DataFrames, p \in Priorities :
                 Accept(f, p) =>
                    /\ open' \in BOOLEAN
                    /\ writes' \in Seq(Writes)
                    /\ Len(writes') = Len(writes) + 1
                    /\ \A w \in 1..Len(writes) : writes'[w] = writes[w]
                    /\ writes'[Len(writes) + 1].frame = f
           /\ \A v \in 1..Len(writes) :
                 Complete(v) =>
                    /\ open' \in BOOLEAN
                    /\ writes' \in Seq(Writes)
                    /\ Len(writes') = Len(writes)
                    /\ \A w \in 1..Len(writes) :
                          /\ writes'[w].frame = writes[w].frame
                          /\ w # v => writes'[w].state = writes[w].state
                    /\ writes'[v].state = "submitted"
           /\ FailAll =>
                    /\ open' \in BOOLEAN
                    /\ writes' \in Seq(Writes)
                    /\ Len(writes') = Len(writes)
                    /\ \A w \in 1..Len(writes) :
                          /\ writes'[w].frame = writes[w].frame
                          /\ writes[w].state # "pending" =>
                                writes'[w].state = writes[w].state
<1>1. ASSUME NEW f \in DataFrames, NEW p \in Priorities, Accept(f, p)
      PROVE  /\ open' \in BOOLEAN
             /\ writes' \in Seq(Writes)
             /\ Len(writes') = Len(writes) + 1
             /\ \A w \in 1..Len(writes) : writes'[w] = writes[w]
             /\ writes'[Len(writes) + 1].frame = f
  <2> DEFINE new == [frame |-> f, priority |-> p, state |-> "pending"]
  <2>1. new \in Writes
    BY DEF Writes
  <2>2. writes' = Append(writes, new) /\ open' = open
    BY <1>1 DEF Accept
  <2> QED
    BY <2>1, <2>2, AppendProperties
<1>2. ASSUME NEW v \in 1..Len(writes), Complete(v)
      PROVE  /\ open' \in BOOLEAN
             /\ writes' \in Seq(Writes)
             /\ Len(writes') = Len(writes)
             /\ \A w \in 1..Len(writes) :
                   /\ writes'[w].frame = writes[w].frame
                   /\ w # v => writes'[w].state = writes[w].state
             /\ writes'[v].state = "submitted"
  <2>1. /\ writes' = [writes EXCEPT ![v].state = "submitted"]
        /\ open' = open
    BY <1>2 DEF Complete
  <2>2. \A w \in 1..Len(writes) : writes[w] \in Writes
    BY LenProperties
  <2>3. [writes[v] EXCEPT !.state = "submitted"] \in Writes
    BY <2>2 DEF Writes
  <2>4. writes' \in Seq(Writes) /\ Len(writes') = Len(writes)
    BY <2>1, <2>3, ExceptSeq
  <2> QED
    BY <2>1, <2>2, <2>4 DEF Writes
<1>3. ASSUME FailAll
      PROVE  /\ open' \in BOOLEAN
             /\ writes' \in Seq(Writes)
             /\ Len(writes') = Len(writes)
             /\ \A w \in 1..Len(writes) :
                   /\ writes'[w].frame = writes[w].frame
                   /\ writes[w].state # "pending" => writes'[w].state = writes[w].state
  <2> DEFINE failed(w) == IF writes[w].state = "pending"
                          THEN [writes[w] EXCEPT !.state = "failed"] ELSE writes[w]
  <2>1. /\ writes' = [w \in 1..Len(writes) |-> failed(w)]
        /\ open' = FALSE
    BY <1>3 DEF FailAll
  <2>2. \A w \in 1..Len(writes) : writes[w] \in Writes
    BY LenProperties
  <2>3. \A w \in 1..Len(writes) :
            /\ failed(w) \in Writes
            /\ failed(w).frame = writes[w].frame
            /\ writes[w].state # "pending" => failed(w).state = writes[w].state
    BY <2>2 DEF Writes
  <2> HIDE DEF failed
  <2>4. Len(writes) \in Nat
    BY LenProperties
  <2>5. writes' \in Seq(Writes) /\ Len(writes') = Len(writes)
    BY <2>1, <2>3, <2>4, IsASeq
  <2> QED
    BY <2>1, <2>3, <2>5
<1> QED
  BY <1>1, <1>2, <1>3

(* Removing an operation keeps the retained operations a list of them.     *)
LEMMA RetainedType ==
    ASSUME retained \in Seq(Ops), Distinct(retained), NEW o
    PROVE  RemoveFirst(retained, o) \in Seq(Ops)
  BY RemoveFirstElements

(* Interrupting the writes keeps the tasks well typed.                     *)
LEMMA InterruptType == ASSUME TasksOK, Interrupt PROVE TasksOK'
<1> DEFINE S == {u \in TaskIds : tasks[u].pc = "writing"}
<1>1. tasks' = [u \in TaskIds |-> IF u \in S THEN [tasks[u] EXCEPT !.pc = "next"]
                                 ELSE tasks[u]]
  BY DEF Interrupt
<1>2. \A u \in S : Sending(u)
  BY DEF Sending
<1> HIDE DEF S
<1> QED
  BY <1>1, <1>2, TaskUpdate DEF S

(* Type correctness rests on the list of retained operations having no     *)
(* duplicates; every step of the sender preserves both.                    *)
LEMMA SenderTypeStep ==
    ASSUME LinkTypeOK, Distinct(retained), [LinkNext]_linkVars
    PROVE  SenderTypeOK'
<1> USE DEF LinkTypeOK, SenderTypeOK, senderVars, contractVars
<1>1. ASSUME NEW o \in Ops, Send(o) PROVE SenderTypeOK'
  <2>1. retained' \in Seq(Ops)
    BY <1>1, AppendProperties DEF Send
  <2>2. entries' \in [Ops -> Entries]
    BY <1>1, EntryTypes DEF Send
  <2>3. TasksOK'
    <3> DEFINE k == [Idle EXCEPT !.pc = "chunk", !.op = o, !.chunk = 1]
    <3>1. k \in Tasks /\ k.op = o /\ o \in TaskIds
      BY TaskTypes DEF Idle, TaskIds
    <3> QED
      BY <1>1, <3>1, TaskUpdate DEF Send
  <2> QED
    BY <1>1, <2>1, <2>2, <2>3 DEF Send, Handles
<1>2. ASSUME NEW o \in Ops, Cancel(o) PROVE SenderTypeOK'
  <2>1. retained' \in Seq(Ops)
    BY <1>2, RetainedType DEF Cancel
  <2>2. entries' \in [Ops -> Entries]
    BY <1>2, EntryTypes DEF Cancel
  <2> QED
    BY <1>2, <2>1, <2>2 DEF Cancel, Handles, Terminal, TasksOK, Sending
<1>3. ASSUME NEW t \in TaskIds, Chunk(t) PROVE SenderTypeOK'
  <2> DEFINE o == tasks[t].op
             f == [op |-> o, chunk |-> tasks[t].chunk, seq |-> nextSeq, gen |-> gen]
  <2>1. o \in Ops /\ f \in DataFrames /\ kind[o].priority \in Priorities
    BY <1>3, KindType DEF Chunk, TasksOK, Sending, DataFrames, Tasks
  <2>2. UNCHANGED contractVars \/ Accept(f, kind[o].priority)
    BY <1>3 DEF Chunk
  <2>3. open' \in BOOLEAN /\ writes' \in Seq(Writes)
    BY <2>1, <2>2, ContractTypes
  <2>4. Len(writes) + 1 \in Nat
    BY LenProperties
  <2>5. TasksOK'
    <3>1. tasks[t] \in Tasks
      BY DEF TasksOK
    <3>2. CASE Goto(t, "next")
      <4> DEFINE k == [tasks[t] EXCEPT !.pc = "next"]
      <4>1. k \in Tasks /\ tasks' = [tasks EXCEPT ![t] = k] /\ k.op = o
        BY <3>1, <3>2, TaskTypes DEF Goto, Tasks
      <4> HIDE DEF k
      <4> QED
        BY <2>1, <4>1, TaskUpdate
    <3>3. CASE Finish(t)
      BY <3>3, TaskTypes, TaskUpdate DEF Finish, Idle
    <3>4. CASE tasks' = [tasks EXCEPT ![t] = [@ EXCEPT !.pc = "writing",
                                                       !.write = Len(writes) + 1]]
      <4> DEFINE k == [tasks[t] EXCEPT !.pc = "writing", !.write = Len(writes) + 1]
      <4>1. k \in Tasks /\ tasks' = [tasks EXCEPT ![t] = k] /\ k.op = o
        BY <2>4, <3>1, <3>4, TaskTypes DEF Tasks
      <4> HIDE DEF k
      <4> QED
        BY <2>1, <4>1, TaskUpdate
    <3> QED
      BY <1>3, <3>2, <3>3, <3>4 DEF Chunk, Throw
  <2>6. handle' \in [Ops -> Handles]
    BY <1>3, SettleType DEF Chunk, Throw, Handles, Terminal
  <2> QED
    BY <1>3, <2>3, <2>5, <2>6 DEF Chunk
<1>4. ASSUME NEW t \in TaskIds, Written(t) PROVE SenderTypeOK'
  <2> DEFINE o == tasks[t].op
  <2>1. o \in Ops
    BY <1>4 DEF Written, TasksOK, Sending
  <2>2. TasksOK'
    <3>1. tasks[t] \in Tasks
      BY DEF TasksOK
    <3>2. /\ [tasks[t] EXCEPT !.pc = "next"] \in Tasks
          /\ [tasks[t] EXCEPT !.pc = "next"].op = o
          /\ [tasks[t] EXCEPT !.pc = "chunk", !.chunk = tasks[t].chunk + 1] \in Tasks
          /\ [tasks[t] EXCEPT !.pc = "chunk", !.chunk = tasks[t].chunk + 1].op = o
      BY <3>1, TaskTypes DEF Tasks
    <3>3. CASE Goto(t, "next")
      BY <2>1, <3>2, <3>3, TaskUpdate DEF Goto
    <3>4. CASE tasks' = [tasks EXCEPT ![t] = [@ EXCEPT !.pc = "chunk",
                                                       !.chunk = tasks[t].chunk + 1]]
      <4> DEFINE k == [tasks[t] EXCEPT !.pc = "chunk", !.chunk = tasks[t].chunk + 1]
      <4>1. tasks' = [tasks EXCEPT ![t] = k]
        BY ONLY <3>4
      <4> HIDE DEF k
      <4> QED
        BY <2>1, <3>2, <4>1, TaskUpdate DEF k
    <3> QED
      BY <1>4, <3>3, <3>4 DEF Written
  <2>3. entries' \in [Ops -> Entries]
    <3>1. entries[o] \in Entries
      BY <2>1
    <3>2. [entries[o] EXCEPT !.state = "awaiting", !.armed = TRUE] \in Entries
      BY <3>1, EntryTypes
    <3> QED
      BY <1>4, <2>1, <3>2 DEF Written, FinalSubmitted
  <2>4. retained' \in Seq(Ops)
    BY <1>4, RetainedType DEF Written, FinalSubmitted
  <2>5. handle' \in [Ops -> Handles]
    BY <1>4, <2>1, SettleType DEF Written, FinalSubmitted, Handles, Terminal
  <2> QED
    BY <1>4, <2>2, <2>3, <2>4, <2>5 DEF Written
<1>5. ASSUME NEW t \in TaskIds, NextOp(t) PROVE SenderTypeOK'
  <2> DEFINE rest == tasks[t].rest
             o == Head(rest)
  <2>1. CASE UNCHANGED <<retained, entries, handle>> /\ Finish(t)
    <3>1. TasksOK'
      BY <2>1, TaskTypes, TaskUpdate DEF Finish, Idle
    <3> QED
      BY <1>5, <2>1, <3>1 DEF NextOp
  <2>2. CASE /\ rest # <<>>
             /\ tasks' = [tasks EXCEPT ![t].rest = Tail(@)]
             /\ UNCHANGED <<retained, entries, handle>> \/ GiveUp(o)
    <3>1. o \in Ops /\ Tail(rest) \in Seq(Ops)
      BY <2>2, HeadTailProperties DEF TasksOK, Tasks
    <3>2. TasksOK'
      <4> DEFINE k == [tasks[t] EXCEPT !.rest = Tail(rest)]
      <4>1. tasks[t] \in Tasks
        BY DEF TasksOK
      <4>2. k \in Tasks
        BY <3>1, <4>1, TaskTypes
      <4>3. k.pc = "next"
        BY <1>5, <4>1 DEF Tasks, NextOp
      <4> HIDE DEF k
      <4>4. tasks' = [tasks EXCEPT ![t] = k]
        BY <2>2 DEF k
      <4> QED
        BY <4>2, <4>3, <4>4, TaskUpdate
    <3>3. retained' \in Seq(Ops)
      BY <2>2, RetainedType DEF GiveUp
    <3>4. entries' \in [Ops -> Entries]
      BY <2>2, <3>1, EntryTypes DEF GiveUp
    <3>5. handle' \in [Ops -> Handles]
      BY <2>2, <3>1, SettleType DEF GiveUp, Handles, Terminal
    <3> QED
      BY <1>5, <3>2, <3>3, <3>4, <3>5 DEF NextOp
  <2>3. CASE rest # <<>> /\ Attempt(t, o)
    <3>1. o \in Ops /\ Tail(rest) \in Seq(Ops)
      BY <2>3, HeadTailProperties DEF TasksOK, Tasks
    <3>2. TasksOK'
      <4> DEFINE k == [tasks[t] EXCEPT !.pc = "chunk", !.op = o, !.chunk = 1,
                                       !.rest = Tail(rest)]
      <4>1. tasks[t] \in Tasks
        BY DEF TasksOK
      <4>2. k \in Tasks
        BY <3>1, <4>1, TaskTypes
      <4>3. k.op = o
        BY <4>1 DEF Tasks
      <4>4. tasks' = [tasks EXCEPT ![t] = k]
        BY ONLY <2>3 DEF Attempt
      <4> HIDE DEF k
      <4> QED
        BY <3>1, <4>2, <4>3, <4>4, TaskUpdate
    <3>3. entries' \in [Ops -> Entries]
      BY <2>3, <3>1, EntryTypes DEF Attempt
    <3> QED
      BY <1>5, <2>3, <3>2, <3>3 DEF NextOp, Attempt
  <2> QED
    BY <1>5, <2>1, <2>2, <2>3 DEF NextOp
<1>6. ASSUME NEW w \in 1..Len(writes), WriteDone(w) PROVE SenderTypeOK'
  <2>1. open' \in BOOLEAN /\ writes' \in Seq(Writes)
    BY <1>6, ContractTypes DEF WriteDone
  <2>2. TasksOK'
    <3> DEFINE S == {u \in TaskIds : tasks[u].pc = "writing" /\ tasks[u].write = w}
    <3>1. tasks' = [u \in TaskIds |-> IF u \in S THEN [tasks[u] EXCEPT !.pc = "written"]
                                     ELSE tasks[u]]
      BY <1>6 DEF WriteDone
    <3>2. \A u \in S : Sending(u)
      BY DEF Sending
    <3> HIDE DEF S
    <3> QED
      BY <3>1, <3>2, TaskUpdate DEF S
  <2> QED
    BY <1>6, <2>1, <2>2 DEF WriteDone
<1>7. ASSUME PollAckTimeouts PROVE SenderTypeOK'
  <2>1. PICK n \in 1..Len(retained) : \E rest \in [1..n -> Ops] :
            tasks' = [tasks EXCEPT ![Poll] = [Idle EXCEPT !.pc = "next", !.rest = rest]]
    BY <1>7 DEF PollAckTimeouts
  <2>2. PICK rest \in [1..n -> Ops] :
            tasks' = [tasks EXCEPT ![Poll] = [Idle EXCEPT !.pc = "next", !.rest = rest]]
    BY <2>1
  <2>3. rest \in Seq(Ops)
    BY LenProperties
  <2>4. TasksOK'
    <3> DEFINE k == [Idle EXCEPT !.pc = "next", !.rest = rest]
    <3>1. k \in Tasks /\ k.pc = "next" /\ Poll \in TaskIds
      BY <2>3, TaskTypes DEF Idle, TaskIds
    <3> QED
      BY <2>2, <3>1, TaskUpdate
  <2> QED
    BY <1>7, <2>4 DEF PollAckTimeouts
<1>8. ASSUME ReceiveAck PROVE SenderTypeOK'
  <2>1. Head(ackWire) \in Ops
    BY <1>8, HeadTailProperties DEF ReceiveAck, ReceiverTypeOK
  <2>2. retained' \in Seq(Ops)
    BY <1>8, RetainedType DEF ReceiveAck
  <2>3. entries' \in [Ops -> Entries]
    BY <1>8, <2>1, EntryTypes DEF ReceiveAck
  <2>4. handle' \in [Ops -> Handles]
    BY <1>8, <2>1, SettleType DEF ReceiveAck, Handles, Terminal
  <2> QED
    BY <1>8, <2>2, <2>3, <2>4 DEF ReceiveAck, TasksOK, Sending
<1>9. ASSUME TransportLost PROVE SenderTypeOK'
  <2>1. open' \in BOOLEAN /\ writes' \in Seq(Writes)
    BY <1>9, ContractTypes DEF TransportLost
  <2>2. entries' \in [Ops -> Entries]
    BY <1>9, EntryTypes DEF TransportLost, PauseDeadlines
  <2>3. TasksOK'
    BY <1>9, InterruptType DEF TransportLost
  <2> QED
    BY <1>9, <2>1, <2>2, <2>3 DEF TransportLost
<1>10. ASSUME Resume PROVE SenderTypeOK'
  <2>1. TasksOK'
    <3> DEFINE k == [Idle EXCEPT !.pc = "next", !.rest = retained]
    <3>1. k \in Tasks /\ k.pc = "next" /\ Replay \in TaskIds
      BY TaskTypes DEF Idle, TaskIds
    <3> QED
      BY <1>10, <3>1, TaskUpdate DEF Resume
  <2>2. writes' \in Seq(Writes)
    BY <1>10 DEF Resume
  <2> QED
    BY <1>10, <2>1, <2>2 DEF Resume
<1>11. ASSUME Close PROVE SenderTypeOK'
  <2>1. open' \in BOOLEAN /\ writes' \in Seq(Writes)
    BY <1>11, ContractTypes DEF Close
  <2>2. TasksOK'
    BY <1>11, InterruptType DEF Close
  <2> QED
    BY <1>11, <2>1, <2>2 DEF Close
<1>12. CASE Receive \/ AckWritten \/ AckFailed
  BY <1>12 DEF Receive, AckWritten, AckFailed, TasksOK, Sending
<1>13. CASE PeerLost
  BY <1>13 DEF PeerLost, TasksOK, Sending
<1>14. CASE UNCHANGED linkVars
  BY <1>14 DEF linkVars, TasksOK, Sending
<1> QED
  BY <1>1, <1>2, <1>3, <1>4, <1>5, <1>6, <1>7, <1>8, <1>9, <1>10, <1>11, <1>12, <1>13, <1>14
  DEF LinkNext, Running

(* The first ACK that a step hands over leaves well-typed lists.           *)
LEMMA HandOverType ==
    ASSUME acks \in Seq(Acks), delivered \in Seq(Ops), acks # <<>>, HandOver
    PROVE  /\ acks' \in Seq(Acks)
           /\ delivered' \in Seq(Ops)
           /\ Head(acks) \in Acks
<1>1. /\ Head(acks) \in Acks
      /\ Tail(acks) \in Seq(Acks)
  BY HeadTailProperties
<1>2. Head(acks).op \in Ops
  BY <1>1 DEF Acks
<1> QED
  BY <1>1, <1>2, AppendProperties DEF HandOver

(* Every step keeps the receiver and the wires well typed.                 *)
LEMMA ReceiverTypeStep ==
    ASSUME LinkTypeOK, [LinkNext]_linkVars
    PROVE  ReceiverTypeOK'
<1> USE DEF LinkTypeOK, ReceiverTypeOK, receiverVars
<1>1. \A w \in 1..Len(writes) : writes[w].frame \in DataFrames
  <2>1. \A w \in 1..Len(writes) : writes[w] \in Writes
    BY LenProperties DEF SenderTypeOK
  <2> QED
    BY <2>1 DEF Writes
<1>2. ASSUME NEW w \in 1..Len(writes), WriteDone(w) PROVE ReceiverTypeOK'
  BY <1>1, <1>2, AppendProperties DEF WriteDone
<1>3. ASSUME ReceiveAck PROVE ReceiverTypeOK'
  BY <1>3, HeadTailProperties DEF ReceiveAck
<1>4. ASSUME TransportLost PROVE ReceiverTypeOK'
  <2>1. wire' \in Seq(DataFrames)
    <3>1. wire' = wire \/ \E w \in 1..Len(writes) : wire' = Append(wire, writes[w].frame)
      BY <1>4 DEF TransportLost
    <3>2. ASSUME NEW w \in 1..Len(writes) PROVE Append(wire, writes[w].frame) \in Seq(DataFrames)
      BY <1>1, AppendProperties
    <3> QED
      BY <3>1, <3>2
  <2> QED
    BY <1>4, <2>1 DEF TransportLost
<1>5. ASSUME Resume PROVE ReceiverTypeOK'
  BY <1>5 DEF Resume
<1>6. ASSUME Close PROVE ReceiverTypeOK'
  BY <1>6 DEF Close
<1>7. ASSUME Receive PROVE ReceiverTypeOK'
  <2> DEFINE f == Head(wire)
             a == [op |-> f.op, deliver |-> FirstCompletion(f.op)]
  <2>1. /\ f \in DataFrames
        /\ wire' \in Seq(DataFrames)
    BY <1>7, HeadTailProperties DEF Receive
  <2>2. f.op \in Ops /\ f.chunk \in Nat /\ f.seq \in Nat /\ f.gen \in Nat
    BY <2>1 DEF DataFrames
  <2>3. Chunks(f) \in SUBSET (Nat \X Nat)
    <3>1. partial[f.op] \in SUBSET (Nat \X Nat)
      BY <2>2
    <3>2. <<f.chunk, f.gen>> \in Nat \X Nat
      BY <2>2
    <3> QED
      BY <3>1, <3>2 DEF Chunks
  <2>4. a \in Acks
    BY <2>2 DEF Acks, FirstCompletion
  <2> HIDE DEF f, a
  <2>5. /\ peer' = peer /\ ackWire' = ackWire
        /\ highest' = highest \/ highest' = f.seq
        /\ partial' = partial \/ partial' = [partial EXCEPT ![f.op] = Chunks(f)]
                \/ partial' = [partial EXCEPT ![f.op] = {}]
        /\ dedup' = dedup \/ dedup' = dedup \cup {f.op}
        /\ acks' = acks \/ acks' = Append(acks, a)
        /\ delivered' = delivered \/ delivered' = Append(delivered, f.op)
    BY <1>7 DEF Receive, f, a
  <2>6. acks' \in Seq(Acks) /\ delivered' \in Seq(Ops)
    <3>1. Append(acks, a) \in Seq(Acks)
      BY <2>4, AppendProperties
    <3>2. Append(delivered, f.op) \in Seq(Ops)
      BY <2>2, AppendProperties
    <3> QED
      BY <2>5, <3>1, <3>2
  <2>7. partial' \in [Ops -> SUBSET (Nat \X Nat)]
    BY <2>2, <2>3, <2>5
  <2> QED
    BY <2>1, <2>2, <2>5, <2>6, <2>7
<1>8. ASSUME AckWritten PROVE ReceiverTypeOK'
  <2>1. /\ acks' \in Seq(Acks)
        /\ delivered' \in Seq(Ops)
        /\ Head(acks).op \in Ops
    BY <1>8, HandOverType DEF AckWritten, Acks
  <2>2. ackWire' \in Seq(Ops)
    BY <1>8, <2>1, AppendProperties DEF AckWritten
  <2> QED
    BY <1>8, <2>1, <2>2 DEF AckWritten
<1>9. ASSUME AckFailed PROVE ReceiverTypeOK'
  BY <1>9, HandOverType DEF AckFailed, AcksFailing
<1>10. ASSUME PeerLost PROVE ReceiverTypeOK'
  BY <1>10 DEF PeerLost, DiscardPartial
<1>11. ASSUME NEW o \in Ops, Send(o) \/ Cancel(o) PROVE ReceiverTypeOK'
  BY <1>11 DEF Send, Cancel
<1>12. ASSUME NEW t \in TaskIds, Chunk(t) \/ Written(t) \/ NextOp(t) PROVE ReceiverTypeOK'
  BY <1>12 DEF Chunk, Written, NextOp
<1>13. CASE PollAckTimeouts
  BY <1>13 DEF PollAckTimeouts
<1>14. CASE UNCHANGED linkVars
  BY <1>14 DEF linkVars
<1> QED
  BY <1>2, <1>3, <1>4, <1>5, <1>6, <1>7, <1>8, <1>9, <1>10, <1>11, <1>12, <1>13, <1>14
  DEF LinkNext, Running

-----------------------------------------------------------------------------
(* What the steps do to single operations and tasks                        *)

SameTasksBut(t) == \A u \in TaskIds : u # t => tasks'[u] = tasks[u]
SameOpsBut(o) ==
    \A p \in Ops : p # o => handle'[p] = handle[p] /\ entries'[p] = entries[p]

(* Settling leaves a terminal handle alone.                                *)
Settled(o, s) == handle'[o] = IF handle[o] \in Terminal THEN handle[o] ELSE s
Gone(o) == \A x : Contains(retained', x) <=> Contains(retained, x) /\ x # o

(* Settling changes the handle of one operation.                           *)
LEMMA SettleEffect ==
    ASSUME LinkTypeOK, NEW o \in Ops, NEW s \in Terminal, handle' = Settle(handle, o, s)
    PROVE  Settled(o, s) /\ \A p \in Ops : p # o => handle'[p] = handle[p]
  BY DEF LinkTypeOK, SenderTypeOK, Settled, Settle

(* send() registers the operation and starts its task.                     *)
LEMMA SendEffect ==
    ASSUME LinkTypeOK, NEW o \in Ops, Send(o)
    PROVE  /\ handle[o] = "unsent" /\ core = "ready"
           /\ handle'[o] = "transmitting" /\ SameOpsBut(o)
           /\ entries'[o].armed = entries[o].armed
           /\ entries'[o].state = IF Acked(o) THEN "pending" ELSE entries[o].state
           /\ \A x : Contains(retained', x) <=> Contains(retained, x) \/ x = o
           /\ Distinct(retained) /\ ~Contains(retained, o) => Distinct(retained')
           /\ SameTasksBut(o)
           /\ tasks'[o].pc = "chunk" /\ tasks'[o].op = o /\ tasks'[o].chunk = 1
           /\ tasks'[o].rest = <<>>
           /\ UNCHANGED <<scenario, core, cancelled, fulls, writes>>
<1> USE DEF LinkTypeOK, SenderTypeOK
<1>1. /\ \A x : Contains(retained', x) <=> Contains(retained, x) \/ x = o
      /\ Distinct(retained) /\ ~Contains(retained, o) => Distinct(retained')
  BY AppendElements DEF Send
<1>2. /\ SameTasksBut(o)
      /\ tasks'[o].pc = "chunk" /\ tasks'[o].op = o /\ tasks'[o].chunk = 1
      /\ tasks'[o].rest = <<>>
  BY DEF Send, TasksOK, TaskIds, SameTasksBut, Idle
<1>3. /\ entries'[o].armed = entries[o].armed
      /\ entries'[o].state = IF Acked(o) THEN "pending" ELSE entries[o].state
  BY DEF Send, Entries
<1> QED
  BY <1>1, <1>2, <1>3 DEF Send, SameOpsBut, contractVars

(* cancel() ends the handle and, if the operation is retained, forgets it. *)
LEMMA CancelEffect ==
    ASSUME LinkTypeOK, Distinct(retained), NEW o \in Ops, Cancel(o)
    PROVE  /\ handle[o] = "transmitting"
           /\ handle'[o] = "cancelled" /\ SameOpsBut(o)
           /\ Distinct(retained') /\ Gone(o)
           /\ \/ /\ Contains(retained, o)
                 /\ entries'[o] = NoEntry /\ cancelled' = cancelled \cup {o}
              \/ ~Contains(retained, o) /\ entries' = entries /\ cancelled' = cancelled
           /\ UNCHANGED <<scenario, core, tasks, fulls, writes>>
<1>1. Distinct(RemoveFirst(retained, o))
      /\ \A x : Contains(RemoveFirst(retained, o), x) <=> Contains(retained, x) /\ x # o
  BY RemoveFirstElements DEF LinkTypeOK, SenderTypeOK
<1> QED
  BY <1>1 DEF Cancel, SameOpsBut, Gone, contractVars, LinkTypeOK, SenderTypeOK

(* receiveEncrypted of an ACK ends the operation it names.                 *)
LEMMA ReceiveAckEffect ==
    ASSUME LinkTypeOK, Distinct(retained), ReceiveAck
    PROVE  /\ ackWire # <<>> /\ Head(ackWire) \in Ops
           /\ UNCHANGED <<scenario, core, cancelled, tasks, fulls, writes>>
           /\ \/ UNCHANGED <<retained, entries, handle>>
              \/ /\ entries[Head(ackWire)].state # "none"
                 /\ entries'[Head(ackWire)] = NoEntry
                 /\ SameOpsBut(Head(ackWire)) /\ Settled(Head(ackWire), "acknowledged")
                 /\ Distinct(retained') /\ Gone(Head(ackWire))
<1> DEFINE o == Head(ackWire)
<1>1. ackWire # <<>> /\ o \in Ops
  BY HeadTailProperties DEF ReceiveAck, LinkTypeOK, ReceiverTypeOK
<1>2. Distinct(RemoveFirst(retained, o))
      /\ \A x : Contains(RemoveFirst(retained, o), x) <=> Contains(retained, x) /\ x # o
  BY RemoveFirstElements DEF LinkTypeOK, SenderTypeOK
<1>3. "acknowledged" \in Terminal
  BY DEF Terminal
<1> USE DEF LinkTypeOK, SenderTypeOK
<1>4. UNCHANGED <<scenario, core, cancelled, tasks, fulls, writes>>
  BY DEF ReceiveAck, contractVars
<1>5. CASE /\ entries[o].state # "none"
           /\ entries' = [entries EXCEPT ![o] = NoEntry]
           /\ retained' = RemoveFirst(retained, o)
           /\ handle' = Settle(handle, o, "acknowledged")
  <2>1. SameOpsBut(o) /\ Settled(o, "acknowledged")
    BY <1>1, <1>3, <1>5, SettleEffect DEF SameOpsBut
  <2>2. Distinct(retained') /\ Gone(o) /\ entries'[o] = NoEntry
    BY <1>1, <1>2, <1>5 DEF Gone
  <2> QED
    BY <1>1, <1>4, <1>5, <2>1, <2>2
<1> QED
  BY <1>1, <1>4, <1>5 DEF ReceiveAck

(* One turn of the chunk loop stops, throws or hands a frame to the        *)
(* backend.                                                                *)
LEMMA ChunkEffect ==
    ASSUME LinkTypeOK, NEW t \in TaskIds, Chunk(t)
    PROVE  /\ tasks[t].pc = "chunk" /\ tasks[t].op \in Ops /\ SameTasksBut(t)
           /\ UNCHANGED <<scenario, core, retained, cancelled, entries>>
           /\ \/ /\ tasks'[t].pc = "next" /\ tasks'[t].rest = tasks[t].rest
                 /\ UNCHANGED <<writes, handle, fulls>>
              \/ /\ tasks'[t] = Idle
                 /\ (core # "ready" /\ fulls' = fulls) \/ fulls' = fulls + 1
                 /\ \A p \in Ops : p # t => handle'[p] = handle[p]
                 /\ t \in Ops => Settled(t, "failed")
                 /\ UNCHANGED writes
              \/ /\ core = "ready" /\ tasks[t].op \notin cancelled
                 /\ tasks'[t].pc = "writing" /\ tasks'[t].op = tasks[t].op
                 /\ tasks'[t].chunk = tasks[t].chunk /\ tasks'[t].rest = tasks[t].rest
                 /\ tasks'[t].write = Len(writes) + 1
                 /\ Len(writes') = Len(writes) + 1
                 /\ \A w \in 1..Len(writes) : writes'[w] = writes[w]
                 /\ writes'[Len(writes) + 1].frame =
                        [op |-> tasks[t].op, chunk |-> tasks[t].chunk,
                         seq |-> nextSeq, gen |-> gen]
                 /\ UNCHANGED <<handle, fulls>>
<1> USE DEF LinkTypeOK, SenderTypeOK
<1>1. tasks[t].pc = "chunk" /\ tasks[t].op \in Ops /\ tasks[t] \in Tasks
  BY DEF Chunk, TasksOK, Sending
<1>2. SameTasksBut(t) /\ UNCHANGED <<scenario, core, retained, cancelled, entries>>
  BY DEF Chunk, Goto, Throw, Finish, TasksOK, SameTasksBut
<1>3. CASE Goto(t, "next") /\ UNCHANGED <<contractVars, nextSeq, handle, fulls>>
  BY <1>1, <1>2, <1>3 DEF Goto, TasksOK, Tasks, contractVars
<1>4. CASE /\ Throw(t) /\ UNCHANGED contractVars
           /\ (core # "ready" /\ fulls' = fulls) \/ fulls' = fulls + 1
  <2>1. tasks'[t] = Idle
    BY <1>4 DEF Throw, Finish, TasksOK
  <2>2. "failed" \in Terminal
    BY DEF Terminal
  <2>3. /\ \A p \in Ops : p # t => handle'[p] = handle[p]
        /\ t \in Ops => Settled(t, "failed")
    <3>1. CASE t \in Ops
      BY <1>4, <2>2, <3>1, SettleEffect DEF Throw
    <3>2. CASE t \notin Ops
      BY <1>4, <3>2 DEF Throw
    <3> QED
      BY <3>1, <3>2
  <2> QED
    BY <1>1, <1>2, <1>4, <2>1, <2>3 DEF contractVars
<1>5. CASE /\ tasks[t].op \notin cancelled
           /\ core = "ready"
           /\ Accept([op |-> tasks[t].op, chunk |-> tasks[t].chunk,
                      seq |-> nextSeq, gen |-> gen], kind[tasks[t].op].priority)
           /\ tasks' = [tasks EXCEPT ![t] = [@ EXCEPT !.pc = "writing",
                                                      !.write = Len(writes) + 1]]
           /\ UNCHANGED <<handle, fulls>>
  <2> DEFINE f == [op |-> tasks[t].op, chunk |-> tasks[t].chunk,
                   seq |-> nextSeq, gen |-> gen]
  <2>1. f \in DataFrames
    BY <1>1 DEF DataFrames, Tasks
  <2>2. kind[tasks[t].op].priority \in Priorities
    BY <1>1, KindType
  <2> HIDE DEF f
  <2>3. /\ Len(writes') = Len(writes) + 1
        /\ \A w \in 1..Len(writes) : writes'[w] = writes[w]
        /\ writes'[Len(writes) + 1].frame = f
    BY <1>5, <2>1, <2>2, ContractTypes DEF f
  <2>4. /\ tasks'[t].pc = "writing" /\ tasks'[t].op = tasks[t].op
        /\ tasks'[t].chunk = tasks[t].chunk /\ tasks'[t].rest = tasks[t].rest
        /\ tasks'[t].write = Len(writes) + 1
    BY <1>1, <1>5 DEF TasksOK, Tasks
  <2> QED
    BY <1>1, <1>2, <1>5, <2>3, <2>4 DEF f
<1> QED
  BY <1>3, <1>4, <1>5 DEF Chunk

(* After the await of a frame: the attempt stops, goes on or is complete.  *)
LEMMA WrittenEffect ==
    ASSUME LinkTypeOK, Distinct(retained), NEW t \in TaskIds, Written(t)
    PROVE  LET o == tasks[t].op IN
           /\ tasks[t].pc = "written" /\ o \in Ops /\ SameTasksBut(t)
           /\ UNCHANGED <<scenario, core, cancelled, fulls, writes>>
           /\ tasks'[t].rest = tasks[t].rest
           /\ \/ tasks'[t].pc = "next" /\ UNCHANGED <<retained, entries, handle>>
              \/ /\ tasks'[t].pc = "chunk" /\ tasks'[t].op = o
                 /\ tasks'[t].chunk = tasks[t].chunk + 1
                 /\ UNCHANGED <<retained, entries, handle>>
              \/ /\ tasks'[t].pc = "next" /\ Acked(o)
                 /\ tasks[t].chunk = kind[o].chunks /\ entries[o].state # "none"
                 /\ SameOpsBut(o) /\ entries'[o].state = "awaiting" /\ entries'[o].armed
                 /\ UNCHANGED <<retained, handle>>
              \/ /\ tasks'[t].pc = "next" /\ ~Acked(o)
                 /\ SameOpsBut(o) /\ Settled(o, "sent") /\ entries' = entries
                 /\ Distinct(retained') /\ Gone(o)
<1> USE DEF LinkTypeOK, SenderTypeOK
<1> DEFINE o == tasks[t].op
<1>1. tasks[t].pc = "written" /\ o \in Ops /\ tasks[t] \in Tasks
  BY DEF Written, TasksOK, Sending
<1>2. SameTasksBut(t) /\ UNCHANGED <<scenario, core, cancelled, fulls, writes>>
  BY DEF Written, Goto, TasksOK, SameTasksBut, contractVars
<1>3. Goto(t, "next") => tasks'[t].pc = "next" /\ tasks'[t].rest = tasks[t].rest
  BY <1>1 DEF Goto, TasksOK, Tasks
<1>4. CASE Goto(t, "next") /\ UNCHANGED <<retained, entries, handle>>
  BY <1>1, <1>2, <1>3, <1>4
<1>5. CASE /\ tasks' = [tasks EXCEPT ![t] = [@ EXCEPT !.pc = "chunk",
                                                      !.chunk = tasks[t].chunk + 1]]
           /\ UNCHANGED <<retained, entries, handle>>
  <2>1. /\ tasks'[t].pc = "chunk" /\ tasks'[t].op = o
        /\ tasks'[t].chunk = tasks[t].chunk + 1 /\ tasks'[t].rest = tasks[t].rest
    BY <1>1, <1>5 DEF TasksOK, Tasks
  <2> QED
    BY <1>1, <1>2, <1>5, <2>1
<1>6. CASE /\ Goto(t, "next") /\ Acked(o) /\ FinalSubmitted(o)
           /\ tasks[t].chunk = kind[o].chunks
  <2>1. entries[o] \in Entries
    BY <1>1
  <2>2. UNCHANGED <<retained, handle>>
    BY <1>6 DEF FinalSubmitted
  <2>3. \/ entries' = entries
        \/ /\ entries[o].state # "none"
           /\ entries' = [entries EXCEPT ![o] = [@ EXCEPT !.state = "awaiting",
                                                          !.armed = TRUE]]
    BY <1>6 DEF FinalSubmitted
  <2>4. CASE entries' = entries
    BY <1>1, <1>2, <1>3, <1>6, <2>2, <2>4
  <2>5. CASE /\ entries[o].state # "none"
             /\ entries' = [entries EXCEPT ![o] = [@ EXCEPT !.state = "awaiting",
                                                            !.armed = TRUE]]
    <3>1. entries'[o].state = "awaiting" /\ entries'[o].armed
      BY <1>1, <2>1, <2>5 DEF Entries
    <3>2. SameOpsBut(o)
      BY <2>2, <2>5 DEF SameOpsBut
    <3> QED
      BY <1>1, <1>2, <1>3, <1>6, <2>2, <2>5, <3>1, <3>2
  <2> QED
    BY <2>3, <2>4, <2>5
<1>7. CASE Goto(t, "next") /\ ~Acked(o) /\ FinalSubmitted(o)
  <2>1. /\ retained' = RemoveFirst(retained, o) /\ entries' = entries
        /\ handle' = Settle(handle, o, "sent")
    BY <1>7 DEF FinalSubmitted
  <2>2. Distinct(retained') /\ Gone(o)
    BY <2>1, RemoveFirstElements DEF Gone
  <2>3. "sent" \in Terminal
    BY DEF Terminal
  <2>4. SameOpsBut(o) /\ Settled(o, "sent")
    BY <1>1, <2>1, <2>3, SettleEffect DEF SameOpsBut
  <2> QED
    BY <1>1, <1>2, <1>3, <1>7, <2>1, <2>2, <2>4
<1>8. FinalSubmitted(o) => Acked(o) \/ ~Acked(o)
  OBVIOUS
<1> QED
  BY <1>4, <1>5, <1>6, <1>7, <1>8 DEF Written

(* A loop over operations ends, skips one, gives it up or attempts it.     *)
LEMMA NextOpEffect ==
    ASSUME LinkTypeOK, Distinct(retained), NEW t \in TaskIds, NextOp(t)
    PROVE  LET rest == tasks[t].rest
               o == Head(rest)
           IN
           /\ tasks[t].pc = "next" /\ SameTasksBut(t)
           /\ UNCHANGED <<scenario, core, cancelled, fulls, writes>>
           /\ \/ tasks'[t] = Idle /\ UNCHANGED <<retained, entries, handle>>
              \/ /\ rest # <<>> /\ o \in Ops /\ tasks'[t].rest = Tail(rest)
                 /\ t = Poll => core = "ready"
                 /\ tasks'[t].pc = "next" /\ UNCHANGED <<retained, entries, handle>>
              \/ /\ rest # <<>> /\ o \in Ops /\ tasks'[t].rest = Tail(rest)
                 /\ t = Poll => core = "ready"
                 /\ ~Skipped(t, o) /\ Acked(o) /\ tasks'[t].pc = "next"
                 /\ entries'[o] = NoEntry /\ SameOpsBut(o) /\ Settled(o, "failed")
                 /\ Distinct(retained') /\ Gone(o)
              \/ /\ rest # <<>> /\ o \in Ops /\ tasks'[t].rest = Tail(rest)
                 /\ t = Poll => core = "ready"
                 /\ ~Skipped(t, o)
                 /\ tasks'[t].pc = "chunk" /\ tasks'[t].op = o /\ tasks'[t].chunk = 1
                 /\ SameOpsBut(o) /\ UNCHANGED <<retained, handle>>
                 /\ Acked(o) => entries'[o].state = "pending" /\ ~entries'[o].armed
                 /\ ~Acked(o) => entries'[o] = entries[o]
<1> USE DEF LinkTypeOK, SenderTypeOK
<1> DEFINE rest == tasks[t].rest
           o == Head(rest)
<1>1. tasks[t].pc = "next" /\ tasks[t] \in Tasks /\ rest \in Seq(Ops)
  BY DEF NextOp, TasksOK, Tasks
<1>2. SameTasksBut(t) /\ UNCHANGED <<scenario, core, cancelled, fulls, writes>>
  BY DEF NextOp, Finish, Attempt, TasksOK, SameTasksBut, contractVars
<1>3. rest # <<>> => o \in Ops
  BY <1>1, HeadTailProperties
<1>4. tasks' = [tasks EXCEPT ![t].rest = Tail(@)] =>
        tasks'[t].pc = "next" /\ tasks'[t].rest = Tail(rest)
  BY <1>1 DEF TasksOK, Tasks
<1>5. CASE Finish(t) /\ UNCHANGED <<retained, entries, handle>>
  BY <1>1, <1>2, <1>5 DEF Finish, TasksOK
<1>6. CASE /\ rest # <<>> /\ (t = Poll => core = "ready")
           /\ tasks' = [tasks EXCEPT ![t].rest = Tail(@)]
           /\ UNCHANGED <<retained, entries, handle>>
  BY <1>1, <1>2, <1>3, <1>4, <1>6
<1>7. CASE /\ rest # <<>> /\ (t = Poll => core = "ready")
           /\ ~Skipped(t, o) /\ Exhausted(o) /\ GiveUp(o)
           /\ tasks' = [tasks EXCEPT ![t].rest = Tail(@)]
  <2>1. Distinct(retained') /\ Gone(o)
    BY <1>7, RemoveFirstElements DEF GiveUp, Gone
  <2>2. "failed" \in Terminal
    BY DEF Terminal
  <2>3. Settled(o, "failed") /\ \A p \in Ops : p # o => handle'[p] = handle[p]
    BY <1>3, <1>7, <2>2, SettleEffect DEF GiveUp
  <2>4. entries'[o] = NoEntry /\ SameOpsBut(o)
    BY <1>3, <1>7, <2>3 DEF GiveUp, SameOpsBut
  <2> QED
    BY <1>1, <1>2, <1>3, <1>4, <1>7, <2>1, <2>3, <2>4 DEF Exhausted
<1>8. CASE /\ rest # <<>> /\ (t = Poll => core = "ready")
           /\ ~Skipped(t, o) /\ Attempt(t, o)
  <2>1. /\ tasks'[t].pc = "chunk" /\ tasks'[t].op = o /\ tasks'[t].chunk = 1
        /\ tasks'[t].rest = Tail(rest)
    BY <1>1, <1>8 DEF Attempt, TasksOK, Tasks
  <2>2. /\ SameOpsBut(o) /\ UNCHANGED <<retained, handle>>
        /\ Acked(o) => entries'[o].state = "pending" /\ ~entries'[o].armed
        /\ ~Acked(o) => entries'[o] = entries[o]
    BY <1>3, <1>8 DEF Attempt, SameOpsBut
  <2> QED
    BY <1>1, <1>2, <1>3, <1>8, <2>1, <2>2
<1> QED
  BY <1>5, <1>6, <1>7, <1>8 DEF NextOp

(* The backend has submitted a frame, and whoever awaited it goes on.      *)
LEMMA WriteDoneEffect ==
    ASSUME LinkTypeOK, NEW w \in 1..Len(writes), WriteDone(w)
    PROVE  /\ Quiet
           /\ UNCHANGED <<scenario, core, retained, cancelled, entries, handle, fulls>>
           /\ Len(writes') = Len(writes)
           /\ \A v \in 1..Len(writes) :
                 /\ writes'[v].frame = writes[v].frame
                 /\ v # w => writes'[v].state = writes[v].state
           /\ writes'[w].state = "submitted"
           /\ \A u \in TaskIds :
                 \/ tasks'[u] = tasks[u]
                 \/ /\ tasks[u].pc = "writing" /\ tasks[u].write = w
                    /\ tasks'[u].pc = "written" /\ tasks'[u].op = tasks[u].op
                    /\ tasks'[u].chunk = tasks[u].chunk /\ tasks'[u].rest = tasks[u].rest
<1>1. \A u \in TaskIds : tasks[u] \in Tasks
  BY DEF LinkTypeOK, SenderTypeOK, TasksOK
<1>2. ASSUME NEW u \in TaskIds
      PROVE  \/ tasks'[u] = tasks[u]
             \/ /\ tasks[u].pc = "writing" /\ tasks[u].write = w
                /\ tasks'[u].pc = "written" /\ tasks'[u].op = tasks[u].op
                /\ tasks'[u].chunk = tasks[u].chunk /\ tasks'[u].rest = tasks[u].rest
  BY <1>1 DEF WriteDone, Tasks
<1>3. Complete(w)
  BY DEF WriteDone
<1> QED
  BY <1>2, <1>3, ContractTypes DEF WriteDone, LinkTypeOK, SenderTypeOK

(* Failing the writes interrupts exactly the tasks that await one.         *)
LEMMA InterruptEffect ==
    ASSUME LinkTypeOK, Interrupt
    PROVE  \A u \in TaskIds :
              \/ tasks[u].pc # "writing" /\ tasks'[u] = tasks[u]
              \/ /\ tasks[u].pc = "writing" /\ tasks'[u].pc = "next"
                 /\ tasks'[u].rest = tasks[u].rest
<1>1. \A u \in TaskIds : tasks[u] \in Tasks
  BY DEF LinkTypeOK, SenderTypeOK, TasksOK
<1> QED
  BY <1>1 DEF Interrupt, Tasks

(* The deadlines of a lost transport stop.                                 *)
LEMMA PauseEffect ==
    ASSUME LinkTypeOK, PauseDeadlines
    PROVE  \A o \in Ops : /\ ~entries'[o].armed
                          /\ entries'[o].state = "none" <=> entries[o].state = "none"
<1>1. \A o \in Ops : entries[o] \in Entries
  BY DEF LinkTypeOK, SenderTypeOK
<1> QED
  BY <1>1 DEF PauseDeadlines, Entries

(* The poll takes up operations whose deadline is set.                     *)
LEMMA PollEffect ==
    ASSUME LinkTypeOK, PollAckTimeouts
    PROVE  /\ core = "ready" /\ SameTasksBut(Poll)
           /\ tasks'[Poll].pc = "next" /\ tasks'[Poll].rest \in Seq(Ops)
           /\ \A i \in 1..Len(tasks'[Poll].rest) : entries[tasks'[Poll].rest[i]].armed
           /\ UNCHANGED <<scenario, core, retained, cancelled, entries, handle, fulls,
                          writes>>
<1>1. PICK n \in 1..Len(retained) : \E rest \in [1..n -> Ops] :
        /\ DueList(rest)
        /\ tasks' = [tasks EXCEPT ![Poll] = [Idle EXCEPT !.pc = "next", !.rest = rest]]
  BY DEF PollAckTimeouts
<1>2. PICK rest \in [1..n -> Ops] :
        /\ DueList(rest)
        /\ tasks' = [tasks EXCEPT ![Poll] = [Idle EXCEPT !.pc = "next", !.rest = rest]]
  BY <1>1
<1>3. rest \in Seq(Ops)
  BY LenProperties DEF LinkTypeOK, SenderTypeOK
<1>4. \A i \in 1..Len(rest) : entries[rest[i]].armed
  BY <1>2 DEF DueList, Due
<1>5. tasks'[Poll].pc = "next" /\ tasks'[Poll].rest = rest /\ SameTasksBut(Poll)
  BY <1>2 DEF LinkTypeOK, SenderTypeOK, TasksOK, TaskIds, Idle, SameTasksBut
<1> QED
  BY <1>3, <1>4, <1>5 DEF PollAckTimeouts, contractVars

(* RESUME starts the replay with everything retained, on a new transport.  *)
LEMMA ResumeEffect ==
    ASSUME LinkTypeOK, Resume
    PROVE  /\ Quiet /\ core = "reconnecting" /\ core' = "ready"
           /\ writes' = <<>> /\ SameTasksBut(Replay)
           /\ tasks'[Replay].pc = "next" /\ tasks'[Replay].rest = retained
           /\ UNCHANGED <<scenario, retained, cancelled, entries, handle, fulls>>
  BY DEF Resume, LinkTypeOK, SenderTypeOK, TasksOK, TaskIds, Idle, SameTasksBut

(* Between events a task rests or awaits a write.                          *)
LEMMA QuietTasks ==
    ASSUME LinkTypeOK, Quiet
    PROVE  \A t \in TaskIds : tasks[t].pc \in {"idle", "writing"}
<1>1. \A t \in TaskIds : tasks[t] \in Tasks
  BY DEF LinkTypeOK, SenderTypeOK, TasksOK
<1> QED
  BY <1>1 DEF Quiet, Runnable, Tasks

-----------------------------------------------------------------------------
(* Retention                                                               *)

(* Steps of the receiver, and those of the sender that only move tasks,    *)
(* leave retention as it is.                                               *)
LEMMA RetentionUntouched ==
    ASSUME RetentionExact, UNCHANGED <<scenario, retained, entries, handle>>
    PROVE  RetentionExact'
  BY DEF RetentionExact, Acked, kind

(* An operation is retained once, before its handle and with its entry.    *)
LEMMA RetentionStep ==
    ASSUME LinkTypeOK, RetentionExact, [LinkNext]_linkVars
    PROVE  RetentionExact'
<1> USE DEF RetentionExact, Acked, kind
<1>0. Distinct(retained)
  OBVIOUS
<1>1. ASSUME NEW o \in Ops, Send(o) PROVE RetentionExact'
  <2>1. ~Contains(retained, o)
    BY <1>1, SendEffect
  <2> QED
    BY <1>1, <2>1, SendEffect DEF SameOpsBut
<1>2. ASSUME NEW o \in Ops, Cancel(o) PROVE RetentionExact'
  BY <1>0, <1>2, CancelEffect DEF SameOpsBut, Gone, NoEntry
<1>3. ASSUME NEW t \in TaskIds, Chunk(t) PROVE RetentionExact'
  <2>1. /\ UNCHANGED <<scenario, retained, entries>>
        /\ \A p \in Ops : handle'[p] = handle[p] \/ Settled(p, "failed")
    BY <1>3, ChunkEffect
  <2>2. \A p \in Ops : /\ handle'[p] = "unsent" => handle[p] = "unsent"
                       /\ handle'[p] = "transmitting" => handle[p] = "transmitting"
    BY <2>1 DEF Settled, Terminal
  <2> QED
    BY <2>1, <2>2
<1>4. ASSUME NEW t \in TaskIds, Written(t) PROVE RetentionExact'
  <2> DEFINE o == tasks[t].op
  <2>1. o \in Ops /\ UNCHANGED scenario
    BY <1>0, <1>4, WrittenEffect
  <2>2. CASE UNCHANGED <<retained, entries, handle>>
    BY <2>1, <2>2, RetentionUntouched
  <2>3. CASE /\ Acked(o) /\ entries[o].state # "none"
             /\ SameOpsBut(o) /\ entries'[o].state = "awaiting" /\ entries'[o].armed
             /\ UNCHANGED <<retained, handle>>
    BY <2>1, <2>3 DEF SameOpsBut
  <2>4. CASE /\ ~Acked(o)
             /\ SameOpsBut(o) /\ Settled(o, "sent") /\ entries' = entries
             /\ Distinct(retained') /\ Gone(o)
    BY <2>1, <2>4 DEF SameOpsBut, Settled, Gone, Terminal
  <2> QED
    BY <1>0, <1>4, <2>2, <2>3, <2>4, WrittenEffect
<1>5. ASSUME NEW t \in TaskIds, NextOp(t) PROVE RetentionExact'
  <2> DEFINE o == Head(tasks[t].rest)
  <2>1. UNCHANGED scenario
    BY <1>0, <1>5, NextOpEffect
  <2>2. CASE UNCHANGED <<retained, entries, handle>>
    BY <2>1, <2>2, RetentionUntouched
  <2>3. CASE /\ o \in Ops
             /\ entries'[o] = NoEntry /\ SameOpsBut(o) /\ Settled(o, "failed")
             /\ Distinct(retained') /\ Gone(o)
    BY <2>1, <2>3 DEF SameOpsBut, Settled, Gone, NoEntry, Terminal
  <2>4. CASE /\ o \in Ops /\ ~Skipped(t, o)
             /\ SameOpsBut(o) /\ UNCHANGED <<retained, handle>>
             /\ Acked(o) => entries'[o].state = "pending" /\ ~entries'[o].armed
             /\ ~Acked(o) => entries'[o] = entries[o]
    BY <2>1, <2>4 DEF SameOpsBut, Skipped
  <2> QED
    BY <1>0, <1>5, <2>2, <2>3, <2>4, NextOpEffect
<1>6. ASSUME ReceiveAck PROVE RetentionExact'
  BY <1>0, <1>6, ReceiveAckEffect DEF SameOpsBut, Settled, Gone, NoEntry, Terminal
<1>7. ASSUME TransportLost PROVE RetentionExact'
  <2>1. UNCHANGED <<scenario, retained, handle>>
    BY <1>7 DEF TransportLost
  <2>2. \A o \in Ops : /\ ~entries'[o].armed
                       /\ entries'[o].state = "none" <=> entries[o].state = "none"
    BY <1>7, PauseEffect DEF TransportLost
  <2> QED
    BY <2>1, <2>2
<1>8. ASSUME NEW w \in 1..Len(writes), WriteDone(w) PROVE RetentionExact'
  BY <1>8, RetentionUntouched DEF WriteDone
<1>9. CASE PollAckTimeouts \/ Resume \/ Close
  BY <1>9, RetentionUntouched DEF PollAckTimeouts, Resume, Close
<1>10. CASE Receive \/ AckWritten \/ AckFailed \/ PeerLost
  BY <1>10, RetentionUntouched DEF Receive, AckWritten, AckFailed, PeerLost, senderVars
<1>11. CASE UNCHANGED linkVars
  BY <1>11, RetentionUntouched DEF linkVars, senderVars
<1> QED
  BY <1>1, <1>2, <1>3, <1>4, <1>5, <1>6, <1>7, <1>8, <1>9, <1>10, <1>11
  DEF LinkNext, Running

(* Type correctness and exact retention hold initially and are preserved   *)
(* together.                                                               *)
LEMMA RetentionInit == LinkInit => RetentionExact
  BY DEF LinkInit, RetentionExact, Distinct, Contains, NoEntry

(* PeerLink is type correct, and an operation is retained exactly from its *)
(* send until it is submitted, acknowledged, given up or cancelled, with   *)
(* an entry only while it is retained.                                     *)
THEOREM LinkTypeCorrect == LinkSpec => [](LinkTypeOK /\ RetentionExact)
<1>1. LinkInit => LinkTypeOK /\ RetentionExact
  BY LinkTypeInit, RetentionInit
<1>2. LinkTypeOK /\ RetentionExact /\ [LinkNext]_linkVars => (LinkTypeOK /\ RetentionExact)'
  <2> SUFFICES ASSUME LinkTypeOK, RetentionExact, [LinkNext]_linkVars
               PROVE  LinkTypeOK' /\ RetentionExact'
    OBVIOUS
  <2>1. Distinct(retained)
    BY DEF RetentionExact
  <2>2. SenderTypeOK' /\ ReceiverTypeOK'
    BY <2>1, SenderTypeStep, ReceiverTypeStep
  <2> QED
    BY <2>2, RetentionStep DEF LinkTypeOK
<1> QED
  BY <1>1, <1>2, PTL DEF LinkSpec

-----------------------------------------------------------------------------
(* Transmission                                                            *)

(* The tasks are the sends, the poll and the replay, all different.        *)
LEMMA TaskNames ==
    /\ Poll \in TaskIds /\ Replay \in TaskIds /\ Ops \subseteq TaskIds
    /\ Poll # Replay /\ Poll \notin Ops /\ Replay \notin Ops
    /\ \A t \in TaskIds : t \in Ops \/ t = Poll \/ t = Replay
  BY OpsAssumption DEF TaskIds

(* Dropping the head of a list keeps its other elements.                   *)
LEMMA TailContains ==
    ASSUME NEW s \in Seq(Ops), s # <<>>
    PROVE  /\ \A x : Contains(Tail(s), x) => Contains(s, x)
           /\ Contains(s, Head(s))
           /\ \A i \in 1..Len(Tail(s)) : Contains(s, Tail(s)[i])
<1>1. /\ Len(Tail(s)) = Len(s) - 1
      /\ Len(s) \in Nat
      /\ \A i \in 1..(Len(s) - 1) : Tail(s)[i] = s[i + 1]
      /\ Head(s) = s[1] /\ 1 \in 1..Len(s)
  BY HeadTailProperties
<1>2. \A i \in 1..Len(Tail(s)) : i + 1 \in 1..Len(s) /\ Tail(s)[i] = s[i + 1]
  BY <1>1
<1> QED
  BY <1>1, <1>2 DEF Contains

(* Ending handles and clearing deadlines disturbs no transmission.         *)
LEMMA TransmitterUntouched ==
    ASSUME TransmitterExact, UNCHANGED <<scenario, core, tasks>>,
           \A p \in Ops : /\ entries'[p].armed => entries[p].armed
                          /\ handle'[p] = "unsent" => handle[p] = "unsent"
    PROVE  TransmitterExact'
<1>1. /\ \A u \in TaskIds, o \in Ops : Transmitting(u, o)' <=> Transmitting(u, o)
      /\ \A u \in TaskIds : Sending(u)' <=> Sending(u)
      /\ \A o \in Ops : ToReplay(o)' <=> ToReplay(o)
      /\ \A o : Acked(o)' <=> Acked(o)
  BY DEF Transmitting, Sending, ToReplay, Acked, kind
<1>2. OneTransmitter'
  BY <1>1 DEF TransmitterExact, OneTransmitter
<1>3. (\A i \in 1..Len(tasks[Poll].rest) : Acked(tasks[Poll].rest[i]))'
  BY <1>1 DEF TransmitterExact
<1>4. /\ \A o \in Ops : ToReplay(o)' => handle'[o] # "unsent" /\ ~entries'[o].armed
      /\ \A o \in Ops, t \in TaskIds : Transmitting(t, o)' =>
            handle'[o] # "unsent" /\ ~entries'[o].armed /\ ~ToReplay(o)'
  BY <1>1 DEF TransmitterExact
<1>5. \A t \in Ops : tasks'[t].rest = <<>>
  BY DEF TransmitterExact
<1>6. \A t \in Ops : Sending(t)' => tasks'[t].op = t
  BY <1>1, TaskNames DEF TransmitterExact
<1>7. \A t \in Ops : handle'[t] = "unsent" => tasks'[t].pc = "idle"
  BY DEF TransmitterExact
<1>8. \A t \in Ops : tasks'[t].pc = "chunk" => core' = "ready"
  BY DEF TransmitterExact
<1>9. \A t \in TaskIds : tasks'[t].pc \in {"writing", "written"} => core' = "ready"
  BY DEF TransmitterExact
<1>10. Distinct(tasks'[Replay].rest)
  BY DEF TransmitterExact, Distinct
<1> QED
  BY <1>2, <1>3, <1>4, <1>5, <1>6, <1>7, <1>8, <1>9, <1>10 DEF TransmitterExact

(* A task that goes from one state outside transmission or inside it to    *)
(* another with the same operation disturbs nobody.                        *)
LEMMA TransmitterMoves ==
    ASSUME TransmitterExact, LinkTypeOK, NEW t \in TaskIds, SameTasksBut(t),
           UNCHANGED <<scenario, core, entries>>,
           tasks'[t].rest = tasks[t].rest \/ tasks'[t].rest = <<>>,
           tasks'[t].pc \in {"chunk", "writing", "written"} =>
                Sending(t) /\ tasks'[t].op = tasks[t].op /\ core = "ready",
           t \in Ops /\ handle'[t] = "unsent" => tasks'[t].pc = "idle",
           \A p \in Ops : handle'[p] = "unsent" <=> handle[p] = "unsent"
    PROVE  TransmitterExact'
<1> USE DEF TransmitterExact, Acked, kind, Sending, Transmitting, ToReplay, OneTransmitter,
            SameTasksBut
<1>1. \A u \in TaskIds : \/ tasks'[u].rest = tasks[u].rest \/ tasks'[u].rest = <<>>
  OBVIOUS
<1>2. \A u \in TaskIds, o \in Ops :
        /\ Transmitting(u, o)' => Transmitting(u, o)
        /\ Sending(u)' => Sending(u) /\ tasks'[u].op = tasks[u].op
  OBVIOUS
<1>3. /\ \A u \in Ops : tasks'[u].rest = <<>>
      /\ \A u \in Ops : Sending(u)' => tasks'[u].op = u
      /\ \A u \in Ops : handle'[u] = "unsent" => tasks'[u].pc = "idle"
      /\ \A u \in Ops : tasks'[u].pc = "chunk" => core' = "ready"
      /\ \A u \in TaskIds : tasks'[u].pc \in {"writing", "written"} => core' = "ready"
  BY TaskNames
<1>4. /\ Distinct(tasks'[Replay].rest)
      /\ \A o : Contains(tasks'[Replay].rest, o) => Contains(tasks[Replay].rest, o)
  BY <1>1, TaskNames DEF Distinct, Contains
<1>5. (\A i \in 1..Len(tasks[Poll].rest) : Acked(tasks[Poll].rest[i]))'
  <2>1. CASE tasks'[Poll].rest = tasks[Poll].rest
    BY <2>1
  <2>2. CASE tasks'[Poll].rest = <<>>
    BY <2>2
  <2> QED
    BY <1>1, <2>1, <2>2, TaskNames
<1> QED
  BY <1>2, <1>3, <1>4, <1>5

(* Tasks whose writes have been submitted stay where they are otherwise.   *)
LEMMA TransmitterMany ==
    ASSUME TransmitterExact, UNCHANGED <<scenario, core, entries, handle>>,
           \A u \in TaskIds :
              \/ tasks'[u] = tasks[u]
              \/ /\ tasks[u].pc = "writing" /\ tasks'[u].pc = "written"
                 /\ tasks'[u].op = tasks[u].op /\ tasks'[u].rest = tasks[u].rest
    PROVE  TransmitterExact'
<1>1. \A u \in TaskIds, o \in Ops :
        /\ Transmitting(u, o)' <=> Transmitting(u, o)
        /\ Sending(u)' <=> Sending(u)
  BY DEF Transmitting, Sending
<1>2. \A u \in TaskIds :
        /\ tasks'[u].rest = tasks[u].rest
        /\ tasks'[u].op = tasks[u].op
        /\ tasks'[u].pc = "idle" <=> tasks[u].pc = "idle"
        /\ tasks'[u].pc = "chunk" <=> tasks[u].pc = "chunk"
        /\ tasks'[u].pc \in {"writing", "written"} => tasks[u].pc \in {"writing", "written"}
  OBVIOUS
<1>3. \A o \in Ops : ToReplay(o)' <=> ToReplay(o)
  BY <1>2, TaskNames DEF ToReplay
<1>4. (\A i \in 1..Len(tasks[Poll].rest) : Acked(tasks[Poll].rest[i]))'
  BY <1>2, TaskNames DEF TransmitterExact, Acked, kind
<1>5. Distinct(tasks'[Replay].rest)
  BY <1>2, TaskNames DEF TransmitterExact
<1>6. OneTransmitter'
  BY <1>1 DEF TransmitterExact, OneTransmitter
<1>7. /\ \A t \in Ops : tasks'[t].rest = <<>>
      /\ \A t \in Ops : Sending(t)' => tasks'[t].op = t
      /\ \A t \in Ops : handle'[t] = "unsent" => tasks'[t].pc = "idle"
      /\ \A t \in Ops : tasks'[t].pc = "chunk" => core' = "ready"
      /\ \A t \in TaskIds : tasks'[t].pc \in {"writing", "written"} => core' = "ready"
  BY <1>1, <1>2, TaskNames DEF TransmitterExact
<1>8. \A o \in Ops : ToReplay(o)' => handle'[o] # "unsent" /\ ~entries'[o].armed
  BY <1>3 DEF TransmitterExact
<1>9. \A o \in Ops, t \in TaskIds : Transmitting(t, o)' =>
            handle'[o] # "unsent" /\ ~entries'[o].armed /\ ~ToReplay(o)'
  BY <1>1, <1>3 DEF TransmitterExact
<1> QED
  BY <1>4, <1>5, <1>6, <1>7, <1>8, <1>9 DEF TransmitterExact

(* When the transport is gone nobody transmits.                            *)
LEMMA TransmitterStopped ==
    ASSUME TransmitterExact, UNCHANGED <<scenario, handle>>,
           \A p \in Ops : entries'[p].armed => entries[p].armed,
           \A u \in TaskIds : /\ tasks'[u].rest = tasks[u].rest
                              /\ tasks'[u].pc \in {"idle", "next"}
                              /\ tasks[u].pc = "idle" => tasks'[u].pc = "idle"
    PROVE  TransmitterExact'
<1>1. \A u \in TaskIds, o \in Ops : ~Transmitting(u, o)' /\ ~Sending(u)'
  BY DEF Transmitting, Sending
<1>2. \A o \in Ops : ToReplay(o)' <=> ToReplay(o)
  BY TaskNames DEF ToReplay
<1>3. (\A i \in 1..Len(tasks[Poll].rest) : Acked(tasks[Poll].rest[i]))'
  BY TaskNames DEF TransmitterExact, Acked, kind
<1>4. Distinct(tasks'[Replay].rest)
  BY TaskNames DEF TransmitterExact
<1>5. OneTransmitter'
  BY <1>1 DEF OneTransmitter
<1>6. /\ \A t \in Ops : tasks'[t].rest = <<>>
      /\ \A t \in Ops : handle'[t] = "unsent" => tasks'[t].pc = "idle"
      /\ \A t \in TaskIds : tasks'[t].pc \notin {"chunk", "writing", "written"}
  BY TaskNames DEF TransmitterExact
<1>7. \A o \in Ops : ToReplay(o)' => handle'[o] # "unsent" /\ ~entries'[o].armed
  BY <1>2 DEF TransmitterExact
<1> QED
  BY <1>1, <1>3, <1>4, <1>5, <1>6, <1>7, TaskNames DEF TransmitterExact

(* A deadline that runs does so on a connection that is not reconnecting:  *)
(* it is set while frames are submitted, and transport loss clears it.     *)
LEMMA DeadlineConnectedStep ==
    ASSUME LinkTypeOK, RetentionExact, TransmitterExact, DeadlineConnected,
           [LinkNext]_linkVars
    PROVE  DeadlineConnected'
<1> USE DEF DeadlineConnected
<1>0. Distinct(retained)
  BY DEF RetentionExact
<1>1. ASSUME NEW o \in Ops, Send(o) PROVE DeadlineConnected'
  BY <1>1, SendEffect DEF SameOpsBut
<1>2. ASSUME NEW o \in Ops, Cancel(o) PROVE DeadlineConnected'
  BY <1>0, <1>2, CancelEffect DEF SameOpsBut, NoEntry
<1>3. ASSUME NEW t \in TaskIds, Chunk(t) PROVE DeadlineConnected'
  BY <1>3, ChunkEffect
<1>4. ASSUME NEW t \in TaskIds, Written(t) PROVE DeadlineConnected'
  <2>1. core' = "ready"
    BY <1>0, <1>4, WrittenEffect DEF TransmitterExact
  <2> QED
    BY <2>1
<1>5. ASSUME NEW t \in TaskIds, NextOp(t) PROVE DeadlineConnected'
  <2> DEFINE o == Head(tasks[t].rest)
  <2>1. core' = core
    BY <1>0, <1>5, NextOpEffect
  <2>2. \/ UNCHANGED entries
        \/ o \in Ops /\ entries'[o] = NoEntry /\ SameOpsBut(o)
        \/ /\ o \in Ops /\ SameOpsBut(o)
           /\ Acked(o) => ~entries'[o].armed
           /\ ~Acked(o) => entries'[o] = entries[o]
    BY <1>0, <1>5, NextOpEffect
  <2> QED
    BY <2>1, <2>2 DEF SameOpsBut, NoEntry
<1>6. ASSUME ReceiveAck PROVE DeadlineConnected'
  BY <1>0, <1>6, ReceiveAckEffect DEF SameOpsBut, NoEntry
<1>7. ASSUME TransportLost PROVE DeadlineConnected'
  BY <1>7, PauseEffect DEF TransportLost
<1>8. ASSUME NEW w \in 1..Len(writes), WriteDone(w) PROVE DeadlineConnected'
  BY <1>8 DEF WriteDone
<1>9. CASE PollAckTimeouts \/ Resume \/ Close
  BY <1>9 DEF PollAckTimeouts, Resume, Close
<1>10. CASE Receive \/ AckWritten \/ AckFailed \/ PeerLost
  BY <1>10 DEF Receive, AckWritten, AckFailed, PeerLost, senderVars
<1>11. CASE UNCHANGED linkVars
  BY <1>11 DEF linkVars, senderVars
<1> QED
  BY <1>1, <1>2, <1>3, <1>4, <1>5, <1>6, <1>7, <1>8, <1>9, <1>10, <1>11
  DEF LinkNext, Running

(* At most one task transmits an operation, and none that the replay has   *)
(* still to take up or whose deadline runs.                                *)
LEMMA TransmitterStep ==
    ASSUME LinkTypeOK, RetentionExact, TransmitterExact, DeadlineConnected,
           [LinkNext]_linkVars
    PROVE  TransmitterExact'
<1>0. Distinct(retained)
  BY DEF RetentionExact
<1>1. ASSUME NEW o \in Ops, Send(o) PROVE TransmitterExact'
  <2>1. /\ handle[o] = "unsent" /\ core = "ready" /\ SameOpsBut(o) /\ SameTasksBut(o)
        /\ handle'[o] = "transmitting" /\ entries'[o].armed = entries[o].armed
        /\ tasks'[o].pc = "chunk" /\ tasks'[o].op = o /\ tasks'[o].rest = <<>>
        /\ UNCHANGED <<scenario, core>>
    BY <1>1, SendEffect
  <2>2. /\ ~ToReplay(o) /\ \A t \in TaskIds : ~Transmitting(t, o)
        /\ ~entries[o].armed
    BY <2>1 DEF TransmitterExact, RetentionExact
  <2>3. tasks'[Poll] = tasks[Poll] /\ tasks'[Replay] = tasks[Replay]
    BY <2>1, TaskNames DEF SameTasksBut
  <2>4. (\A i \in 1..Len(tasks[Poll].rest) : Acked(tasks[Poll].rest[i]))'
    BY <2>1, <2>3 DEF TransmitterExact, Acked, kind
  <2>5. /\ \A p \in Ops : ToReplay(p)' <=> ToReplay(p)
        /\ Distinct(tasks'[Replay].rest)
    BY <2>3 DEF TransmitterExact, ToReplay
  <2>6. \A t \in TaskIds, p \in Ops :
            Transmitting(t, p)' <=> (t # o /\ Transmitting(t, p)) \/ (t = o /\ p = o)
    BY <2>1 DEF Transmitting, SameTasksBut
  <2>7. /\ \A t \in Ops : tasks'[t].rest = <<>>
        /\ \A t \in Ops : Sending(t)' => tasks'[t].op = t
        /\ \A t \in Ops : handle'[t] = "unsent" => tasks'[t].pc = "idle"
        /\ \A t \in Ops : tasks'[t].pc = "chunk" => core' = "ready"
        /\ \A t \in TaskIds : tasks'[t].pc \in {"writing", "written"} => core' = "ready"
    BY <2>1, TaskNames DEF TransmitterExact, SameTasksBut, SameOpsBut, Sending
  <2>8. /\ \A p \in Ops : ToReplay(p)' => handle'[p] # "unsent" /\ ~entries'[p].armed
        /\ \A p \in Ops, t \in TaskIds : Transmitting(t, p)' =>
              handle'[p] # "unsent" /\ ~entries'[p].armed /\ ~ToReplay(p)'
    BY <2>1, <2>2, <2>5, <2>6 DEF TransmitterExact, SameOpsBut
  <2>9. OneTransmitter'
    BY <2>2, <2>6 DEF TransmitterExact, OneTransmitter
  <2> QED
    BY <2>4, <2>5, <2>7, <2>8, <2>9 DEF TransmitterExact
<1>2. ASSUME NEW o \in Ops, Cancel(o) PROVE TransmitterExact'
  <2>1. UNCHANGED <<scenario, core, tasks>> /\ handle'[o] = "cancelled" /\ SameOpsBut(o)
    BY <1>0, <1>2, CancelEffect
  <2>2. entries'[o] = NoEntry \/ entries' = entries
    BY <1>0, <1>2, CancelEffect
  <2> QED
    BY <2>1, <2>2, TransmitterUntouched DEF SameOpsBut, NoEntry
<1>3. ASSUME NEW t \in TaskIds, Chunk(t) PROVE TransmitterExact'
  <2>1. /\ tasks[t].pc = "chunk" /\ tasks[t].op \in Ops /\ SameTasksBut(t)
        /\ UNCHANGED <<scenario, core, entries>>
    BY <1>3, ChunkEffect
  <2>2. \A p \in Ops : handle'[p] = "unsent" <=> handle[p] = "unsent"
    <3>1. t \in Ops => handle[t] # "unsent"
      BY <2>1 DEF TransmitterExact, Sending
    <3>2. \/ handle' = handle
          \/ /\ \A p \in Ops : p # t => handle'[p] = handle[p]
             /\ t \in Ops => Settled(t, "failed")
      BY <1>3, ChunkEffect
    <3> QED
      BY <3>1, <3>2 DEF Settled, Terminal
  <2>3. t \in Ops => handle[t] # "unsent"
    BY <2>1 DEF TransmitterExact
  <2>4. /\ tasks'[t].rest = tasks[t].rest \/ tasks'[t].rest = <<>>
        /\ tasks'[t].pc \in {"chunk", "writing", "written"} =>
                Sending(t) /\ tasks'[t].op = tasks[t].op /\ core = "ready"
    <3>1. \/ tasks'[t].pc = "next" /\ tasks'[t].rest = tasks[t].rest
          \/ tasks'[t] = Idle
          \/ /\ core = "ready" /\ tasks'[t].op = tasks[t].op
             /\ tasks'[t].rest = tasks[t].rest
      BY <1>3, ChunkEffect
    <3> QED
      BY <2>1, <3>1 DEF Idle, Sending
  <2> QED
    BY <2>1, <2>2, <2>3, <2>4, TransmitterMoves
<1>4. ASSUME NEW t \in TaskIds, Written(t) PROVE TransmitterExact'
  <2> DEFINE o == tasks[t].op
  <2>1. /\ tasks[t].pc = "written" /\ o \in Ops /\ SameTasksBut(t)
        /\ UNCHANGED <<scenario, core>>
        /\ tasks'[t].rest = tasks[t].rest
    BY <1>0, <1>4, WrittenEffect
  <2>2. core = "ready"
    BY <2>1 DEF TransmitterExact
  <2>3. \A p \in Ops : handle'[p] = "unsent" <=> handle[p] = "unsent"
    <3>1. handle[o] # "unsent"
      BY <2>1 DEF TransmitterExact, Transmitting
    <3>2. \/ handle' = handle
          \/ SameOpsBut(o) /\ Settled(o, "sent")
      BY <1>0, <1>4, WrittenEffect
    <3> QED
      BY <2>1, <3>1, <3>2 DEF Settled, Terminal, SameOpsBut
  <2>4. t \in Ops => handle[t] # "unsent"
    BY <2>1 DEF TransmitterExact
  <2>5. tasks'[t].pc \in {"chunk", "next"}
    BY <1>0, <1>4, WrittenEffect
  <2>6. CASE entries' = entries
    <3>1. tasks'[t].pc \in {"chunk", "writing", "written"} => tasks'[t].op = o
      BY <1>0, <1>4, WrittenEffect
    <3> QED
      BY <2>1, <2>2, <2>3, <2>4, <2>6, <3>1, TransmitterMoves DEF Sending
  <2>7. CASE /\ tasks'[t].pc = "next" /\ SameOpsBut(o) /\ UNCHANGED handle
    <3>1. \A u \in TaskIds, p \in Ops : Transmitting(u, p)' <=> u # t /\ Transmitting(u, p)
      BY <2>1, <2>7 DEF Transmitting, SameTasksBut
    <3>2. /\ Transmitting(t, o)
          /\ \A u \in TaskIds : Transmitting(u, o) => u = t
          /\ ~ToReplay(o)
      BY <2>1 DEF TransmitterExact, OneTransmitter, Transmitting
    <3>3. \A u \in TaskIds : tasks'[u].rest = tasks[u].rest
      BY <2>1 DEF SameTasksBut
    <3>4. (\A i \in 1..Len(tasks[Poll].rest) : Acked(tasks[Poll].rest[i]))'
      BY <2>1, <3>3, TaskNames DEF TransmitterExact, Acked, kind
    <3>5. /\ \A p \in Ops : ToReplay(p)' <=> ToReplay(p)
          /\ Distinct(tasks'[Replay].rest)
      BY <3>3, TaskNames DEF TransmitterExact, ToReplay
    <3>6. /\ \A u \in Ops : tasks'[u].rest = <<>>
          /\ \A u \in Ops : Sending(u)' => tasks'[u].op = u
          /\ \A u \in Ops : handle'[u] = "unsent" => tasks'[u].pc = "idle"
          /\ \A u \in Ops : tasks'[u].pc = "chunk" => core' = "ready"
          /\ \A u \in TaskIds : tasks'[u].pc \in {"writing", "written"} => core' = "ready"
      BY <2>1, <2>4, <2>7, <3>3, TaskNames DEF TransmitterExact, SameTasksBut, Sending
    <3>7. /\ \A p \in Ops : ToReplay(p)' => handle'[p] # "unsent" /\ ~entries'[p].armed
          /\ \A p \in Ops, u \in TaskIds : Transmitting(u, p)' =>
                handle'[p] # "unsent" /\ ~entries'[p].armed /\ ~ToReplay(p)'
      BY <2>7, <3>1, <3>2, <3>5 DEF TransmitterExact, SameOpsBut
    <3>8. OneTransmitter'
      BY <3>1 DEF TransmitterExact, OneTransmitter
    <3> QED
      BY <3>4, <3>5, <3>6, <3>7, <3>8 DEF TransmitterExact
  <2> QED
    BY <1>0, <1>4, <2>6, <2>7, WrittenEffect
<1>5. ASSUME NEW t \in TaskIds, NextOp(t) PROVE TransmitterExact'
  <2> DEFINE rest == tasks[t].rest
             o == Head(rest)
  <2>1. /\ tasks[t].pc = "next" /\ SameTasksBut(t)
        /\ UNCHANGED <<scenario, core>>
    BY <1>0, <1>5, NextOpEffect
  <2>2. CASE tasks'[t] = Idle /\ UNCHANGED <<entries, handle>>
    BY <2>1, <2>2, TransmitterMoves DEF Idle
  <2>3. CASE rest # <<>> /\ o \in Ops /\ tasks'[t].rest = Tail(rest) /\ tasks'[t] # Idle
    <3>1. t \in {Poll, Replay} /\ t \notin Ops
      BY <2>3, TaskNames DEF TransmitterExact
    <3>2. rest \in Seq(Ops)
      BY DEF LinkTypeOK, SenderTypeOK, TasksOK, Tasks
    <3>3. /\ \A x : Contains(Tail(rest), x) => Contains(rest, x)
          /\ Contains(rest, o)
          /\ \A i \in 1..Len(Tail(rest)) : Contains(rest, Tail(rest)[i])
      BY <2>3, <3>2, TailContains
    <3>4. (\A i \in 1..Len(tasks[Poll].rest) : Acked(tasks[Poll].rest[i]))'
      <4>1. \A x : Acked(x)' <=> Acked(x)
        BY <2>1 DEF Acked, kind
      <4>2. \A i \in 1..Len(tasks'[Poll].rest) : Contains(tasks[Poll].rest, tasks'[Poll].rest[i])
        BY <2>1, <2>3, <3>1, <3>3, TaskNames DEF SameTasksBut, Contains
      <4> QED
        BY <4>1, <4>2 DEF TransmitterExact, Contains
    <3>5. /\ \A p \in Ops : ToReplay(p)' => ToReplay(p) /\ (t = Replay => p # o)
          /\ Distinct(tasks'[Replay].rest)
      <4>1. CASE t = Replay
        <5>1. Distinct(rest)
          BY <4>1 DEF TransmitterExact
        <5>2. /\ Distinct(Tail(rest))
              /\ \A x : Contains(Tail(rest), x) <=> Contains(rest, x) /\ x # Head(rest)
          BY <2>3, <3>2, <5>1, TailElements
        <5> QED
          BY <2>3, <4>1, <5>2 DEF ToReplay
      <4>2. CASE t # Replay
        BY <2>1, <4>2, TaskNames DEF TransmitterExact, ToReplay, SameTasksBut
      <4> QED
        BY <4>1, <4>2
    <3>6. /\ \A u \in Ops : tasks'[u].rest = <<>>
          /\ \A u \in Ops : Sending(u)' => tasks'[u].op = u
          /\ \A u \in Ops : tasks'[u].pc = "chunk" => core' = "ready"
      BY <2>1, <3>1, TaskNames DEF TransmitterExact, SameTasksBut, Sending
    <3>7. tasks'[t].pc \in {"next", "chunk"}
      BY <1>0, <1>5, <2>3, NextOpEffect
    <3>8. \A u \in TaskIds : tasks'[u].pc \in {"writing", "written"} => core' = "ready"
      BY <2>1, <3>7 DEF TransmitterExact, SameTasksBut
    <3>9. CASE /\ tasks'[t].pc = "next"
               /\ \/ UNCHANGED <<entries, handle>>
                  \/ entries'[o] = NoEntry /\ SameOpsBut(o) /\ Settled(o, "failed")
      <4>1. \A u \in TaskIds, p \in Ops : Transmitting(u, p)' <=> Transmitting(u, p)
        BY <2>1, <3>9 DEF Transmitting, SameTasksBut
      <4>2. \A p \in Ops : entries'[p].armed => entries[p].armed
        BY <3>9 DEF SameOpsBut, NoEntry
      <4>3. \A p \in Ops : handle'[p] = handle[p] \/ handle'[p] \in Terminal
        BY <3>9 DEF SameOpsBut, Settled, Terminal
      <4>4. \A p \in Ops : handle'[p] = "unsent" => handle[p] = "unsent"
        BY <4>3 DEF Terminal
      <4>5. /\ \A p \in Ops : ToReplay(p)' => handle'[p] # "unsent" /\ ~entries'[p].armed
            /\ \A p \in Ops, u \in TaskIds : Transmitting(u, p)' =>
                  handle'[p] # "unsent" /\ ~entries'[p].armed /\ ~ToReplay(p)'
            /\ \A u \in Ops : handle'[u] = "unsent" => tasks'[u].pc = "idle"
        BY <2>1, <3>1, <3>5, <4>1, <4>2, <4>4, TaskNames DEF TransmitterExact, SameTasksBut
      <4>6. OneTransmitter'
        BY <4>1 DEF TransmitterExact, OneTransmitter
      <4> QED
        BY <3>4, <3>5, <3>6, <3>8, <4>5, <4>6 DEF TransmitterExact
    <3>10. CASE /\ ~Skipped(t, o)
                /\ tasks'[t].pc = "chunk" /\ tasks'[t].op = o
                /\ SameOpsBut(o) /\ UNCHANGED <<retained, handle>>
                /\ Acked(o) => ~entries'[o].armed
                /\ ~Acked(o) => entries'[o] = entries[o]
      <4>1. \A u \in TaskIds, p \in Ops :
                Transmitting(u, p)' <=> (u # t /\ Transmitting(u, p)) \/ (u = t /\ p = o)
        BY <2>1, <3>10 DEF Transmitting, SameTasksBut
      <4>2. \A u \in TaskIds : ~Transmitting(u, o)
        <5>1. CASE t = Poll
          <6>1. Acked(o)
            BY <3>3, <5>1 DEF TransmitterExact, Contains
          <6>2. entries[o].armed
            BY <3>10, <5>1, <6>1 DEF Skipped, Due
          <6> QED
            BY <2>3, <6>2 DEF TransmitterExact
        <5>2. CASE t = Replay
          BY <2>3, <3>3, <5>2 DEF TransmitterExact, ToReplay
        <5> QED
          BY <3>1, <5>1, <5>2
      <4>q. PICK q \in Ops : q = o
        BY <2>3
      <4>3. handle[q] # "unsent" /\ ~ToReplay(q)'
        <5>1. CASE t = Poll
          <6>1. Acked(o)
            BY <3>3, <5>1 DEF TransmitterExact, Contains
          <6>2. entries[o].armed
            BY <3>10, <5>1, <6>1 DEF Skipped, Due
          <6>3. handle[o] # "unsent"
            BY <2>3, <6>2 DEF RetentionExact
          <6>4. ~ToReplay(o)
            BY <2>3, <6>2 DEF TransmitterExact
          <6> QED
            BY <3>5, <4>q, <6>3, <6>4
        <5>2. CASE t = Replay
          <6>1. ToReplay(o)
            BY <3>3, <5>2 DEF ToReplay
          <6> QED
            BY <3>5, <4>q, <5>2, <6>1 DEF TransmitterExact
        <5> QED
          BY <3>1, <5>1, <5>2
      <4>4. ~entries'[o].armed
        BY <2>3, <3>10 DEF RetentionExact
      <4>5. /\ \A p \in Ops : ToReplay(p)' => handle'[p] # "unsent" /\ ~entries'[p].armed
            /\ \A p \in Ops, u \in TaskIds : Transmitting(u, p)' =>
                  handle'[p] # "unsent" /\ ~entries'[p].armed /\ ~ToReplay(p)'
            /\ \A u \in Ops : handle'[u] = "unsent" => tasks'[u].pc = "idle"
        BY <2>1, <3>1, <3>5, <3>10, <4>1, <4>3, <4>4, <4>q, TaskNames
        DEF TransmitterExact, SameTasksBut, SameOpsBut
      <4>6. OneTransmitter'
        BY <4>1, <4>2 DEF TransmitterExact, OneTransmitter
      <4> QED
        BY <3>4, <3>5, <3>6, <3>8, <4>5, <4>6 DEF TransmitterExact
    <3> QED
      BY <1>0, <1>5, <2>3, <3>9, <3>10, NextOpEffect
  <2>4. tasks'[t].pc \in {"next", "chunk"} => tasks'[t] # Idle
    BY DEF Idle
  <2> QED
    BY <1>0, <1>5, <2>2, <2>3, <2>4, NextOpEffect
<1>6. ASSUME NEW w \in 1..Len(writes), WriteDone(w) PROVE TransmitterExact'
  BY <1>6, WriteDoneEffect, TransmitterMany
<1>7. ASSUME PollAckTimeouts PROVE TransmitterExact'
  <2>1. /\ core = "ready" /\ SameTasksBut(Poll)
        /\ tasks'[Poll].pc = "next" /\ tasks'[Poll].rest \in Seq(Ops)
        /\ \A i \in 1..Len(tasks'[Poll].rest) : entries[tasks'[Poll].rest[i]].armed
        /\ UNCHANGED <<scenario, core, entries, handle>>
    BY <1>7, PollEffect
  <2>2. \A o \in Ops : entries[o].armed => Acked(o)
    BY DEF RetentionExact
  <2>3. (\A i \in 1..Len(tasks[Poll].rest) : Acked(tasks[Poll].rest[i]))'
    <3>1. \A i \in 1..Len(tasks'[Poll].rest) : tasks'[Poll].rest[i] \in Ops
      BY <2>1, LenProperties
    <3>2. \A o \in Ops : Acked(o)' <=> Acked(o)
      BY <2>1 DEF Acked, kind
    <3> QED
      BY <2>1, <2>2, <3>1, <3>2
  <2>4. \A u \in TaskIds, p \in Ops : Transmitting(u, p)' <=> u # Poll /\ Transmitting(u, p)
    BY <2>1 DEF Transmitting, SameTasksBut
  <2>5. /\ \A p \in Ops : ToReplay(p)' <=> ToReplay(p)
        /\ Distinct(tasks'[Replay].rest)
    BY <2>1, TaskNames DEF TransmitterExact, ToReplay, SameTasksBut
  <2>6. /\ \A u \in Ops : tasks'[u].rest = <<>>
        /\ \A u \in Ops : Sending(u)' => tasks'[u].op = u
        /\ \A u \in Ops : handle'[u] = "unsent" => tasks'[u].pc = "idle"
        /\ \A u \in Ops : tasks'[u].pc = "chunk" => core' = "ready"
        /\ \A u \in TaskIds : tasks'[u].pc \in {"writing", "written"} => core' = "ready"
    BY <2>1, TaskNames DEF TransmitterExact, SameTasksBut, Sending
  <2>7. /\ \A p \in Ops : ToReplay(p)' => handle'[p] # "unsent" /\ ~entries'[p].armed
        /\ \A p \in Ops, u \in TaskIds : Transmitting(u, p)' =>
              handle'[p] # "unsent" /\ ~entries'[p].armed /\ ~ToReplay(p)'
    BY <2>1, <2>4, <2>5 DEF TransmitterExact
  <2>8. OneTransmitter'
    BY <2>4 DEF TransmitterExact, OneTransmitter
  <2> QED
    BY <2>3, <2>5, <2>6, <2>7, <2>8 DEF TransmitterExact
<1>8. ASSUME ReceiveAck PROVE TransmitterExact'
  <2> DEFINE o == Head(ackWire)
  <2>1. UNCHANGED <<scenario, core, tasks>>
    BY <1>0, <1>8, ReceiveAckEffect
  <2>2. \/ UNCHANGED <<entries, handle>>
        \/ /\ o \in Ops /\ entries'[o] = NoEntry
           /\ SameOpsBut(o) /\ Settled(o, "acknowledged")
    BY <1>0, <1>8, ReceiveAckEffect
  <2>3. \A p \in Ops : /\ entries'[p].armed => entries[p].armed
                       /\ handle'[p] = "unsent" => handle[p] = "unsent"
    BY <2>2 DEF SameOpsBut, Settled, NoEntry, Terminal
  <2> QED
    BY <2>1, <2>3, TransmitterUntouched
<1>9. CASE TransportLost \/ Close
  <2>1. Quiet /\ Interrupt /\ UNCHANGED <<scenario, handle>>
    BY <1>9 DEF TransportLost, Close
  <2>2. \A p \in Ops : entries'[p].armed => entries[p].armed
    <3>1. PauseDeadlines \/ UNCHANGED entries
      BY <1>9 DEF TransportLost, Close
    <3> QED
      BY <3>1, PauseEffect
  <2>3. \A u \in TaskIds : /\ tasks'[u].rest = tasks[u].rest
                           /\ tasks'[u].pc \in {"idle", "next"}
                           /\ tasks[u].pc = "idle" => tasks'[u].pc = "idle"
    BY <2>1, QuietTasks, InterruptEffect
  <2> QED
    BY <2>1, <2>2, <2>3, TransmitterStopped
<1>10. ASSUME Resume PROVE TransmitterExact'
  <2>1. /\ core = "reconnecting" /\ core' = "ready" /\ SameTasksBut(Replay)
        /\ tasks'[Replay].pc = "next" /\ tasks'[Replay].rest = retained
        /\ UNCHANGED <<scenario, entries, handle>>
    BY <1>10, ResumeEffect
  <2>2. \A u \in TaskIds : tasks[u].pc = "idle"
    BY <1>10, <2>1, ResumeEffect, QuietTasks DEF TransmitterExact
  <2>3. \A u \in TaskIds, p \in Ops : ~Transmitting(u, p)' /\ ~Sending(u)'
    BY <2>1, <2>2 DEF Transmitting, SameTasksBut, Sending
  <2>4. \A p \in Ops : ToReplay(p)' => handle'[p] # "unsent" /\ ~entries'[p].armed
    BY <2>1 DEF ToReplay, RetentionExact, DeadlineConnected
  <2>5. (\A i \in 1..Len(tasks[Poll].rest) : Acked(tasks[Poll].rest[i]))'
    <3>1. tasks'[Poll].rest = tasks[Poll].rest
      BY <2>1, TaskNames DEF SameTasksBut
    <3>2. \A o : Acked(o)' <=> Acked(o)
      BY <2>1 DEF Acked, kind
    <3> QED
      BY <3>1, <3>2 DEF TransmitterExact
  <2>6. /\ \A u \in Ops : tasks'[u].rest = <<>> /\ tasks'[u].pc = "idle"
        /\ \A u \in TaskIds : tasks'[u].pc \in {"idle", "next"}
    BY <2>1, <2>2, TaskNames DEF TransmitterExact, SameTasksBut
  <2>7. OneTransmitter'
    BY <2>3 DEF OneTransmitter
  <2> QED
    BY <1>0, <2>1, <2>3, <2>4, <2>5, <2>6, <2>7, TaskNames DEF TransmitterExact
<1>11. CASE Receive \/ AckWritten \/ AckFailed \/ PeerLost
  BY <1>11, TransmitterUntouched DEF Receive, AckWritten, AckFailed, PeerLost, senderVars
<1>12. CASE UNCHANGED linkVars
  BY <1>12, TransmitterUntouched DEF linkVars, senderVars
<1> QED
  BY <1>1, <1>2, <1>3, <1>4, <1>5, <1>6, <1>7, <1>8, <1>9, <1>10, <1>11, <1>12
  DEF LinkNext, Running

-----------------------------------------------------------------------------
(* Submission                                                              *)

(* The transport stays in use: writes are added and answered, never lost.  *)
WritesKept ==
    /\ Len(writes) =< Len(writes')
    /\ \A w \in 1..Len(writes) :
          /\ writes'[w].frame = writes[w].frame
          /\ writes[w].state # "pending" => writes'[w].state # "pending"

(* What has been submitted on a transport stays submitted on it.           *)
LEMMA SubmittedStays ==
    ASSUME LinkTypeOK, WritesKept, LinkTypeOK', NEW o, NEW c, Submitted(o, c)
    PROVE  Submitted(o, c)'
<1>1. Len(writes) \in Nat /\ Len(writes') \in Nat
  BY LenProperties DEF LinkTypeOK, SenderTypeOK
<1>2. PICK w \in 1..Len(writes) :
        /\ writes[w].frame.op = o
        /\ writes[w].frame.chunk = c
        /\ writes[w].state # "pending"
  BY DEF Submitted
<1>3. /\ w \in 1..Len(writes')
      /\ writes'[w].frame.op = o
      /\ writes'[w].frame.chunk = c
      /\ writes'[w].state # "pending"
  BY <1>1, <1>2 DEF WritesKept
<1> QED
  BY <1>3 DEF Submitted

(* A task that stops, rests, begins an attempt, goes on to the next chunk, *)
(* hands one to the backend or learns of its submission has submitted the  *)
(* chunks before its current one.                                          *)
LEMMA AttemptStep ==
    ASSUME LinkTypeOK, LinkTypeOK', WritesKept, NEW u \in TaskIds, AttemptSubmitted(u),
           \/ tasks'[u].pc \in {"idle", "next"}
           \/ tasks'[u] = tasks[u]
           \/ tasks'[u].pc = "chunk" /\ tasks'[u].chunk = 1
           \/ /\ tasks[u].pc = "written" /\ tasks'[u].pc = "chunk"
              /\ tasks'[u].op = tasks[u].op /\ tasks'[u].chunk = tasks[u].chunk + 1
           \/ /\ tasks[u].pc = "chunk" /\ tasks'[u].pc = "writing"
              /\ tasks'[u].op = tasks[u].op /\ tasks'[u].chunk = tasks[u].chunk
              /\ tasks'[u].write \in 1..Len(writes')
              /\ writes'[tasks'[u].write].frame.op = tasks[u].op
              /\ writes'[tasks'[u].write].frame.chunk = tasks[u].chunk
           \/ /\ tasks[u].pc = "writing" /\ tasks'[u].pc = "written"
              /\ tasks'[u].op = tasks[u].op /\ tasks'[u].chunk = tasks[u].chunk
              /\ writes'[tasks[u].write].state # "pending"
    PROVE  AttemptSubmitted(u)'
<1>1. Len(writes) \in Nat /\ Len(writes') \in Nat
  BY LenProperties DEF LinkTypeOK, SenderTypeOK
<1>2. tasks[u].chunk \in Nat
  BY DEF LinkTypeOK, SenderTypeOK, TasksOK, Tasks
<1>3. \A o, c : Submitted(o, c) => Submitted(o, c)'
  BY SubmittedStays
<1>4. CASE tasks'[u].pc \in {"idle", "next"}
  BY <1>4 DEF AttemptSubmitted, Sending
<1>5. CASE tasks'[u] = tasks[u]
  <2>1. tasks[u].pc = "writing" =>
            /\ tasks[u].write \in 1..Len(writes')
            /\ writes'[tasks[u].write].frame = writes[tasks[u].write].frame
    BY <1>1 DEF AttemptSubmitted, WritesKept
  <2> QED
    BY <1>3, <1>5, <2>1 DEF AttemptSubmitted, Sending
<1>6. CASE tasks'[u].pc = "chunk" /\ tasks'[u].chunk = 1
  <2>1. 1..(tasks'[u].chunk - 1) = {}
    BY <1>6
  <2> QED
    BY <1>6, <2>1 DEF AttemptSubmitted
<1>7. CASE /\ tasks[u].pc = "written" /\ tasks'[u].pc = "chunk"
           /\ tasks'[u].op = tasks[u].op /\ tasks'[u].chunk = tasks[u].chunk + 1
  <2>1. \A c \in 1..(tasks'[u].chunk - 1) :
            c \in 1..(tasks[u].chunk - 1) \/ c = tasks[u].chunk
    BY <1>2, <1>7
  <2>2. \A c \in 1..(tasks'[u].chunk - 1) : Submitted(tasks[u].op, c)
    BY <1>7, <2>1 DEF AttemptSubmitted, Sending
  <2>3. PICK o : o = tasks[u].op
    OBVIOUS
  <2>4. \A c \in 1..(tasks'[u].chunk - 1) : Submitted(o, c)'
    BY <1>3, <2>2, <2>3
  <2> QED
    BY <1>7, <2>3, <2>4 DEF AttemptSubmitted
<1>8. CASE /\ tasks[u].pc = "chunk" /\ tasks'[u].pc = "writing"
           /\ tasks'[u].op = tasks[u].op /\ tasks'[u].chunk = tasks[u].chunk
           /\ tasks'[u].write \in 1..Len(writes')
           /\ writes'[tasks'[u].write].frame.op = tasks[u].op
           /\ writes'[tasks'[u].write].frame.chunk = tasks[u].chunk
  BY <1>3, <1>8 DEF AttemptSubmitted, Sending
<1>9. CASE /\ tasks[u].pc = "writing" /\ tasks'[u].pc = "written"
           /\ tasks'[u].op = tasks[u].op /\ tasks'[u].chunk = tasks[u].chunk
           /\ writes'[tasks[u].write].state # "pending"
  <2>1. PICK o, c, w : o = tasks[u].op /\ c = tasks[u].chunk /\ w = tasks[u].write
    OBVIOUS
  <2>2. /\ w \in 1..Len(writes')
        /\ writes'[w].frame.op = o
        /\ writes'[w].frame.chunk = c
        /\ writes'[w].state # "pending"
    BY <1>1, <1>9, <2>1 DEF AttemptSubmitted, WritesKept
  <2>3. Submitted(o, c)'
    BY <2>2 DEF Submitted
  <2> QED
    BY <1>3, <1>9, <2>1, <2>3 DEF AttemptSubmitted, Sending
<1> QED
  BY <1>4, <1>5, <1>6, <1>7, <1>8, <1>9

(* Every attempt and every deadline satisfy this after every step.         *)
LEMMA PrefixStep ==
    ASSUME LinkTypeOK, LinkTypeOK', RetentionExact, TransmitterExact, DeadlineConnected,
           PrefixSubmitted, [LinkNext]_linkVars
    PROVE  PrefixSubmitted'
<1>0. /\ Distinct(retained)
      /\ Len(writes) \in Nat
      /\ \A t \in TaskIds : tasks[t] \in Tasks
  BY LenProperties DEF RetentionExact, LinkTypeOK, SenderTypeOK, TasksOK
<1>a. \A t \in TaskIds : tasks[t].chunk \in Nat
  BY <1>0 DEF Tasks
<1>b. ASSUME UNCHANGED writes PROVE WritesKept
  BY <1>0, <1>b DEF WritesKept
(* Steps that arm no deadline.                                             *)
<1>c. ASSUME WritesKept, UNCHANGED scenario, \A t \in TaskIds : AttemptSubmitted(t)',
             \A o \in Ops : entries'[o].armed => entries[o].armed
      PROVE  PrefixSubmitted'
  <2>1. \A o, c : Submitted(o, c) => Submitted(o, c)'
    BY <1>c, SubmittedStays
  <2> QED
    BY <1>c, <2>1 DEF PrefixSubmitted, kind
<1>1. ASSUME NEW o \in Ops, Send(o) PROVE PrefixSubmitted'
  <2>1. /\ SameOpsBut(o) /\ SameTasksBut(o) /\ entries'[o].armed = entries[o].armed
        /\ tasks'[o].pc = "chunk" /\ tasks'[o].chunk = 1
        /\ UNCHANGED <<scenario, writes>>
    BY <1>1, SendEffect
  <2>2. \A t \in TaskIds : AttemptSubmitted(t)'
    BY <1>b, <2>1, AttemptStep DEF PrefixSubmitted, SameTasksBut
  <2> QED
    BY <1>b, <1>c, <2>1, <2>2 DEF SameOpsBut
<1>2. ASSUME NEW o \in Ops, Cancel(o) PROVE PrefixSubmitted'
  <2>1. /\ UNCHANGED <<scenario, tasks, writes>>
        /\ SameOpsBut(o)
        /\ entries'[o] = NoEntry \/ entries' = entries
    BY <1>0, <1>2, CancelEffect
  <2>2. \A t \in TaskIds : AttemptSubmitted(t)'
    BY <1>b, <2>1, AttemptStep DEF PrefixSubmitted
  <2> QED
    BY <1>b, <1>c, <2>1, <2>2 DEF SameOpsBut, NoEntry
<1>3. ASSUME NEW t \in TaskIds, Chunk(t) PROVE PrefixSubmitted'
  <2>1. tasks[t].pc = "chunk" /\ SameTasksBut(t) /\ UNCHANGED <<scenario, entries>>
    BY <1>3, ChunkEffect
  <2>2. CASE UNCHANGED writes /\ tasks'[t].pc \in {"idle", "next"}
    <3>1. \A u \in TaskIds : AttemptSubmitted(u)'
      BY <1>b, <2>1, <2>2, AttemptStep DEF PrefixSubmitted, SameTasksBut
    <3> QED
      BY <1>b, <1>c, <2>1, <2>2, <3>1
  <2>3. CASE /\ tasks'[t].pc = "writing" /\ tasks'[t].op = tasks[t].op
             /\ tasks'[t].chunk = tasks[t].chunk
             /\ tasks'[t].write = Len(writes) + 1
             /\ Len(writes') = Len(writes) + 1
             /\ \A w \in 1..Len(writes) : writes'[w] = writes[w]
             /\ writes'[Len(writes) + 1].frame =
                    [op |-> tasks[t].op, chunk |-> tasks[t].chunk,
                     seq |-> nextSeq, gen |-> gen]
    <3>1. WritesKept
      BY <1>0, <2>3 DEF WritesKept
    <3>2. /\ tasks'[t].write \in 1..Len(writes')
          /\ writes'[tasks'[t].write].frame.op = tasks[t].op
          /\ writes'[tasks'[t].write].frame.chunk = tasks[t].chunk
      BY <1>0, <2>3
    <3>3. AttemptSubmitted(t)'
      BY <2>1, <2>3, <3>1, <3>2, AttemptStep DEF PrefixSubmitted
    <3>4. \A u \in TaskIds : AttemptSubmitted(u)'
      BY <2>1, <3>1, <3>3, AttemptStep DEF PrefixSubmitted, SameTasksBut
    <3> QED
      BY <1>c, <2>1, <3>1, <3>4
  <2>4. Idle.pc = "idle"
    BY DEF Idle
  <2> QED
    BY <1>3, <2>2, <2>3, <2>4, ChunkEffect
<1>4. ASSUME NEW t \in TaskIds, Written(t) PROVE PrefixSubmitted'
  <2>1. PICK o : o = tasks[t].op
    OBVIOUS
  <2>2. /\ tasks[t].pc = "written" /\ o \in Ops /\ SameTasksBut(t)
        /\ UNCHANGED <<scenario, writes>>
        /\ \/ tasks'[t].pc = "next"
           \/ /\ tasks'[t].pc = "chunk" /\ tasks'[t].op = tasks[t].op
              /\ tasks'[t].chunk = tasks[t].chunk + 1
    BY <1>0, <1>4, <2>1, WrittenEffect
  <2>3. AttemptSubmitted(t)'
    BY <1>b, <2>2, AttemptStep DEF PrefixSubmitted
  <2>4. \A u \in TaskIds : AttemptSubmitted(u)'
    BY <1>b, <2>2, <2>3, AttemptStep DEF PrefixSubmitted, SameTasksBut
  <2>5. CASE entries' = entries
    BY <1>b, <1>c, <2>2, <2>4, <2>5
  <2>6. CASE tasks[t].chunk = kind[o].chunks /\ SameOpsBut(o)
    <3>1. kind[o].chunks \in Nat
      BY <2>2, KindType DEF LinkTypeOK, SenderTypeOK
    <3>2. \A c \in 1..kind[o].chunks : c \in 1..(tasks[t].chunk - 1) \/ c = tasks[t].chunk
      BY <2>6, <3>1
    <3>3. \A c \in 1..kind[o].chunks : Submitted(o, c)
      BY <2>1, <2>2, <3>2 DEF PrefixSubmitted, AttemptSubmitted, Sending
    <3>4. \A p, c : Submitted(p, c) => Submitted(p, c)'
      BY <1>b, <2>2, SubmittedStays
    <3> QED
      BY <2>2, <2>4, <2>6, <3>3, <3>4 DEF PrefixSubmitted, SameOpsBut, kind
  <2> QED
    BY <1>0, <1>4, <2>1, <2>5, <2>6, WrittenEffect
<1>5. ASSUME NEW t \in TaskIds, NextOp(t) PROVE PrefixSubmitted'
  <2> DEFINE o == Head(tasks[t].rest)
  <2>1. /\ SameTasksBut(t) /\ UNCHANGED <<scenario, writes>>
    BY <1>0, <1>5, NextOpEffect
  <2>2. \/ tasks'[t] = Idle
        \/ tasks'[t].pc = "next"
        \/ tasks'[t].pc = "chunk" /\ tasks'[t].chunk = 1
    BY <1>0, <1>5, NextOpEffect
  <2>3. AttemptSubmitted(t)'
    BY <1>b, <2>1, <2>2, AttemptStep DEF PrefixSubmitted, Idle
  <2>4. \A u \in TaskIds : AttemptSubmitted(u)'
    BY <1>b, <2>1, <2>3, AttemptStep DEF PrefixSubmitted, SameTasksBut
  <2>5. \/ UNCHANGED entries
        \/ o \in Ops /\ entries'[o] = NoEntry /\ SameOpsBut(o)
        \/ /\ o \in Ops /\ SameOpsBut(o)
           /\ Acked(o) => ~entries'[o].armed
           /\ ~Acked(o) => entries'[o] = entries[o]
    BY <1>0, <1>5, NextOpEffect
  <2>6. \A p \in Ops : entries'[p].armed => entries[p].armed
    BY <2>5 DEF SameOpsBut, NoEntry
  <2> QED
    BY <1>b, <1>c, <2>1, <2>4, <2>6
<1>6. ASSUME NEW w \in 1..Len(writes), WriteDone(w) PROVE PrefixSubmitted'
  <2>1. /\ UNCHANGED <<scenario, entries>>
        /\ Len(writes') = Len(writes)
        /\ \A v \in 1..Len(writes) :
              /\ writes'[v].frame = writes[v].frame
              /\ v # w => writes'[v].state = writes[v].state
        /\ writes'[w].state = "submitted"
        /\ \A u \in TaskIds :
              \/ tasks'[u] = tasks[u]
              \/ /\ tasks[u].pc = "writing" /\ tasks[u].write = w
                 /\ tasks'[u].pc = "written" /\ tasks'[u].op = tasks[u].op
                 /\ tasks'[u].chunk = tasks[u].chunk
    BY <1>6, WriteDoneEffect
  <2>2. WritesKept
    BY <1>0, <2>1 DEF WritesKept
  <2>3. ASSUME NEW u \in TaskIds PROVE AttemptSubmitted(u)'
    BY <2>1, <2>2, AttemptStep DEF PrefixSubmitted
  <2> QED
    BY <1>c, <2>1, <2>2, <2>3
<1>7. ASSUME PollAckTimeouts PROVE PrefixSubmitted'
  <2>1. /\ SameTasksBut(Poll) /\ tasks'[Poll].pc = "next"
        /\ UNCHANGED <<scenario, entries, writes>>
    BY <1>7, PollEffect
  <2>2. \A u \in TaskIds : AttemptSubmitted(u)'
    BY <1>b, <2>1, AttemptStep DEF PrefixSubmitted, SameTasksBut
  <2> QED
    BY <1>b, <1>c, <2>1, <2>2
<1>8. ASSUME ReceiveAck PROVE PrefixSubmitted'
  <2> DEFINE o == Head(ackWire)
  <2>1. UNCHANGED <<scenario, tasks, writes>>
    BY <1>0, <1>8, ReceiveAckEffect
  <2>2. \/ UNCHANGED entries
        \/ o \in Ops /\ entries'[o] = NoEntry /\ SameOpsBut(o)
    BY <1>0, <1>8, ReceiveAckEffect
  <2>3. \A p \in Ops : entries'[p].armed => entries[p].armed
    BY <2>2 DEF SameOpsBut, NoEntry
  <2>4. \A u \in TaskIds : AttemptSubmitted(u)'
    BY <1>b, <2>1, AttemptStep DEF PrefixSubmitted
  <2> QED
    BY <1>b, <1>c, <2>1, <2>3, <2>4
<1>9. CASE TransportLost \/ Close
  <2>1. Quiet /\ Interrupt /\ UNCHANGED scenario
    BY <1>9 DEF TransportLost, Close
  <2>2. \A p \in Ops : entries'[p].armed => entries[p].armed
    <3>1. PauseDeadlines \/ UNCHANGED entries
      BY <1>9 DEF TransportLost, Close
    <3> QED
      BY <3>1, PauseEffect
  <2>3. \A u \in TaskIds : tasks'[u].pc \in {"idle", "next"}
    BY <2>1, QuietTasks, InterruptEffect
  <2>4. WritesKept
    <3>1. FailAll \/ UNCHANGED writes
      BY <1>9 DEF TransportLost, Close, contractVars
    <3>2. FailAll => WritesKept
      BY <1>0, ContractTypes DEF WritesKept, LinkTypeOK, SenderTypeOK
    <3> QED
      BY <1>b, <3>1, <3>2
  <2>5. \A u \in TaskIds : AttemptSubmitted(u)'
    BY <2>3, <2>4, AttemptStep DEF PrefixSubmitted
  <2> QED
    BY <1>c, <2>1, <2>2, <2>4, <2>5
<1>10. ASSUME Resume PROVE PrefixSubmitted'
  <2>1. /\ core = "reconnecting" /\ SameTasksBut(Replay) /\ tasks'[Replay].pc = "next"
        /\ UNCHANGED entries
    BY <1>10, ResumeEffect
  <2>2. \A u \in TaskIds : tasks[u].pc = "idle"
    BY <1>10, <2>1, ResumeEffect, QuietTasks DEF TransmitterExact
  <2>3. \A u \in TaskIds : tasks'[u].pc \in {"idle", "next"}
    BY <2>1, <2>2 DEF SameTasksBut
  <2>4. \A o \in Ops : ~entries'[o].armed
    BY <2>1 DEF DeadlineConnected
  <2> QED
    BY <2>3, <2>4 DEF PrefixSubmitted, AttemptSubmitted, Sending
<1>11. CASE Receive \/ AckWritten \/ AckFailed \/ PeerLost
  <2>1. UNCHANGED <<scenario, tasks, entries, writes>>
    BY <1>11 DEF Receive, AckWritten, AckFailed, PeerLost, senderVars, contractVars
  <2>2. \A u \in TaskIds : AttemptSubmitted(u)'
    BY <1>b, <2>1, AttemptStep DEF PrefixSubmitted
  <2> QED
    BY <1>b, <1>c, <2>1, <2>2
<1>12. CASE UNCHANGED linkVars
  <2>1. UNCHANGED <<scenario, tasks, entries, writes>>
    BY <1>12 DEF linkVars, senderVars, contractVars
  <2>2. \A u \in TaskIds : AttemptSubmitted(u)'
    BY <1>b, <2>1, AttemptStep DEF PrefixSubmitted
  <2> QED
    BY <1>b, <1>c, <2>1, <2>2
<1> QED
  BY <1>1, <1>2, <1>3, <1>4, <1>5, <1>6, <1>7, <1>8, <1>9, <1>10, <1>11, <1>12
  DEF LinkNext, Running

-----------------------------------------------------------------------------
(* Generations                                                             *)

(* Everything on the transport, and whatever the receiver has put together *)
(* from it, is of the generation in use, after every step.                 *)
LEMMA GenerationStep ==
    ASSUME LinkTypeOK, OneGeneration, [LinkNext]_linkVars
    PROVE  OneGeneration'
<1>0. /\ writes \in Seq(Writes) /\ Len(writes) \in Nat
      /\ wire \in Seq(DataFrames) /\ Len(wire) \in Nat
      /\ \A w \in 1..Len(writes) : writes[w] \in Writes /\ writes[w].frame \in DataFrames
  <2>1. writes \in Seq(Writes) /\ wire \in Seq(DataFrames)
    BY DEF LinkTypeOK, SenderTypeOK, ReceiverTypeOK
  <2>2. \A w \in 1..Len(writes) : writes[w] \in Writes
    BY <2>1, LenProperties
  <2> QED
    BY <2>1, <2>2, LenProperties DEF Writes
(* A frame that has been submitted joins the others.                       *)
<1>a. ASSUME NEW w \in 1..Len(writes), wire' = Append(wire, writes[w].frame), gen' = gen
      PROVE  \A i \in 1..Len(wire') : wire'[i].gen = gen'
  <2>1. /\ Len(Append(wire, writes[w].frame)) = Len(wire) + 1
        /\ \A i \in 1..Len(wire) : Append(wire, writes[w].frame)[i] = wire[i]
        /\ Append(wire, writes[w].frame)[Len(wire) + 1] = writes[w].frame
    BY <1>0, AppendProperties
  <2>2. \A i \in 1..Len(wire') : i \in 1..Len(wire) \/ i = Len(wire) + 1
    BY <1>0, <1>a, <2>1
  <2> QED
    BY <1>a, <2>1, <2>2 DEF OneGeneration
(* Answering writes leaves their frames.                                   *)
<1>b. ASSUME gen' = gen, Len(writes') = Len(writes),
             \A w \in 1..Len(writes) : writes'[w].frame = writes[w].frame
      PROVE  \A i \in 1..Len(writes') : writes'[i].frame.gen = gen'
  BY <1>b DEF OneGeneration
<1>1. ASSUME NEW o \in Ops, Send(o) \/ Cancel(o) PROVE OneGeneration'
  BY <1>1 DEF OneGeneration, Send, Cancel, contractVars, receiverVars
<1>2. ASSUME NEW t \in TaskIds, Chunk(t) PROVE OneGeneration'
  <2>1. UNCHANGED <<gen, wire, partial, peer>>
    BY <1>2 DEF Chunk, receiverVars
  <2>2. CASE UNCHANGED writes
    BY <2>1, <2>2 DEF OneGeneration
  <2>3. CASE /\ Len(writes') = Len(writes) + 1
             /\ \A w \in 1..Len(writes) : writes'[w] = writes[w]
             /\ writes'[Len(writes) + 1].frame =
                    [op |-> tasks[t].op, chunk |-> tasks[t].chunk,
                     seq |-> nextSeq, gen |-> gen]
    <3>1. \A i \in 1..Len(writes') : i \in 1..Len(writes) \/ i = Len(writes) + 1
      BY <1>0, <2>3
    <3>2. \A i \in 1..Len(writes') : writes'[i].frame.gen = gen'
      BY <2>1, <2>3, <3>1 DEF OneGeneration
    <3> QED
      BY <2>1, <3>2 DEF OneGeneration
  <2> QED
    BY <1>2, <2>2, <2>3, ChunkEffect
<1>3. ASSUME NEW t \in TaskIds, Written(t) \/ NextOp(t) PROVE OneGeneration'
  BY <1>3 DEF OneGeneration, Written, NextOp, contractVars, receiverVars
<1>4. ASSUME NEW w \in 1..Len(writes), WriteDone(w) PROVE OneGeneration'
  <2>1. /\ UNCHANGED <<gen, partial, peer>>
        /\ wire' = IF Linked THEN Append(wire, writes[w].frame) ELSE wire
    BY <1>4 DEF WriteDone, receiverVars
  <2>2. \A i \in 1..Len(writes') : writes'[i].frame.gen = gen'
    BY <1>4, <1>b, <2>1, WriteDoneEffect
  <2>3. CASE Linked
    <3>1. peer = "ready" /\ \A i \in 1..Len(wire') : wire'[i].gen = gen'
      BY <1>a, <2>1, <2>3 DEF Linked
    <3> QED
      BY <2>1, <2>2, <3>1 DEF OneGeneration
  <2>4. CASE ~Linked
    BY <2>1, <2>2, <2>4 DEF OneGeneration
  <2> QED
    BY <2>3, <2>4
<1>5. CASE PollAckTimeouts \/ ReceiveAck
  BY <1>5 DEF OneGeneration, PollAckTimeouts, ReceiveAck, contractVars, receiverVars
<1>6. ASSUME TransportLost PROVE OneGeneration'
  <2>1. UNCHANGED <<gen, partial, peer>> /\ FailAll
    BY <1>6 DEF TransportLost, receiverVars
  <2>2. \A i \in 1..Len(writes') : writes'[i].frame.gen = gen'
    BY <1>b, <2>1, ContractTypes DEF LinkTypeOK, SenderTypeOK
  <2>3. CASE UNCHANGED wire
    BY <2>1, <2>2, <2>3 DEF OneGeneration
  <2>4. CASE peer = "ready" /\ \E w \in 1..Len(writes) : wire' = Append(wire, writes[w].frame)
    <3>1. \A i \in 1..Len(wire') : wire'[i].gen = gen'
      BY <1>a, <2>1, <2>4
    <3> QED
      BY <2>1, <2>2, <2>4, <3>1 DEF OneGeneration
  <2> QED
    BY <1>6, <2>3, <2>4 DEF TransportLost
<1>7. ASSUME Resume PROVE OneGeneration'
  <2>1. /\ peer = "reconnecting" /\ peer' = "ready" /\ writes' = <<>>
        /\ UNCHANGED <<wire, partial>>
    BY <1>7 DEF Resume
  <2>2. wire = <<>> /\ \A o \in Ops : partial[o] = {}
    BY <2>1 DEF OneGeneration
  <2> QED
    BY <2>1, <2>2 DEF OneGeneration
<1>8. ASSUME Close PROVE OneGeneration'
  <2>1. UNCHANGED <<gen, wire, partial, peer>> /\ (FailAll \/ UNCHANGED writes)
    BY <1>8 DEF Close, receiverVars, contractVars
  <2>2. \A i \in 1..Len(writes') : writes'[i].frame.gen = gen'
    BY <1>b, <2>1, ContractTypes DEF LinkTypeOK, SenderTypeOK
  <2> QED
    BY <2>1, <2>2 DEF OneGeneration
<1>9. ASSUME Receive PROVE OneGeneration'
  <2> DEFINE f == Head(wire)
  <2>1. /\ wire # <<>> /\ peer = "ready" /\ wire' = Tail(wire)
        /\ UNCHANGED <<gen, writes, peer>>
        /\ \/ partial' = partial
           \/ partial' = [partial EXCEPT ![f.op] = Chunks(f)]
           \/ partial' = [partial EXCEPT ![f.op] = {}]
    BY <1>9 DEF Receive, senderVars, contractVars
  <2>2. /\ Len(Tail(wire)) = Len(wire) - 1
        /\ \A i \in 1..(Len(wire) - 1) : Tail(wire)[i] = wire[i + 1]
        /\ f = wire[1] /\ f \in DataFrames /\ 1 \in 1..Len(wire)
    BY <1>0, <2>1, HeadTailProperties
  <2>3. \A i \in 1..Len(wire') : i + 1 \in 1..Len(wire) /\ wire'[i] = wire[i + 1]
    BY <1>0, <2>1, <2>2
  <2>4. \A i \in 1..Len(wire') : wire'[i].gen = gen'
    BY <2>1, <2>3 DEF OneGeneration
  <2>5. f.gen = gen /\ f.op \in Ops
    BY <2>2 DEF OneGeneration, DataFrames
  <2>6. \A x \in Chunks(f) : x[2] = gen
    BY <2>5 DEF OneGeneration, Chunks
  <2>7. \A o \in Ops : \/ partial'[o] = partial[o]
                       \/ partial'[o] = {}
                       \/ partial'[o] = Chunks(f)
    <3>1. partial \in [Ops -> SUBSET (Nat \X Nat)]
      BY DEF LinkTypeOK, ReceiverTypeOK
    <3> HIDE DEF f
    <3> QED
      BY <2>1, <2>5, <3>1
  <2>8. \A o \in Ops : \A x \in partial'[o] : x[2] = gen'
    BY <2>1, <2>6, <2>7 DEF OneGeneration
  <2> QED
    BY <2>1, <2>4, <2>8 DEF OneGeneration
<1>10. CASE AckWritten \/ AckFailed
  BY <1>10 DEF OneGeneration, AckWritten, AckFailed, senderVars, contractVars
<1>11. ASSUME PeerLost PROVE OneGeneration'
  <2>1. /\ wire' = <<>> /\ \A o \in Ops : partial'[o] = {}
        /\ UNCHANGED <<gen, writes>>
    BY <1>11 DEF PeerLost, DiscardPartial, contractVars
  <2> QED
    BY <2>1 DEF OneGeneration
<1>12. CASE UNCHANGED linkVars
  BY <1>12 DEF OneGeneration, linkVars, senderVars, contractVars, receiverVars
<1> QED
  BY <1>1, <1>2, <1>3, <1>4, <1>5, <1>6, <1>7, <1>8, <1>9, <1>10, <1>11, <1>12
  DEF LinkNext, Running

-----------------------------------------------------------------------------
(* Delivery                                                                *)

(* Steps that leave what the receiver holds alone, and acknowledge only    *)
(* what is held, keep the delivery facts.                                  *)
LEMMA HeldUntouched ==
    ASSUME LinkTypeOK, HeldOnce, UNCHANGED <<scenario, acks, dedup, delivered>>,
           \A i \in 1..Len(ackWire') : Held(ackWire'[i]),
           \A o \in Ops : handle'[o] = "acknowledged" => handle[o] = "acknowledged" \/ Held(o)
    PROVE  HeldOnce'
<1>1. /\ \A o : Held(o)' <=> Held(o)
      /\ \A o : Acked(o)' <=> Acked(o)
  BY DEF Held, Acked, kind
<1>2. \A o \in Ops : handle'[o] = "acknowledged" => Held(o)'
  BY <1>1 DEF HeldOnce
<1>3. /\ (\A i \in 1..Len(acks) : Held(acks[i].op) /\ Acked(acks[i].op))'
      /\ \A o \in dedup' : Held(o)'
      /\ (\A i \in 1..Len(ackWire) : Held(ackWire[i]))'
      /\ \A o \in Ops : Acked(o)' /\ Held(o)' => o \in dedup'
  BY <1>1 DEF HeldOnce
<1>4. AckedAtMostOnce'
  BY <1>1 DEF HeldOnce, AckedAtMostOnce
<1> QED
  BY <1>2, <1>3, <1>4 DEF HeldOnce

(* The handle of an operation is only acknowledged by an ACK for it.       *)
LEMMA AcknowledgedByAck ==
    ASSUME LinkTypeOK, Distinct(retained), [LinkNext]_linkVars, NEW o \in Ops,
           handle'[o] = "acknowledged"
    PROVE  \/ handle[o] = "acknowledged"
           \/ ReceiveAck /\ o = Head(ackWire)
<1>1. ASSUME NEW p \in Ops, NEW s \in {"sent", "failed"}, Settled(p, s), SameOpsBut(p)
      PROVE  handle[o] = "acknowledged"
  BY <1>1 DEF Settled, SameOpsBut
<1>2. ASSUME NEW p \in Ops, Send(p) PROVE handle[o] = "acknowledged"
  BY <1>2, SendEffect DEF SameOpsBut
<1>3. ASSUME NEW p \in Ops, Cancel(p) PROVE handle[o] = "acknowledged"
  BY <1>3, CancelEffect DEF SameOpsBut
<1>4. ASSUME NEW t \in TaskIds, Chunk(t) PROVE handle[o] = "acknowledged"
  <2>1. \/ handle' = handle
        \/ /\ \A p \in Ops : p # t => handle'[p] = handle[p]
           /\ t \in Ops => Settled(t, "failed")
    BY <1>4, ChunkEffect
  <2> QED
    BY <2>1 DEF Settled
<1>5. ASSUME NEW t \in TaskIds, Written(t) PROVE handle[o] = "acknowledged"
  <2>1. \/ handle' = handle
        \/ tasks[t].op \in Ops /\ SameOpsBut(tasks[t].op) /\ Settled(tasks[t].op, "sent")
    BY <1>5, WrittenEffect
  <2> QED
    BY <1>1, <2>1
<1>6. ASSUME NEW t \in TaskIds, NextOp(t) PROVE handle[o] = "acknowledged"
  <2> DEFINE p == Head(tasks[t].rest)
  <2>1. \/ handle' = handle
        \/ p \in Ops /\ SameOpsBut(p) /\ Settled(p, "failed")
    BY <1>6, NextOpEffect
  <2> QED
    BY <1>1, <2>1
<1>7. ASSUME ReceiveAck PROVE handle[o] = "acknowledged" \/ o = Head(ackWire)
  BY <1>7, ReceiveAckEffect DEF SameOpsBut
<1>8. ASSUME NEW w \in 1..Len(writes), WriteDone(w) PROVE handle[o] = "acknowledged"
  BY <1>8 DEF WriteDone
<1>9. CASE PollAckTimeouts \/ TransportLost \/ Resume \/ Close
  BY <1>9 DEF PollAckTimeouts, TransportLost, Resume, Close
<1>10. CASE Receive \/ AckWritten \/ AckFailed \/ PeerLost
  BY <1>10 DEF Receive, AckWritten, AckFailed, PeerLost, senderVars
<1>11. CASE UNCHANGED linkVars
  BY <1>11 DEF linkVars, senderVars
<1> QED
  BY <1>2, <1>3, <1>4, <1>5, <1>6, <1>7, <1>8, <1>9, <1>10, <1>11
  DEF LinkNext, Running

(* A message of the ordered mode goes to the application directly.         *)
LEMMA HeldOrdered ==
    ASSUME LinkTypeOK, HeldOnce, NEW o \in Ops, ~Acked(o),
           delivered' = Append(delivered, o),
           UNCHANGED <<scenario, handle, dedup, acks, ackWire>>
    PROVE  HeldOnce'
<1>1. /\ Len(delivered) \in Nat
      /\ Len(delivered') = Len(delivered) + 1
      /\ \A i \in 1..Len(delivered) : delivered'[i] = delivered[i]
      /\ delivered'[Len(delivered) + 1] = o
  BY AppendProperties, LenProperties DEF LinkTypeOK, ReceiverTypeOK
<1>2. \A i \in 1..Len(delivered') : i \in 1..Len(delivered) \/ i = Len(delivered) + 1
  BY <1>1
<1>3. \A p : Contains(delivered', p) <=> Contains(delivered, p) \/ p = o
  BY AppendElements DEF LinkTypeOK, ReceiverTypeOK
<1>4. /\ \A p : Held(p)' <=> Held(p) \/ p = o
      /\ \A p : Acked(p)' <=> Acked(p)
  BY <1>3 DEF Held, Acked, kind
<1>5. \A i \in 1..Len(acks'), j \in 1..Len(delivered') :
            acks'[i].deliver => acks'[i].op # delivered'[j]
  <2>1. \A i \in 1..Len(acks) : acks[i].op # o
    BY DEF HeldOnce
  <2> QED
    BY <1>1, <1>2, <2>1 DEF HeldOnce
<1>6. AckedAtMostOnce'
  <2> SUFFICES ASSUME NEW i \in 1..Len(delivered'), NEW j \in 1..Len(delivered'),
                      Acked(delivered[i])', delivered'[i] = delivered'[j]
               PROVE  i = j
    BY DEF AckedAtMostOnce
  <2>1. delivered'[i] # o
    BY <1>4
  <2>2. i \in 1..Len(delivered) /\ j \in 1..Len(delivered)
    BY <1>1, <1>2, <2>1
  <2> QED
    BY <1>1, <1>4, <2>2 DEF HeldOnce, AckedAtMostOnce
<1>7. /\ (\A i \in 1..Len(acks) : Held(acks[i].op) /\ Acked(acks[i].op))'
      /\ \A p \in dedup' : Held(p)'
      /\ (\A i \in 1..Len(ackWire) : Held(ackWire[i]))'
      /\ \A p \in Ops : handle'[p] = "acknowledged" => Held(p)'
      /\ \A p \in Ops : Acked(p)' /\ Held(p)' => p \in dedup'
  BY <1>4 DEF HeldOnce
<1> QED
  BY <1>5, <1>6, <1>7 DEF HeldOnce

(* A message of the acknowledged mode waits for its ACK, and is delivered  *)
(* after it only if it is the first with its MessageId.                    *)
LEMMA HeldAcked ==
    ASSUME LinkTypeOK, HeldOnce, NEW o \in Ops, Acked(o),
           dedup' = dedup \cup {o},
           acks' = Append(acks, [op |-> o, deliver |-> o \notin dedup]),
           UNCHANGED <<scenario, handle, delivered, ackWire>>
    PROVE  HeldOnce'
<1> DEFINE a == [op |-> o, deliver |-> o \notin dedup]
           n == Len(acks) + 1
<1>1. a \in Acks
  BY DEF Acks
<1>2. /\ Len(acks) \in Nat
      /\ Len(acks') = n
      /\ \A i \in 1..Len(acks) : acks'[i] = acks[i]
      /\ acks'[n] = a
  BY <1>1, AppendProperties, LenProperties DEF LinkTypeOK, ReceiverTypeOK
<1>3. /\ n \in 1..Len(acks')
      /\ \A i \in 1..Len(acks) : i \in 1..Len(acks')
      /\ \A i \in 1..Len(acks') : i \in 1..Len(acks) \/ i = n
  BY <1>2
<1>4. a.op = o /\ (a.deliver <=> o \notin dedup)
  OBVIOUS
<1> HIDE DEF a, n
<1>5. \A p : Acked(p)' <=> Acked(p)
  BY DEF Acked, kind
<1>6. ASSUME NEW p, Held(p) PROVE Held(p)'
  BY <1>2, <1>3, <1>6 DEF Held
<1>7. Held(o)'
  <2>1. CASE o \in dedup
    BY <1>6, <2>1 DEF HeldOnce
  <2>2. CASE o \notin dedup
    BY <1>2, <1>3, <1>4, <2>2 DEF Held
  <2> QED
    BY <2>1, <2>2
<1>8. \A p : Held(p)' => Held(p) \/ p = o
  BY <1>2, <1>3, <1>4 DEF Held
<1>9. (\A i \in 1..Len(acks) : Held(acks[i].op) /\ Acked(acks[i].op))'
  <2> SUFFICES ASSUME NEW i \in 1..Len(acks')
               PROVE  Held(acks[i].op)' /\ Acked(acks[i].op)'
    OBVIOUS
  <2>1. CASE i \in 1..Len(acks)
    <3>1. PICK p : p = acks[i].op /\ p = acks'[i].op
      BY <1>2, <2>1
    <3>2. Held(p)' /\ Acked(p)'
      BY <1>5, <1>6, <2>1, <3>1 DEF HeldOnce
    <3> QED
      BY <3>1, <3>2
  <2>2. CASE i = n
    BY <1>2, <1>4, <1>5, <1>7, <2>2
  <2> QED
    BY <1>3, <2>1, <2>2
<1>10. /\ \A p \in dedup' : Held(p)'
       /\ \A p \in Ops : handle'[p] = "acknowledged" => Held(p)'
       /\ \A p \in Ops : Acked(p)' /\ Held(p)' => p \in dedup'
  BY <1>5, <1>6, <1>7, <1>8 DEF HeldOnce
<1>11. (\A i \in 1..Len(ackWire) : Held(ackWire[i]))'
  <2> SUFFICES ASSUME NEW i \in 1..Len(ackWire') PROVE Held(ackWire[i])'
    OBVIOUS
  <2>1. PICK p : p = ackWire[i] /\ p = ackWire'[i]
    OBVIOUS
  <2>2. Held(p)'
    BY <1>6, <2>1 DEF HeldOnce
  <2> QED
    BY <2>1, <2>2
<1>12. o \notin dedup => ~Held(o)
  BY DEF HeldOnce
<1>13. /\ o \notin dedup => \A i \in 1..Len(acks) : ~(acks[i].deliver /\ acks[i].op = o)
       /\ o \notin dedup => \A j \in 1..Len(delivered) : delivered[j] # o
  BY <1>12 DEF Held, Contains
<1>14. \A i, j \in 1..Len(acks') :
            acks'[i].deliver /\ acks'[j].deliver /\ acks'[i].op = acks'[j].op => i = j
  <2> SUFFICES ASSUME NEW i \in 1..Len(acks'), NEW j \in 1..Len(acks'),
                      acks'[i].deliver, acks'[j].deliver, acks'[i].op = acks'[j].op
               PROVE  i = j
    OBVIOUS
  <2>1. CASE i \in 1..Len(acks) /\ j \in 1..Len(acks)
    BY <1>2, <2>1 DEF HeldOnce
  <2>2. CASE i = n /\ j \in 1..Len(acks)
    BY <1>2, <1>4, <1>13, <2>2
  <2>3. CASE j = n /\ i \in 1..Len(acks)
    BY <1>2, <1>4, <1>13, <2>3
  <2> QED
    BY <1>3, <2>1, <2>2, <2>3
<1>15. \A i \in 1..Len(acks'), j \in 1..Len(delivered') :
            acks'[i].deliver => acks'[i].op # delivered'[j]
  BY <1>2, <1>3, <1>4, <1>13 DEF HeldOnce
<1>16. AckedAtMostOnce'
  BY <1>5 DEF HeldOnce, AckedAtMostOnce
<1> QED
  BY <1>9, <1>10, <1>11, <1>14, <1>15, <1>16 DEF HeldOnce

(* Handing over the message of the first ACK turns waiting into delivered. *)
LEMMA HeldHandOver ==
    ASSUME LinkTypeOK, HeldOnce, acks # <<>>, HandOver,
           UNCHANGED <<scenario, handle, dedup>>,
           ackWire' = ackWire \/ ackWire' = Append(ackWire, Head(acks).op)
    PROVE  HeldOnce'
<1> DEFINE a == Head(acks)
<1>0. acks \in Seq(Acks) /\ delivered \in Seq(Ops) /\ ackWire \in Seq(Ops)
  BY DEF LinkTypeOK, ReceiverTypeOK
<1>1. /\ Len(acks) \in Nat /\ 1 \in 1..Len(acks)
      /\ a = acks[1] /\ a \in Acks
      /\ Len(acks') = Len(acks) - 1
      /\ \A i \in 1..(Len(acks) - 1) : acks'[i] = acks[i + 1]
  BY <1>0, HeadTailProperties, LenProperties DEF HandOver
<1>2. \A i \in 1..Len(acks') : i + 1 \in 1..Len(acks) /\ acks'[i] = acks[i + 1] /\ i \in Nat
  BY <1>1
<1>3. \A i \in 1..Len(acks) : i = 1 \/ (i - 1 \in 1..Len(acks') /\ acks'[i - 1] = acks[i])
  <2> SUFFICES ASSUME NEW i \in 1..Len(acks), i # 1
               PROVE  i - 1 \in 1..Len(acks') /\ acks'[i - 1] = acks[i]
    OBVIOUS
  <2>1. i - 1 \in 1..(Len(acks) - 1) /\ (i - 1) + 1 = i
    BY <1>1
  <2> QED
    BY <1>1, <2>1
<1>4. PICK o \in Ops : o = a.op
  BY <1>1 DEF Acks
<1>5. Held(o) /\ Acked(o)
  BY <1>1, <1>4 DEF HeldOnce
<1>6. /\ a.deliver => delivered' = Append(delivered, o)
      /\ ~a.deliver => delivered' = delivered
  BY <1>4 DEF HandOver
<1> HIDE DEF a
<1>7. \A p : Contains(delivered', p) <=> Contains(delivered, p) \/ (a.deliver /\ p = o)
  <2>1. \A p : Contains(Append(delivered, o), p) <=> Contains(delivered, p) \/ p = o
    BY <1>0, AppendElements
  <2> QED
    BY <1>6, <2>1
<1>8. \A p : Acked(p)' <=> Acked(p)
  BY DEF Acked, kind
<1>9. ASSUME NEW p PROVE Held(p)' <=> Held(p)
  <2>1. ASSUME Held(p) PROVE Held(p)'
    <3>1. CASE Contains(delivered, p)
      BY <1>7, <3>1 DEF Held
    <3>2. CASE \E i \in 1..Len(acks) : acks[i].op = p /\ acks[i].deliver
      <4>1. PICK i \in 1..Len(acks) : acks[i].op = p /\ acks[i].deliver
        BY <3>2
      <4>2. CASE i = 1
        BY <1>1, <1>4, <1>7, <4>1, <4>2 DEF Held
      <4>3. CASE i # 1
        BY <1>3, <4>1, <4>3 DEF Held
      <4> QED
        BY <4>2, <4>3
    <3> QED
      BY <2>1, <3>1, <3>2 DEF Held
  <2>2. ASSUME Held(p)' PROVE Held(p)
    <3>1. CASE Contains(delivered', p)
      BY <1>1, <1>4, <1>7, <3>1 DEF Held
    <3>2. CASE \E i \in 1..Len(acks') : acks'[i].op = p /\ acks'[i].deliver
      BY <1>2, <3>2 DEF Held
    <3> QED
      BY <2>2, <3>1, <3>2 DEF Held
  <2> QED
    BY <2>1, <2>2
<1>10. (\A i \in 1..Len(acks) : Held(acks[i].op) /\ Acked(acks[i].op))'
  <2> SUFFICES ASSUME NEW i \in 1..Len(acks')
               PROVE  Held(acks[i].op)' /\ Acked(acks[i].op)'
    OBVIOUS
  <2>1. PICK p : p = acks'[i].op /\ p = acks[i + 1].op
    BY <1>2
  <2>2. Held(p)' /\ Acked(p)'
    BY <1>2, <1>8, <1>9, <2>1 DEF HeldOnce
  <2> QED
    BY <2>1, <2>2
<1>11. /\ \A p \in dedup' : Held(p)'
       /\ \A p \in Ops : handle'[p] = "acknowledged" => Held(p)'
       /\ \A p \in Ops : Acked(p)' /\ Held(p)' => p \in dedup'
  BY <1>8, <1>9 DEF HeldOnce
<1>12. (\A i \in 1..Len(ackWire) : Held(ackWire[i]))'
  <2> SUFFICES ASSUME NEW i \in 1..Len(ackWire') PROVE Held(ackWire[i])'
    OBVIOUS
  <2>1. /\ Len(ackWire) \in Nat
        /\ Len(Append(ackWire, o)) = Len(ackWire) + 1
        /\ \A j \in 1..Len(ackWire) : Append(ackWire, o)[j] = ackWire[j]
        /\ Append(ackWire, o)[Len(ackWire) + 1] = o
    BY <1>0, AppendProperties, LenProperties
  <2>2. PICK p : p = ackWire'[i]
    OBVIOUS
  <2>3. Held(p)
    <3>1. CASE ackWire' = ackWire
      BY <2>2, <3>1 DEF HeldOnce
    <3>2. CASE ackWire' = Append(ackWire, o)
      <4>1. i \in 1..Len(ackWire) \/ i = Len(ackWire) + 1
        BY <2>1, <3>2
      <4> QED
        BY <1>5, <2>1, <2>2, <3>2, <4>1 DEF HeldOnce
    <3> QED
      BY <1>4, <3>1, <3>2 DEF a
  <2>4. Held(p)'
    BY <1>9, <2>3
  <2> QED
    BY <2>2, <2>4
<1>13. \A i, j \in 1..Len(acks') :
            acks'[i].deliver /\ acks'[j].deliver /\ acks'[i].op = acks'[j].op => i = j
  <2> SUFFICES ASSUME NEW i \in 1..Len(acks'), NEW j \in 1..Len(acks'),
                      acks'[i].deliver, acks'[j].deliver, acks'[i].op = acks'[j].op
               PROVE  i = j
    OBVIOUS
  <2>1. i + 1 = j + 1
    BY <1>2 DEF HeldOnce
  <2> QED
    BY <1>2, <2>1
<1>14. /\ Len(delivered) \in Nat
       /\ a.deliver =>
            /\ Len(delivered') = Len(delivered) + 1
            /\ \A i \in 1..Len(delivered) : delivered'[i] = delivered[i]
            /\ delivered'[Len(delivered) + 1] = o
  BY <1>0, <1>6, AppendProperties, LenProperties
<1>15. a.deliver => \A j \in 1..Len(delivered) : delivered[j] # o
  BY <1>1, <1>4 DEF HeldOnce
<1>16. \A i \in 1..Len(acks'), j \in 1..Len(delivered') :
            acks'[i].deliver => acks'[i].op # delivered'[j]
  <2> SUFFICES ASSUME NEW i \in 1..Len(acks'), NEW j \in 1..Len(delivered'),
                      acks'[i].deliver
               PROVE  acks'[i].op # delivered'[j]
    OBVIOUS
  <2>1. acks[i + 1].deliver /\ acks[i + 1] = acks'[i] /\ i + 1 \in 1..Len(acks)
    BY <1>2
  <2>2. CASE j \in 1..Len(delivered)
    <3>1. delivered'[j] = delivered[j]
      BY <1>6, <1>14, <2>2
    <3> QED
      BY <2>1, <2>2, <3>1 DEF HeldOnce
  <2>3. CASE j \notin 1..Len(delivered)
    <3>1. a.deliver /\ j = Len(delivered) + 1
      BY <1>6, <1>14, <2>3
    <3>2. i + 1 # 1
      BY <1>2
    <3>3. acks[i + 1].op # o
      BY <1>1, <1>4, <2>1, <3>1, <3>2 DEF HeldOnce
    <3> QED
      BY <1>14, <2>1, <3>1, <3>3
  <2> QED
    BY <2>2, <2>3
<1>17. AckedAtMostOnce'
  <2> SUFFICES ASSUME NEW i \in 1..Len(delivered'), NEW j \in 1..Len(delivered'),
                      Acked(delivered[i])', delivered'[i] = delivered'[j]
               PROVE  i = j
    BY DEF AckedAtMostOnce
  <2>0. Acked(delivered'[i])
    <3>1. PICK p : p = delivered'[i]
      OBVIOUS
    <3> QED
      BY <1>8, <3>1
  <2>1. CASE ~a.deliver
    BY <1>6, <2>0, <2>1 DEF HeldOnce, AckedAtMostOnce
  <2>2. CASE a.deliver
    <3>1. \A k \in 1..Len(delivered') : k \in 1..Len(delivered) \/ k = Len(delivered) + 1
      BY <1>14, <2>2
    <3> QED
      BY <1>14, <1>15, <2>0, <2>2, <3>1 DEF HeldOnce, AckedAtMostOnce
  <2> QED
    BY <2>1, <2>2
<1> QED
  BY <1>10, <1>11, <1>12, <1>13, <1>16, <1>17 DEF HeldOnce

(* What is acknowledged is held, and what is held is held once, after      *)
(* every step.                                                             *)
LEMMA HeldStep ==
    ASSUME LinkTypeOK, Distinct(retained), HeldOnce, [LinkNext]_linkVars
    PROVE  HeldOnce'
<1>1. CASE Receive
  <2> DEFINE f == Head(wire)
  <2>0. f \in DataFrames
    BY <1>1, HeadTailProperties DEF Receive, LinkTypeOK, ReceiverTypeOK
  <2>1. f.op \in Ops
    BY <2>0 DEF DataFrames
  <2>2. UNCHANGED <<scenario, handle, ackWire>>
    BY <1>1 DEF Receive, senderVars
  <2>3. CASE UNCHANGED <<dedup, acks, delivered>>
    BY <2>2, <2>3, HeldUntouched DEF HeldOnce
  <2>4. CASE /\ ~Acked(f.op)
             /\ delivered' = Append(delivered, f.op)
             /\ UNCHANGED <<dedup, acks>>
    BY <2>1, <2>2, <2>4, HeldOrdered
  <2>5. CASE /\ Acked(f.op)
             /\ dedup' = dedup \cup {f.op}
             /\ acks' = Append(acks, [op |-> f.op, deliver |-> FirstCompletion(f.op)])
             /\ UNCHANGED delivered
    BY <2>1, <2>2, <2>5, HeldAcked DEF FirstCompletion
  <2> QED
    BY <1>1, <2>3, <2>4, <2>5 DEF Receive
<1>2. CASE AckWritten
  BY <1>2, HeldHandOver DEF AckWritten, senderVars
<1>3. CASE AckFailed
  BY <1>3, HeldHandOver DEF AckFailed, AcksFailing, senderVars
<1>4. ASSUME UNCHANGED <<scenario, acks, dedup, delivered>>,
             ackWire' \in {ackWire, <<>>} \/ (ackWire # <<>> /\ ackWire' = Tail(ackWire))
      PROVE  HeldOnce'
  <2>1. \A i \in 1..Len(ackWire') : Held(ackWire'[i])
    <3>1. CASE ackWire' = ackWire
      BY <3>1 DEF HeldOnce
    <3>2. CASE ackWire' = <<>>
      BY <3>2
    <3>3. CASE ackWire # <<>> /\ ackWire' = Tail(ackWire)
      <4>1. \A i \in 1..Len(ackWire') : Contains(ackWire, ackWire'[i])
        BY <3>3, TailContains DEF LinkTypeOK, ReceiverTypeOK
      <4> QED
        BY <4>1 DEF Contains, HeldOnce
    <3> QED
      BY <1>4, <3>1, <3>2, <3>3
  <2>2. \A o \in Ops : handle'[o] = "acknowledged" => handle[o] = "acknowledged" \/ Held(o)
    <3> SUFFICES ASSUME NEW o \in Ops, handle'[o] = "acknowledged", handle[o] # "acknowledged"
                 PROVE  Held(o)
      OBVIOUS
    <3>1. ReceiveAck /\ o = Head(ackWire)
      BY AcknowledgedByAck
    <3>2. ackWire \in Seq(Ops) /\ ackWire # <<>>
      BY <3>1 DEF ReceiveAck, LinkTypeOK, ReceiverTypeOK
    <3>3. Contains(ackWire, o)
      BY <3>1, <3>2, TailContains
    <3> QED
      BY <3>3 DEF Contains, HeldOnce
  <2> QED
    BY <1>4, <2>1, <2>2, HeldUntouched
<1>5. ASSUME NEW o \in Ops, Send(o) \/ Cancel(o) PROVE HeldOnce'
  BY <1>4, <1>5 DEF Send, Cancel, receiverVars
<1>6. ASSUME NEW t \in TaskIds, Chunk(t) \/ Written(t) \/ NextOp(t) PROVE HeldOnce'
  BY <1>4, <1>6 DEF Chunk, Written, NextOp, receiverVars
<1>7. ASSUME NEW w \in 1..Len(writes), WriteDone(w) PROVE HeldOnce'
  BY <1>4, <1>7 DEF WriteDone, receiverVars
<1>8. CASE PollAckTimeouts \/ ReceiveAck
  BY <1>4, <1>8 DEF PollAckTimeouts, ReceiveAck, receiverVars
<1>9. CASE TransportLost \/ Resume \/ Close
  BY <1>4, <1>9 DEF TransportLost, Resume, Close, receiverVars
<1>10. CASE PeerLost
  BY <1>4, <1>10 DEF PeerLost
<1>11. CASE UNCHANGED linkVars
  BY <1>4, <1>11 DEF linkVars, senderVars, receiverVars
<1> QED
  BY <1>1, <1>2, <1>3, <1>5, <1>6, <1>7, <1>8, <1>9, <1>10, <1>11 DEF LinkNext, Running

-----------------------------------------------------------------------------
(* Silence                                                                 *)

(* An operation about which a step says nothing keeps its facts when it is *)
(* not newly transmitted, replayed or retained.                            *)
SilentAbout(o) ==
    /\ Contains(retained, o) => handle[o] = "transmitting"
    /\ (ToReplay(o) \/ \E t \in TaskIds : Transmitting(t, o)) =>
          o \in cancelled \/ handle[o] \in {"transmitting", "acknowledged"}

(* The facts about all operations are the facts about each.                *)
LEMMA SilentParts == EndsAreSilent <=> (fulls = 0 => \A o \in Ops : SilentAbout(o))
  BY DEF EndsAreSilent, SilentAbout

(* Ending the transmission of an operation, or forgetting it, is harmless. *)
LEMMA SilentKept ==
    ASSUME NEW o \in Ops, SilentAbout(o),
           handle'[o] = handle[o],
           cancelled' = cancelled,
           Contains(retained', o) => Contains(retained, o),
           ToReplay(o)' => ToReplay(o),
           \A t \in TaskIds : Transmitting(t, o)' => Transmitting(t, o)
    PROVE  SilentAbout(o)'
  BY DEF SilentAbout

(* While no queue was full, what is retained or transmitted is under way,  *)
(* after every step.                                                       *)
LEMMA SilentStep ==
    ASSUME LinkTypeOK, LinkTypeOK', RetentionExact, TransmitterExact, EndsAreSilent,
           [LinkNext]_linkVars
    PROVE  EndsAreSilent'
<1>0. /\ Distinct(retained)
      /\ fulls \in Nat
      /\ fulls = 0 => \A p \in Ops : SilentAbout(p)
  BY SilentParts DEF RetentionExact, LinkTypeOK, SenderTypeOK
<1>s. (fulls' = 0 => \A p \in Ops : SilentAbout(p)') => EndsAreSilent'
  BY DEF EndsAreSilent, SilentAbout
(* Steps that neither start a transmission nor end a handle.               *)
<1>k. ASSUME UNCHANGED <<handle, cancelled, fulls, retained>>,
             \A p \in Ops : ToReplay(p)' => ToReplay(p),
             \A p \in Ops, u \in TaskIds : Transmitting(u, p)' => Transmitting(u, p)
      PROVE  EndsAreSilent'
  BY <1>0, <1>s, <1>k, SilentKept
<1>1. ASSUME NEW o \in Ops, Send(o) PROVE EndsAreSilent'
  <2>1. /\ handle'[o] = "transmitting" /\ SameOpsBut(o) /\ SameTasksBut(o)
        /\ \A x : Contains(retained', x) <=> Contains(retained, x) \/ x = o
        /\ tasks'[o].pc = "chunk" /\ tasks'[o].op = o /\ tasks'[o].rest = <<>>
        /\ UNCHANGED <<cancelled, fulls>>
    BY <1>1, SendEffect
  <2>2. \A p \in Ops : ToReplay(p)' => ToReplay(p)
    BY <2>1, TaskNames DEF ToReplay, SameTasksBut
  <2>3. \A p \in Ops, u \in TaskIds : p # o /\ Transmitting(u, p)' => Transmitting(u, p)
    BY <2>1 DEF Transmitting, SameTasksBut
  <2>4. \A p \in Ops : p # o /\ SilentAbout(p) => SilentAbout(p)'
    BY <2>1, <2>2, <2>3, SilentKept DEF SameOpsBut
  <2>5. SilentAbout(o)'
    BY <2>1 DEF SilentAbout
  <2> QED
    BY <1>0, <1>s, <2>1, <2>4, <2>5
<1>2. ASSUME NEW o \in Ops, Cancel(o) PROVE EndsAreSilent'
  <2>1. /\ handle[o] = "transmitting" /\ SameOpsBut(o) /\ Gone(o)
        /\ UNCHANGED <<tasks, fulls>>
    BY <1>0, <1>2, CancelEffect
  <2>2. Contains(retained, o)
    BY <2>1 DEF RetentionExact
  <2>3. cancelled' = cancelled \cup {o}
    BY <1>0, <1>2, <2>2, CancelEffect
  <2>4. \A p \in Ops : ToReplay(p)' => ToReplay(p)
    BY <2>1 DEF ToReplay
  <2>5. \A p \in Ops, u \in TaskIds : Transmitting(u, p)' => Transmitting(u, p)
    BY <2>1 DEF Transmitting
  <2>6. \A p \in Ops : p # o /\ SilentAbout(p) => SilentAbout(p)'
    BY <2>1, <2>3, <2>4, <2>5 DEF SameOpsBut, SilentAbout, Gone
  <2>7. SilentAbout(o)'
    BY <2>1, <2>3 DEF SilentAbout, Gone
  <2> QED
    BY <1>0, <1>s, <2>1, <2>6, <2>7
<1>3. ASSUME NEW t \in TaskIds, Chunk(t) PROVE EndsAreSilent'
  <2>1. /\ tasks[t].pc = "chunk" /\ tasks[t].op \in Ops /\ SameTasksBut(t)
        /\ UNCHANGED <<retained, cancelled>>
        /\ tasks'[t].rest = tasks[t].rest \/ tasks'[t] = Idle
        /\ \/ tasks'[t].pc = "next"
           \/ tasks'[t] = Idle
           \/ tasks'[t].pc = "writing" /\ tasks'[t].op = tasks[t].op
    BY <1>3, ChunkEffect
  <2>2. \A p \in Ops, u \in TaskIds : Transmitting(u, p)' => Transmitting(u, p)
    BY <2>1 DEF Transmitting, SameTasksBut, Idle
  <2>3. \A p \in Ops : ToReplay(p)' => ToReplay(p)
    <3>1. \/ tasks'[Replay].rest = tasks[Replay].rest
          \/ tasks'[Replay].rest = <<>>
      BY <2>1, TaskNames DEF SameTasksBut, Idle
    <3> QED
      BY <3>1 DEF ToReplay, Contains
  <2>4. fulls' = fulls => UNCHANGED handle
    <3>1. CASE core # "ready" /\ tasks'[t] = Idle
      <4>1. t \notin Ops
        BY <2>1, <3>1 DEF TransmitterExact
      <4>2. handle \in [Ops -> Handles] /\ handle' \in [Ops -> Handles]
        BY DEF LinkTypeOK, SenderTypeOK
      <4>3. \A p \in Ops : handle'[p] = handle[p]
        BY <1>3, <3>1, <4>1, ChunkEffect
      <4> QED
        BY <4>2, <4>3
    <3>2. CASE ~(core # "ready" /\ tasks'[t] = Idle)
      <4>1. fulls' = fulls + 1 \/ UNCHANGED handle
        BY <1>3, <3>2, ChunkEffect
      <4> QED
        BY <1>0, <4>1
    <3> QED
      BY <3>1, <3>2
  <2>5. fulls' = fulls \/ fulls' = fulls + 1
    BY <1>3, ChunkEffect
  <2>6. CASE fulls' = fulls
    BY <1>k, <2>1, <2>2, <2>3, <2>4, <2>6
  <2>7. CASE fulls' = fulls + 1
    BY <1>0, <1>s, <2>7
  <2> QED
    BY <2>5, <2>6, <2>7
<1>4. ASSUME NEW t \in TaskIds, Written(t) PROVE EndsAreSilent'
  <2>0. PICK o : o = tasks[t].op
    OBVIOUS
  <2>1. /\ tasks[t].pc = "written" /\ o \in Ops /\ SameTasksBut(t)
        /\ UNCHANGED <<cancelled, fulls>>
        /\ tasks'[t].rest = tasks[t].rest
        /\ \/ tasks'[t].pc = "next"
           \/ tasks'[t].pc = "chunk" /\ tasks'[t].op = o
    BY <1>0, <1>4, <2>0, WrittenEffect
  <2>2. \A p \in Ops, u \in TaskIds : Transmitting(u, p)' => Transmitting(u, p)
    BY <2>0, <2>1 DEF Transmitting, SameTasksBut
  <2>3. \A p \in Ops : ToReplay(p)' => ToReplay(p)
    BY <2>1, TaskNames DEF ToReplay, SameTasksBut
  <2>4. CASE UNCHANGED <<retained, handle>>
    BY <1>k, <2>1, <2>2, <2>3, <2>4
  <2>5. CASE tasks'[t].pc = "next" /\ SameOpsBut(o) /\ Gone(o)
    <3>1. \A p \in Ops : p # o /\ SilentAbout(p) => SilentAbout(p)'
      BY <2>1, <2>2, <2>3, <2>5, SilentKept DEF SameOpsBut, Gone
    <3>2. Transmitting(t, o)
      BY <2>0, <2>1 DEF Transmitting
    <3>3. ~ToReplay(o) /\ \A u \in TaskIds : Transmitting(u, o) => u = t
      BY <2>1, <3>2 DEF TransmitterExact, OneTransmitter
    <3>4. ~ToReplay(o)' /\ \A u \in TaskIds : ~Transmitting(u, o)'
      BY <2>1, <2>2, <2>3, <2>5, <3>3 DEF Transmitting
    <3>5. SilentAbout(o)'
      BY <2>5, <3>4 DEF SilentAbout, Gone
    <3> QED
      BY <1>0, <1>s, <2>1, <3>1, <3>5
  <2> QED
    BY <1>0, <1>4, <2>0, <2>4, <2>5, WrittenEffect
<1>5. ASSUME NEW t \in TaskIds, NextOp(t) PROVE EndsAreSilent'
  <2> DEFINE rest == tasks[t].rest
  <2>1. /\ tasks[t].pc = "next" /\ SameTasksBut(t)
        /\ UNCHANGED <<cancelled, fulls>>
    BY <1>0, <1>5, NextOpEffect
  <2>2. CASE tasks'[t] = Idle /\ UNCHANGED <<retained, handle>>
    <3>1. \A p \in Ops, u \in TaskIds : Transmitting(u, p)' => Transmitting(u, p)
      BY <2>1, <2>2 DEF Transmitting, SameTasksBut, Idle
    <3>2. \/ tasks'[Replay].rest = tasks[Replay].rest
          \/ tasks'[Replay].rest = <<>>
      BY <2>1, <2>2, TaskNames DEF SameTasksBut, Idle
    <3>3. \A p \in Ops : ToReplay(p)' => ToReplay(p)
      BY <3>2 DEF ToReplay, Contains
    <3> QED
      BY <1>k, <2>1, <2>2, <3>1, <3>3
  <2>3. CASE /\ rest # <<>> /\ Head(rest) \in Ops
             /\ tasks'[t].rest = Tail(rest) /\ tasks'[t] # Idle
    <3>0. PICK o \in Ops : o = Head(rest)
      BY <2>3
    <3>1. (t = Poll \/ t = Replay) /\ t \notin Ops
      BY <2>3, TaskNames DEF TransmitterExact
    <3>2. rest \in Seq(Ops)
      BY DEF LinkTypeOK, SenderTypeOK, TasksOK, Tasks
    <3>3. Contains(rest, o)
      BY <2>3, <3>0, <3>2, TailContains
    <3>4. \A p \in Ops : ToReplay(p)' => ToReplay(p) /\ (t = Replay => p # o)
      <4>1. CASE t = Replay
        <5>1. Distinct(rest)
          BY <4>1 DEF TransmitterExact
        <5>2. \A x : Contains(Tail(rest), x) <=> Contains(rest, x) /\ x # Head(rest)
          BY <2>3, <3>2, <5>1, TailElements
        <5> QED
          BY <2>3, <3>0, <4>1, <5>2 DEF ToReplay
      <4>2. CASE t # Replay
        BY <2>1, <4>2, TaskNames DEF ToReplay, SameTasksBut
      <4> QED
        BY <4>1, <4>2
    (* What the poll takes up has a running deadline, what the replay takes*)
    (* up was waiting for it: nobody else transmits it.                    *)
    <3>5. ASSUME ~Skipped(t, o), t = Poll => Acked(o)
          PROVE  /\ ~ToReplay(o)'
                 /\ \A u \in TaskIds : ~Transmitting(u, o)
                 /\ t = Poll => entries[o].armed
                 /\ t = Replay => ToReplay(o)
      <4>1. CASE t = Poll
        <5>1. entries[o].armed
          BY <3>5, <4>1 DEF Skipped, Due
        <5>2. ~ToReplay(o) /\ \A u \in TaskIds : ~Transmitting(u, o)
          BY <5>1 DEF TransmitterExact
        <5> QED
          BY <3>4, <4>1, <5>1, <5>2, TaskNames
      <4>2. CASE t = Replay
        <5>1. ToReplay(o)
          BY <3>3, <4>2 DEF ToReplay
        <5>2. \A u \in TaskIds : ~Transmitting(u, o)
          BY <5>1 DEF TransmitterExact
        <5> QED
          BY <3>4, <4>2, <5>1, <5>2, TaskNames
      <4> QED
        BY <3>1, <4>1, <4>2
    <3>6. CASE tasks'[t].pc = "next" /\ UNCHANGED <<retained, entries, handle>>
      <4>1. \A p \in Ops, u \in TaskIds : Transmitting(u, p)' => Transmitting(u, p)
        BY <2>1, <3>6 DEF Transmitting, SameTasksBut
      <4> QED
        BY <1>k, <2>1, <3>4, <3>6, <4>1
    <3>7. CASE /\ ~Skipped(t, o) /\ Acked(o) /\ tasks'[t].pc = "next"
               /\ SameOpsBut(o) /\ Gone(o)
      <4>1. \A p \in Ops, u \in TaskIds : Transmitting(u, p)' => Transmitting(u, p)
        BY <2>1, <3>7 DEF Transmitting, SameTasksBut
      <4>2. \A p \in Ops : p # o /\ SilentAbout(p) => SilentAbout(p)'
        BY <2>1, <3>4, <3>7, <4>1, SilentKept DEF SameOpsBut, Gone
      <4>3. ~ToReplay(o)' /\ \A u \in TaskIds : ~Transmitting(u, o)'
        BY <3>5, <3>7, <4>1
      <4>4. SilentAbout(o)'
        BY <3>7, <4>3 DEF SilentAbout, Gone
      <4> QED
        BY <1>0, <1>s, <2>1, <4>2, <4>4
    <3>8. CASE /\ ~Skipped(t, o)
               /\ tasks'[t].pc = "chunk" /\ tasks'[t].op = o
               /\ UNCHANGED <<retained, handle>>
      <4>1. \A p \in Ops, u \in TaskIds :
                p # o /\ Transmitting(u, p)' => Transmitting(u, p)
        BY <2>1, <3>8 DEF Transmitting, SameTasksBut
      <4>2. \A p \in Ops : p # o /\ SilentAbout(p) => SilentAbout(p)'
        BY <2>1, <3>4, <3>8, <4>1, SilentKept
      <4>3. t = Poll => Acked(o)
        BY <3>3 DEF TransmitterExact, Contains
      <4>4. t = Poll => Contains(retained, o)
        BY <3>5, <3>8, <4>3 DEF RetentionExact
      <4>5. SilentAbout(o) =>
                /\ Contains(retained', o) => handle'[o] = "transmitting"
                /\ o \in cancelled' \/ handle'[o] \in {"transmitting", "acknowledged"}
        BY <2>1, <3>1, <3>5, <3>8, <4>3, <4>4 DEF SilentAbout
      <4>6. SilentAbout(o) => SilentAbout(o)'
        BY <4>5 DEF SilentAbout
      <4> QED
        BY <1>0, <1>s, <2>1, <4>2, <4>6
    <3> QED
      BY <1>0, <1>5, <2>3, <3>0, <3>6, <3>7, <3>8, NextOpEffect
  <2>4. tasks'[t].pc \in {"next", "chunk"} => tasks'[t] # Idle
    BY DEF Idle
  <2> QED
    BY <1>0, <1>5, <2>2, <2>3, <2>4, NextOpEffect
<1>6. ASSUME NEW w \in 1..Len(writes), WriteDone(w) PROVE EndsAreSilent'
  <2>1. /\ UNCHANGED <<retained, cancelled, handle, fulls>>
        /\ \A u \in TaskIds :
              \/ tasks'[u] = tasks[u]
              \/ /\ tasks[u].pc = "writing" /\ tasks'[u].pc = "written"
                 /\ tasks'[u].op = tasks[u].op /\ tasks'[u].rest = tasks[u].rest
    BY <1>6, WriteDoneEffect
  <2>2. \A p \in Ops, u \in TaskIds : Transmitting(u, p)' => Transmitting(u, p)
    BY <2>1 DEF Transmitting
  <2>3. \A p \in Ops : ToReplay(p)' => ToReplay(p)
    BY <2>1, TaskNames DEF ToReplay
  <2> QED
    BY <1>k, <2>1, <2>2, <2>3
<1>7. ASSUME PollAckTimeouts PROVE EndsAreSilent'
  <2>1. /\ SameTasksBut(Poll) /\ tasks'[Poll].pc = "next"
        /\ UNCHANGED <<retained, cancelled, handle, fulls>>
    BY <1>7, PollEffect
  <2>2. \A p \in Ops, u \in TaskIds : Transmitting(u, p)' => Transmitting(u, p)
    BY <2>1 DEF Transmitting, SameTasksBut
  <2>3. \A p \in Ops : ToReplay(p)' => ToReplay(p)
    BY <2>1, TaskNames DEF ToReplay, SameTasksBut
  <2> QED
    BY <1>k, <2>1, <2>2, <2>3
<1>8. ASSUME ReceiveAck PROVE EndsAreSilent'
  <2>1. Head(ackWire) \in Ops /\ UNCHANGED <<cancelled, tasks, fulls>>
    BY <1>0, <1>8, ReceiveAckEffect
  <2>2. PICK o \in Ops : o = Head(ackWire)
    BY <2>1
  <2>3. /\ \A p \in Ops, u \in TaskIds : Transmitting(u, p)' => Transmitting(u, p)
        /\ \A p \in Ops : ToReplay(p)' => ToReplay(p)
    BY <2>1 DEF Transmitting, ToReplay
  <2>4. CASE UNCHANGED <<retained, entries, handle>>
    BY <1>k, <2>1, <2>3, <2>4
  <2>5. CASE /\ entries[o].state # "none"
             /\ SameOpsBut(o) /\ Settled(o, "acknowledged") /\ Gone(o)
    <3>1. Contains(retained, o)
      BY <2>5 DEF RetentionExact
    <3>2. \A p \in Ops : p # o /\ SilentAbout(p) => SilentAbout(p)'
      BY <2>1, <2>3, <2>5, SilentKept DEF SameOpsBut, Gone
    <3>3. SilentAbout(o) => handle'[o] = "acknowledged"
      BY <2>5, <3>1 DEF SilentAbout, Settled, Terminal
    <3>4. SilentAbout(o) => SilentAbout(o)'
      BY <2>5, <3>3 DEF SilentAbout, Gone
    <3> QED
      BY <1>0, <1>s, <2>1, <3>2, <3>4
  <2> QED
    BY <1>0, <1>8, <2>2, <2>4, <2>5, ReceiveAckEffect
<1>9. CASE TransportLost \/ Close
  <2>1. Quiet /\ Interrupt /\ UNCHANGED <<retained, cancelled, handle, fulls>>
    BY <1>9 DEF TransportLost, Close
  <2>2. \A u \in TaskIds : /\ tasks'[u].pc \in {"idle", "next"}
                           /\ tasks'[u].rest = tasks[u].rest
    BY <2>1, QuietTasks, InterruptEffect
  <2>3. \A p \in Ops, u \in TaskIds : Transmitting(u, p)' => Transmitting(u, p)
    BY <2>2 DEF Transmitting
  <2>4. \A p \in Ops : ToReplay(p)' => ToReplay(p)
    BY <2>2, TaskNames DEF ToReplay
  <2> QED
    BY <1>k, <2>1, <2>3, <2>4
<1>10. ASSUME Resume PROVE EndsAreSilent'
  <2>1. /\ SameTasksBut(Replay) /\ tasks'[Replay].pc = "next"
        /\ tasks'[Replay].rest = retained
        /\ UNCHANGED <<retained, cancelled, handle, fulls>>
    BY <1>10, ResumeEffect
  <2>2. \A p \in Ops, u \in TaskIds : Transmitting(u, p)' => Transmitting(u, p)
    BY <2>1 DEF Transmitting, SameTasksBut
  <2>3. \A p \in Ops : ToReplay(p)' => Contains(retained, p)
    BY <2>1 DEF ToReplay
  <2>4. \A p \in Ops : SilentAbout(p) => SilentAbout(p)'
    BY <2>1, <2>2, <2>3 DEF SilentAbout
  <2> QED
    BY <1>0, <1>s, <2>1, <2>4
<1>11. CASE Receive \/ AckWritten \/ AckFailed \/ PeerLost
  <2>1. UNCHANGED <<retained, cancelled, handle, fulls, tasks>>
    BY <1>11 DEF Receive, AckWritten, AckFailed, PeerLost, senderVars
  <2> QED
    BY <1>k, <2>1 DEF Transmitting, ToReplay
<1>12. CASE UNCHANGED linkVars
  <2>1. UNCHANGED <<retained, cancelled, handle, fulls, tasks>>
    BY <1>12 DEF linkVars, senderVars
  <2> QED
    BY <1>k, <2>1 DEF Transmitting, ToReplay
<1> QED
  BY <1>1, <1>2, <1>3, <1>4, <1>5, <1>6, <1>7, <1>8, <1>9, <1>10, <1>11, <1>12
  DEF LinkNext, Running

-----------------------------------------------------------------------------
(* The theorems                                                            *)

LinkInvariant ==
    /\ LinkTypeOK
    /\ RetentionExact
    /\ TransmitterExact
    /\ DeadlineConnected
    /\ PrefixSubmitted
    /\ OneGeneration
    /\ HeldOnce
    /\ EndsAreSilent

(* The invariant holds in the initial states.                              *)
LEMMA LinkInvariantInit == LinkInit => LinkInvariant
<1> SUFFICES ASSUME LinkInit PROVE LinkInvariant
  OBVIOUS
<1>1. LinkTypeOK /\ RetentionExact
  BY LinkTypeInit, RetentionInit
<1>2. /\ \A t \in TaskIds : tasks[t] = Idle
      /\ \A o \in Ops : ~entries[o].armed
      /\ \A o \in Ops : handle[o] = "unsent"
      /\ \A o \in Ops : partial[o] = {}
      /\ writes = <<>> /\ wire = <<>> /\ acks = <<>> /\ ackWire = <<>>
      /\ delivered = <<>> /\ retained = <<>> /\ dedup = {} /\ peer = "ready"
  BY DEF LinkInit, ContractInit, NoEntry
<1>3. /\ \A t \in TaskIds : tasks[t].pc = "idle" /\ tasks[t].rest = <<>>
      /\ \A t \in TaskIds, o \in Ops : ~Transmitting(t, o) /\ ~Sending(t)
      /\ \A o : ~ToReplay(o)
  BY <1>2, TaskNames DEF Idle, Transmitting, Sending, ToReplay, Contains
<1>4. TransmitterExact
  BY <1>2, <1>3, TaskNames DEF TransmitterExact, OneTransmitter, Distinct
<1>5. DeadlineConnected /\ PrefixSubmitted
  BY <1>2, <1>3 DEF DeadlineConnected, PrefixSubmitted, AttemptSubmitted, Sending
<1>6. OneGeneration
  BY <1>2 DEF OneGeneration
<1>7. \A o : ~Held(o)
  BY <1>2 DEF Held, Contains
<1>8. HeldOnce
  BY <1>2, <1>7 DEF HeldOnce, AckedAtMostOnce
<1>9. EndsAreSilent
  BY <1>2, <1>3 DEF EndsAreSilent, Contains
<1> QED
  BY <1>1, <1>4, <1>5, <1>6, <1>8, <1>9 DEF LinkInvariant

(* Every step preserves it.                                                *)
LEMMA LinkInvariantStep == LinkInvariant /\ [LinkNext]_linkVars => LinkInvariant'
<1> SUFFICES ASSUME LinkInvariant, [LinkNext]_linkVars PROVE LinkInvariant'
  OBVIOUS
<1> USE DEF LinkInvariant
<1>1. Distinct(retained)
  BY DEF RetentionExact
<1>2. LinkTypeOK'
  BY <1>1, SenderTypeStep, ReceiverTypeStep DEF LinkTypeOK
<1>3. RetentionExact'
  BY RetentionStep
<1>4. TransmitterExact'
  BY TransmitterStep
<1>5. DeadlineConnected'
  BY DeadlineConnectedStep
<1>6. PrefixSubmitted'
  BY <1>2, PrefixStep
<1>7. OneGeneration'
  BY GenerationStep
<1>8. HeldOnce'
  BY <1>1, HeldStep
<1>9. EndsAreSilent'
  BY <1>2, SilentStep
<1> QED
  BY <1>2, <1>3, <1>4, <1>5, <1>6, <1>7, <1>8, <1>9

(* All behaviours satisfy the inductive invariant.                         *)
THEOREM LinkCorrect == LinkSpec => []LinkInvariant
  BY LinkInvariantInit, LinkInvariantStep, PTL DEF LinkSpec

(* An acknowledged message is delivered at most once, however often it is  *)
(* retransmitted by the timer and after RESUME.                            *)
THEOREM AcknowledgedDeliveredOnce == LinkSpec => []AckedAtMostOnce
<1>1. LinkInvariant => AckedAtMostOnce
  BY DEF LinkInvariant, HeldOnce
<1> QED
  BY <1>1, LinkCorrect, PTL

(* A send is reported as acknowledged only when the receiver has handed    *)
(* the message over, or is about to.                                       *)
THEOREM ReportIsTrue == LinkSpec => []AcknowledgedIsHeld
<1>1. LinkInvariant => AcknowledgedIsHeld
  BY DEF LinkInvariant, HeldOnce, AcknowledgedIsHeld
<1> QED
  BY <1>1, LinkCorrect, PTL

(* Send, poll and replay never transmit an operation side by side.         *)
THEOREM TransmittedByOne == LinkSpec => []OneTransmitter
<1>1. LinkInvariant => OneTransmitter
  BY DEF LinkInvariant, TransmitterExact
<1> QED
  BY <1>1, LinkCorrect, PTL

(* A deadline runs only after the backend has taken every chunk of the     *)
(* last attempt on the transport in use.                                   *)
THEOREM DeadlineIsEarned == LinkSpec => []DeadlineAfterSubmission
<1>1. LinkInvariant => DeadlineAfterSubmission
  BY DEF LinkInvariant, TransmitterExact, DeadlineConnected, PrefixSubmitted, Submitted,
         DeadlineAfterSubmission
<1> QED
  BY <1>1, LinkCorrect, PTL

(* No message is put together from chunks of two transports.               *)
THEOREM GenerationsApart == LinkSpec => []NoMixedGenerations
<1>1. LinkInvariant => NoMixedGenerations
  BY DEF LinkInvariant, OneGeneration, NoMixedGenerations
<1> QED
  BY <1>1, LinkCorrect, PTL

(* Only the chunk loop of an attempt hands frames to the backend.          *)
LEMMA WritesGrowByChunk ==
    ASSUME LinkInvariant, [LinkNext]_linkVars, NEW v \in 1..Len(writes'), ~(v =< Len(writes))
    PROVE  \E t \in TaskIds : Chunk(t) /\ writes' # writes
<1>0. /\ Distinct(retained)
      /\ LinkTypeOK
      /\ Len(writes) \in Nat
      /\ open \in BOOLEAN /\ writes \in Seq(Writes)
  BY LenProperties DEF LinkInvariant, RetentionExact, LinkTypeOK, SenderTypeOK
<1>1. ~(Len(writes') =< Len(writes)) /\ writes' # writes
  <2>1. Len(writes') \in Nat
    BY LinkInvariantStep, LenProperties DEF LinkInvariant, LinkTypeOK, SenderTypeOK
  <2> QED
    BY <1>0, <2>1
<1>2. ASSUME NEW o \in Ops, Send(o) \/ Cancel(o) PROVE FALSE
  BY <1>1, <1>2 DEF Send, Cancel, contractVars
<1>3. ASSUME NEW t \in TaskIds, Written(t) \/ NextOp(t) PROVE FALSE
  BY <1>1, <1>3 DEF Written, NextOp, contractVars
<1>4. ASSUME NEW w \in 1..Len(writes), WriteDone(w) PROVE FALSE
  BY <1>0, <1>1, <1>4, WriteDoneEffect
<1>5. CASE PollAckTimeouts \/ ReceiveAck
  BY <1>1, <1>5 DEF PollAckTimeouts, ReceiveAck, contractVars
<1>6. CASE TransportLost \/ Close
  BY <1>0, <1>1, <1>6, ContractTypes DEF TransportLost, Close, contractVars
<1>7. CASE Resume
  <2>1. writes' = <<>> /\ Len(<<>>) = 0
    BY <1>7 DEF Resume
  <2> QED
    BY <1>0, <1>1, <2>1
<1>8. CASE Receive \/ AckWritten \/ AckFailed \/ PeerLost
  BY <1>1, <1>8 DEF Receive, AckWritten, AckFailed, PeerLost, contractVars
<1>9. CASE UNCHANGED linkVars
  BY <1>1, <1>9 DEF linkVars, contractVars
<1> QED
  BY <1>1, <1>2, <1>3, <1>4, <1>5, <1>6, <1>7, <1>8, <1>9 DEF LinkNext, Running

(* A message that was cancelled, has failed or was submitted is not        *)
(* written again, as long as the queue of the backend was never full.      *)
THEOREM EndsStaySilent == LinkSpec => SilentAfterEnd
<1> DEFINE Silent ==
        \A o \in Ops :
            /\ handle[o] \in {"cancelled", "failed", "sent"}
            /\ fulls = 0
            => \A w \in 1..Len(writes') :
                  writes'[w].frame.op = o => w =< Len(writes)
<1>1. LinkInvariant /\ [LinkNext]_linkVars => [Silent]_linkVars
  <2> SUFFICES ASSUME LinkInvariant, [LinkNext]_linkVars, NEW o \in Ops,
                      handle[o] \in {"cancelled", "failed", "sent"}, fulls = 0,
                      NEW w \in 1..Len(writes'), writes'[w].frame.op = o,
                      ~(w =< Len(writes))
               PROVE  FALSE
    OBVIOUS
  <2>1. PICK t \in TaskIds : Chunk(t) /\ writes' # writes
    BY WritesGrowByChunk
  <2>2. LinkTypeOK /\ Len(writes) \in Nat
    BY LenProperties DEF LinkInvariant, LinkTypeOK, SenderTypeOK
  <2>3. /\ tasks[t].pc = "chunk" /\ tasks[t].op \notin cancelled
        /\ Len(writes') = Len(writes) + 1
        /\ writes'[Len(writes) + 1].frame.op = tasks[t].op
    <3>1. /\ tasks[t].pc = "chunk" /\ tasks[t].op \notin cancelled
          /\ Len(writes') = Len(writes) + 1
          /\ writes'[Len(writes) + 1].frame =
                 [op |-> tasks[t].op, chunk |-> tasks[t].chunk,
                  seq |-> nextSeq, gen |-> gen]
      BY <2>1, <2>2, ChunkEffect
    <3> QED
      BY <3>1
  <2>4. w = Len(writes) + 1
    BY <2>2, <2>3
  <2>5. tasks[t].op = o /\ Transmitting(t, o)
    BY <2>3, <2>4 DEF Transmitting
  <2> QED
    BY <2>3, <2>5 DEF LinkInvariant, EndsAreSilent
<1> QED
  BY <1>1, LinkCorrect, PTL DEF LinkSpec, SilentAfterEnd

=============================================================================
