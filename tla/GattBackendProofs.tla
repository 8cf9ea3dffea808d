------------------------- MODULE GattBackendProofs -------------------------
(***************************************************************************)
(* Proofs about GattBackend for every set of priorities and frame sizes,   *)
(* every queue limit, and any number of writes, answers and losses.        *)
(***************************************************************************)
EXTENDS GattBackend, TLAPS, SequenceTheorems, WellFoundedInduction

(* Frames of one priority wait in the order in which they were accepted.   *)
Fifo(q) ==
    \A i, j \in 1..Len(q) :
        i < j /\ q[i].priority = q[j].priority => q[i].write < q[j].write

Writes == [priority : Priorities, size : Sizes, state : Completions]

DartTypeOK ==
    /\ backend \in {"open", "failed"}
    /\ queue \in Seq(Pending)
    /\ draining \in WriteIds \cup {Undrained}
    /\ writes \in Seq(Writes)
    /\ Len(writes) =< MaxWrites

QueueInv(q, ws) ==
    /\ QueuedArePending(q, ws)
    /\ PendingAreQueued(q, ws)
    /\ OnlyFirstStarted(q)
    /\ Fifo(q)

DrainInv ==
    backend = "open" /\ draining # Undrained
        => queue # <<>> /\ queue[1].write = draining

(* The inductive invariant.  That a failed connection has an empty queue   *)
(* is what makes the late answer of an interrupted drain loop harmless.    *)
GattInv ==
    /\ DartTypeOK
    /\ QueueInv(queue, writes)
    /\ DrainInv
    /\ backend = "failed" => queue = <<>>

(* A position up to n + 1 is the last one or lies before it.               *)
LEMMA LastOrBefore ==
    ASSUME NEW n \in Nat, NEW i \in 1..(n + 1)
    PROVE  i \in 1..n \/ i = n + 1
OBVIOUS

(* MoveToFront only permutes the queue.                                    *)
LEMMA MoveToFrontType ==
    ASSUME NEW q \in Seq(Pending), NEW i \in 1..Len(q)
    PROVE  /\ MoveToFront(q, i) \in Seq(Pending)
           /\ Len(MoveToFront(q, i)) = Len(q)
           /\ MoveToFront(q, i)[1] = q[i]
<1> DEFINE m == MoveToFront(q, i)
<1>1. \A k \in 1..Len(q) : q[k] \in Pending
  OBVIOUS
<1>2. m = [k \in 1..Len(q) |-> IF k = 1 THEN q[i]
                         ELSE IF k =< i THEN q[k - 1] ELSE q[k]]
  BY DEF MoveToFront
<1>3. \A k \in 1..Len(q) : m[k] \in Pending
  BY <1>1, <1>2
<1> QED
  BY <1>2, <1>3

(* Moving the frame that IsNext selects keeps everything the queue         *)
(* promises: selection respects acceptance order and started frames.       *)
LEMMA MoveToFrontKeeps ==
    ASSUME NEW q \in Seq(Pending), NEW ws \in Seq(Writes),
           NEW i \in 1..Len(q), IsNext(q, i), QueueInv(q, ws)
    PROVE  QueueInv(MoveToFront(q, i), ws)
<1> DEFINE m == MoveToFront(q, i)
           from(k) == IF k = 1 THEN i ELSE IF k =< i THEN k - 1 ELSE k
<1>1. /\ m \in Seq(Pending)
      /\ Len(m) = Len(q)
  BY MoveToFrontType
<1>2. \A k \in 1..Len(q) : from(k) \in 1..Len(q) /\ m[k] = q[from(k)]
  BY DEF MoveToFront
<1>3. \A k, l \in 1..Len(q) : from(k) = from(l) => k = l
  OBVIOUS
<1>4. \A j \in 1..Len(q) : \E k \in 1..Len(q) : from(k) = j
  <2> SUFFICES ASSUME NEW j \in 1..Len(q)
               PROVE  \E k \in 1..Len(q) : from(k) = j
    OBVIOUS
  <2>1. CASE j = i
    BY <2>1
  <2>2. CASE j < i
    <3>1. j + 1 \in 1..Len(q) /\ from(j + 1) = j
      BY <2>2
    <3> QED
      BY <3>1
  <2>3. CASE j > i
    <3>1. from(j) = j
      BY <2>3
    <3> QED
      BY <3>1
  <2> QED
    BY <2>1, <2>2, <2>3
<1> HIDE DEF m, from
<1>5. QueuedArePending(m, ws)
  <2>0. QueuedArePending(q, ws)
    BY DEF QueueInv
  <2>1. \A k, l \in 1..Len(q) : m[k].write = m[l].write => k = l
    <3> SUFFICES ASSUME NEW k \in 1..Len(q), NEW l \in 1..Len(q),
                        m[k].write = m[l].write
                 PROVE  k = l
      OBVIOUS
    <3>1. q[from(k)].write = q[from(l)].write
      BY <1>2
    <3>2. from(k) = from(l)
      BY <3>1, <2>0, <1>2 DEF QueuedArePending
    <3> QED
      BY <3>2, <1>3
  <2>2. ASSUME NEW k \in 1..Len(q)
        PROVE  /\ m[k].write \in 1..Len(ws)
               /\ ws[m[k].write].state = "pending"
               /\ m[k].priority = ws[m[k].write].priority
               /\ m[k].size = ws[m[k].write].size
               /\ m[k].next < m[k].size
    <3>1. m[k] = q[from(k)] /\ from(k) \in 1..Len(q)
      BY <1>2
    <3> QED
      BY <3>1, <2>0 DEF QueuedArePending
  <2> QED
    BY <1>1, <2>1, <2>2 DEF QueuedArePending
<1>6. PendingAreQueued(m, ws)
  <2>0. PendingAreQueued(q, ws)
    BY DEF QueueInv
  <2> SUFFICES ASSUME NEW w \in 1..Len(ws), ws[w].state = "pending"
               PROVE  \E k \in 1..Len(m) : m[k].write = w
    BY DEF PendingAreQueued
  <2>1. PICK j \in 1..Len(q) : q[j].write = w
    BY <2>0 DEF PendingAreQueued
  <2>2. PICK k \in 1..Len(q) : from(k) = j
    BY <1>4
  <2> QED
    BY <2>1, <2>2, <1>1, <1>2
<1>7. OnlyFirstStarted(m)
  <2> SUFFICES ASSUME NEW k \in 2..Len(q)
               PROVE  m[k].next = 0
    BY <1>1 DEF OnlyFirstStarted
  <2>0. OnlyFirstStarted(q)
    BY DEF QueueInv
  <2>1. CASE q[1].next # 0
    BY <2>0, <2>1, <1>2 DEF IsNext, OnlyFirstStarted, from
  <2>2. CASE q[1].next = 0
    BY <2>0, <2>2, <1>2 DEF OnlyFirstStarted
  <2> QED
    BY <2>1, <2>2
<1>8. Fifo(m)
  <2> SUFFICES ASSUME NEW k \in 1..Len(q), NEW l \in 1..Len(q), k < l,
                      m[k].priority = m[l].priority
               PROVE  m[k].write < m[l].write
    BY <1>1 DEF Fifo
  <2>1. from(k) < from(l)
    <3>0. q[from(k)].priority = q[from(l)].priority
      BY <1>2
    <3>1. CASE k = 1
      <4>1. from(k) = i /\ from(l) # i
        BY <3>1 DEF from
      <4>2. i =< from(l)
        <5>1. CASE q[1].next # 0
          BY <5>1, <1>2 DEF IsNext
        <5>2. CASE q[1].next = 0
          <6>1. \/ q[i].priority < q[from(l)].priority
                \/ i =< from(l)
            BY <5>2, <1>2 DEF IsNext
          <6>2. q[i].priority \in Nat
            <7>1. q[i] \in Pending
              OBVIOUS
            <7>2. q[i].priority \in Priorities
              BY <7>1 DEF Pending
            <7> QED
              BY <7>2, PriorityAssumption
          <6>3. q[from(l)].priority = q[i].priority
            BY <3>0, <4>1
          <6> QED
            BY <6>1, <6>2, <6>3
        <5> QED
          BY <5>1, <5>2
      <4> QED
        BY <4>1, <4>2, <1>2
    <3>2. CASE k # 1
      BY <3>2 DEF from
    <3> QED
      BY <3>1, <3>2
  <2> QED
    BY <2>1, <1>2 DEF QueueInv, Fifo
<1> QED
  BY <1>5, <1>6, <1>7, <1>8 DEF QueueInv, m

(* What one turn of the drain loop leaves behind, given what it found.     *)
LEMMA SubmitKeeps ==
    ASSUME NEW q \in Seq(Pending), NEW ws \in Seq(Writes),
           QueueInv(q, ws), Submit(q)
    PROVE  /\ queue' \in Seq(Pending)
           /\ QueueInv(queue', ws)
           /\ draining' \in WriteIds \cup {Undrained}
           /\ draining' # Undrained => queue' # <<>> /\ queue'[1].write = draining'
<1>1. CASE q = <<>> /\ queue' = q /\ draining' = Undrained
  BY <1>1
<1>2. ASSUME NEW i \in 1..Len(q), IsNext(q, i), queue' = MoveToFront(q, i),
             draining' = q[i].write
      PROVE  /\ queue' \in Seq(Pending)
             /\ QueueInv(queue', ws)
             /\ draining' \in WriteIds \cup {Undrained}
             /\ draining' # Undrained => queue' # <<>> /\ queue'[1].write = draining'
  <2>1. QueueInv(queue', ws)
    BY <1>2, MoveToFrontKeeps
  <2>2. /\ queue' \in Seq(Pending)
        /\ Len(queue') = Len(q)
        /\ queue'[1] = q[i]
    BY <1>2, MoveToFrontType
  <2>3. q[i] \in Pending
    OBVIOUS
  <2>4. q[i].write \in WriteIds
    BY <2>3 DEF Pending
  <2> QED
    BY <1>2, <2>1, <2>2, <2>4
<1> QED
  BY <1>1, <1>2 DEF Submit

(* A new frame at the end of the queue.                                    *)
LEMMA AppendKeeps ==
    ASSUME NEW q \in Seq(Pending), NEW ws \in Seq(Writes), QueueInv(q, ws),
           NEW priority \in Priorities, NEW size \in Sizes,
           Len(ws) < MaxWrites,
           NEW item, item = [write |-> Len(ws) + 1, priority |-> priority,
                             size |-> size, next |-> 0],
           NEW rec, rec = [priority |-> priority, size |-> size,
                           state |-> "pending"]
    PROVE  /\ Append(q, item) \in Seq(Pending)
           /\ Append(ws, rec) \in Seq(Writes)
           /\ QueueInv(Append(q, item), Append(ws, rec))
<1>1. item \in Pending /\ rec \in Writes
  BY QueueAssumption DEF Pending, Writes, WriteIds, Completions
<1>2. size \in Nat \ {0}
  BY FragmentAssumption
<1> DEFINE q1 == Append(q, item)
           ws1 == Append(ws, rec)
<1>3. /\ q1 \in Seq(Pending)
      /\ Len(q1) = Len(q) + 1
      /\ \A k \in 1..Len(q) : q1[k] = q[k]
      /\ q1[Len(q) + 1] = item
  BY <1>1
<1>4. /\ ws1 \in Seq(Writes)
      /\ Len(ws1) = Len(ws) + 1
      /\ \A w \in 1..Len(ws) : ws1[w] = ws[w]
      /\ ws1[Len(ws) + 1] = rec
  BY <1>1
<1> HIDE DEF q1, ws1
<1>5. QueuedArePending(q, ws) /\ PendingAreQueued(q, ws)
      /\ OnlyFirstStarted(q) /\ Fifo(q)
  BY DEF QueueInv
<1>6. \A k \in 1..Len(q) : q[k].write \in 1..Len(ws)
  BY <1>5 DEF QueuedArePending
<1>7. QueuedArePending(q1, ws1)
  <2>1. ASSUME NEW k \in 1..Len(q1), NEW l \in 1..Len(q1),
               q1[k].write = q1[l].write
        PROVE  k = l
    <3>1. CASE k \in 1..Len(q) /\ l \in 1..Len(q)
      <4>1. q[k].write = q[l].write
        BY <2>1, <3>1, <1>3
      <4> QED
        BY <4>1, <3>1, <1>5 DEF QueuedArePending
    <3>2. CASE k \in 1..Len(q) /\ l = Len(q) + 1
      <4>1. q[k].write = Len(ws) + 1
        BY <2>1, <3>2, <1>3
      <4> QED
        BY <4>1, <3>2, <1>6
    <3>3. CASE k = Len(q) + 1 /\ l \in 1..Len(q)
      <4>1. q[l].write = Len(ws) + 1
        BY <2>1, <3>3, <1>3
      <4> QED
        BY <4>1, <3>3, <1>6
    <3>4. CASE k = Len(q) + 1 /\ l = Len(q) + 1
      BY <3>4
    <3> QED
      BY <3>1, <3>2, <3>3, <3>4, <1>3
  <2>2. ASSUME NEW k \in 1..Len(q1)
        PROVE  /\ q1[k].write \in 1..Len(ws1)
               /\ ws1[q1[k].write].state = "pending"
               /\ q1[k].priority = ws1[q1[k].write].priority
               /\ q1[k].size = ws1[q1[k].write].size
               /\ q1[k].next < q1[k].size
    <3>1. CASE k \in 1..Len(q)
      <4>1. q1[k] = q[k] /\ ws1[q[k].write] = ws[q[k].write]
        BY <3>1, <1>3, <1>4, <1>6
      <4> QED
        BY <4>1, <3>1, <1>4, <1>5, <1>6 DEF QueuedArePending
    <3>2. CASE k = Len(q) + 1
      BY <3>2, <1>2, <1>3, <1>4
    <3> QED
      BY <3>1, <3>2, <1>3
  <2> QED
    BY <2>1, <2>2 DEF QueuedArePending
<1>8. PendingAreQueued(q1, ws1)
  <2> SUFFICES ASSUME NEW w \in 1..Len(ws1), ws1[w].state = "pending"
               PROVE  \E k \in 1..Len(q1) : q1[k].write = w
    BY DEF PendingAreQueued
  <2>1. CASE w \in 1..Len(ws)
    <3>1. PICK k \in 1..Len(q) : q[k].write = w
      BY <2>1, <1>4, <1>5 DEF PendingAreQueued
    <3> QED
      BY <3>1, <1>3
  <2>2. CASE w = Len(ws) + 1
    BY <2>2, <1>3
  <2> QED
    BY <2>1, <2>2, <1>4
<1>9. OnlyFirstStarted(q1)
  <2> SUFFICES ASSUME NEW i \in 2..Len(q1)
               PROVE  q1[i].next = 0
    BY DEF OnlyFirstStarted
  <2>1. Len(q1) = Len(q) + 1 /\ Len(q) \in Nat
    BY <1>3
  <2>2. i \in 1..(Len(q) + 1) /\ i > 1
    BY <2>1
  <2>3. i \in 1..Len(q) \/ i = Len(q) + 1
    BY <2>1, <2>2, LastOrBefore, Zenon
  <2>4. CASE i \in 1..Len(q)
    <3>1. q1[i] = q[i]
      BY <2>4, <1>3
    <3>2. i \in 2..Len(q)
      BY <2>1, <2>2, <2>4
    <3> QED
      BY <3>1, <3>2, <1>5 DEF OnlyFirstStarted
  <2>5. CASE i = Len(q) + 1
    <3>1. q1[i] = item
      BY <2>5, <1>3
    <3> QED
      BY <3>1
  <2> QED
    BY <2>3, <2>4, <2>5
<1>10. Fifo(q1)
  <2> SUFFICES ASSUME NEW k \in 1..Len(q1), NEW l \in 1..Len(q1), k < l,
                      q1[k].priority = q1[l].priority
               PROVE  q1[k].write < q1[l].write
    BY DEF Fifo
  <2>1. k \in 1..Len(q) /\ q1[k] = q[k]
    BY <1>3
  <2>2. CASE l \in 1..Len(q)
    <3>1. q1[l] = q[l]
      BY <2>2, <1>3
    <3> QED
      BY <2>1, <2>2, <3>1, <1>5 DEF Fifo
  <2>3. CASE l = Len(q) + 1
    <3>1. q1[l].write = Len(ws) + 1
      BY <2>3, <1>3
    <3> QED
      BY <2>1, <3>1, <1>6
  <2>4. Len(q1) = Len(q) + 1 /\ Len(q) \in Nat
    BY <1>3
  <2>5. l \in 1..(Len(q) + 1)
    BY <2>4
  <2>6. l \in 1..Len(q) \/ l = Len(q) + 1
    BY <2>4, <2>5, LastOrBefore, Zenon
  <2> QED
    BY <2>2, <2>3, <2>6
<1> QED
  BY <1>3, <1>4, <1>7, <1>8, <1>9, <1>10 DEF QueueInv, q1, ws1

(* A further fragment of the first frame has been submitted.               *)
LEMMA AdvanceKeeps ==
    ASSUME NEW q \in Seq(Pending), NEW ws \in Seq(Writes), QueueInv(q, ws),
           q # <<>>, q[1].next + 1 < q[1].size
    PROVE  /\ [q EXCEPT ![1].next = q[1].next + 1] \in Seq(Pending)
           /\ QueueInv([q EXCEPT ![1].next = q[1].next + 1], ws)
<1> DEFINE q1 == [q EXCEPT ![1].next = q[1].next + 1]
<1>1. q[1] \in Pending /\ 1 \in 1..Len(q)
  OBVIOUS
<1>2. q[1].next \in Nat
  BY <1>1 DEF Pending
<1>3. q1[1] = [q[1] EXCEPT !.next = q[1].next + 1]
  BY <1>1
<1>4. \A k \in 2..Len(q) : q1[k] = q[k]
  OBVIOUS
<1>5. [q[1] EXCEPT !.next = q[1].next + 1] \in Pending
  BY <1>1, <1>2 DEF Pending
<1>6. q1 \in Seq(Pending) /\ Len(q1) = Len(q)
  BY <1>5
<1>7. /\ \A k \in 1..Len(q) : /\ q1[k].write = q[k].write
                              /\ q1[k].priority = q[k].priority
                              /\ q1[k].size = q[k].size
      /\ \A k \in 2..Len(q) : q1[k].next = q[k].next
      /\ q1[1].next = q[1].next + 1
  BY <1>1, <1>3, <1>4 DEF Pending
<1> HIDE DEF q1
<1>8. QueuedArePending(q1, ws)
  BY <1>6, <1>7 DEF QueueInv, QueuedArePending
<1>9. PendingAreQueued(q1, ws)
  BY <1>6, <1>7 DEF QueueInv, PendingAreQueued
<1>10. OnlyFirstStarted(q1) /\ Fifo(q1)
  BY <1>6, <1>7 DEF QueueInv, OnlyFirstStarted, Fifo
<1> QED
  BY <1>6, <1>8, <1>9, <1>10 DEF QueueInv, q1

(* The first frame is complete and leaves the queue.                       *)
LEMMA FinishKeeps ==
    ASSUME NEW q \in Seq(Pending), NEW ws \in Seq(Writes), QueueInv(q, ws),
           q # <<>>
    PROVE  /\ Tail(q) \in Seq(Pending)
           /\ [ws EXCEPT ![q[1].write].state = "submitted"] \in Seq(Writes)
           /\ QueueInv(Tail(q), [ws EXCEPT ![q[1].write].state = "submitted"])
<1> DEFINE t == Tail(q)
           w1 == q[1].write
           ws1 == [ws EXCEPT ![w1].state = "submitted"]
<1>1. /\ t \in Seq(Pending)
      /\ Len(t) = Len(q) - 1
      /\ Len(q) \in Nat \ {0}
      /\ \A k \in 1..Len(t) : t[k] = q[k + 1] /\ k + 1 \in 2..Len(q)
  OBVIOUS
<1>2. QueuedArePending(q, ws) /\ PendingAreQueued(q, ws)
      /\ OnlyFirstStarted(q) /\ Fifo(q)
  BY DEF QueueInv
<1>3. w1 \in 1..Len(ws) /\ 1 \in 1..Len(q)
  BY <1>1, <1>2 DEF QueuedArePending
<1>4. /\ Len(ws1) = Len(ws)
      /\ \A w \in 1..Len(ws) : w # w1 => ws1[w] = ws[w]
      /\ ws1[w1] = [ws[w1] EXCEPT !.state = "submitted"]
  BY <1>3
<1>5. ws1[w1].state = "submitted" /\ ws1[w1] \in Writes
  <2>1. ws[w1] \in Writes
    BY <1>3
  <2> QED
    BY <2>1, <1>4 DEF Writes, Completions
<1>6. ws1 \in Seq(Writes)
  BY <1>3, <1>4, <1>5
<1> HIDE DEF t, ws1, w1
<1>7. \A k \in 1..Len(t) : t[k].write # w1
  BY <1>1, <1>2, <1>3 DEF QueuedArePending, w1
<1>8. QueuedArePending(t, ws1)
  <2>1. ASSUME NEW k \in 1..Len(t), NEW l \in 1..Len(t),
               t[k].write = t[l].write
        PROVE  k = l
    <3>1. t[k] = q[k + 1] /\ t[l] = q[l + 1]
      BY <1>1
    <3>2. k + 1 \in 1..Len(q) /\ l + 1 \in 1..Len(q)
      BY <1>1
    <3>3. q[k + 1].write = q[l + 1].write
      BY <2>1, <3>1
    <3>4. k + 1 = l + 1
      BY <3>2, <3>3, <1>2 DEF QueuedArePending
    <3> QED
      BY <3>4
  <2>2. ASSUME NEW k \in 1..Len(t)
        PROVE  /\ t[k].write \in 1..Len(ws1)
               /\ ws1[t[k].write].state = "pending"
               /\ t[k].priority = ws1[t[k].write].priority
               /\ t[k].size = ws1[t[k].write].size
               /\ t[k].next < t[k].size
    <3>1. t[k] = q[k + 1] /\ k + 1 \in 1..Len(q)
      BY <1>1
    <3>2. t[k].write \in 1..Len(ws)
      BY <3>1, <1>2 DEF QueuedArePending
    <3>3. ws1[t[k].write] = ws[t[k].write]
      BY <3>2, <1>4, <1>7
    <3> QED
      BY <3>1, <3>2, <3>3, <1>2, <1>4 DEF QueuedArePending
  <2> QED
    BY <2>1, <2>2 DEF QueuedArePending
<1>9. PendingAreQueued(t, ws1)
  <2> SUFFICES ASSUME NEW w \in 1..Len(ws1), ws1[w].state = "pending"
               PROVE  \E k \in 1..Len(t) : t[k].write = w
    BY DEF PendingAreQueued
  <2>1. w # w1 /\ w \in 1..Len(ws)
    BY <1>4, <1>5
  <2>2. PICK k \in 1..Len(q) : q[k].write = w
    BY <2>1, <1>2, <1>4 DEF PendingAreQueued
  <2>3. k # 1
    BY <2>1, <2>2 DEF w1
  <2>4. k - 1 \in 1..Len(t) /\ t[k - 1] = q[k]
    BY <2>3, <1>1
  <2> QED
    BY <2>2, <2>4
<1>10. OnlyFirstStarted(t)
  BY <1>1, <1>2 DEF OnlyFirstStarted
<1>11. Fifo(t)
  <2> SUFFICES ASSUME NEW k \in 1..Len(t), NEW l \in 1..Len(t), k < l,
                      t[k].priority = t[l].priority
               PROVE  t[k].write < t[l].write
    BY DEF Fifo
  <2>1. /\ t[k] = q[k + 1] /\ k + 1 \in 1..Len(q)
        /\ t[l] = q[l + 1] /\ l + 1 \in 1..Len(q)
        /\ k + 1 < l + 1
    BY <1>1
  <2> QED
    BY <2>1, <1>2 DEF Fifo
<1> QED
  BY <1>1, <1>6, <1>8, <1>9, <1>10, <1>11 DEF QueueInv, t, ws1, w1

(* _drain, whether or not a drain loop is already running.                 *)
LEMMA DrainKeeps ==
    ASSUME NEW q \in Seq(Pending), NEW ws \in Seq(Writes),
           QueueInv(q, ws), Drain(q),
           draining \in WriteIds \cup {Undrained},
           draining # Undrained => q # <<>> /\ q[1].write = draining
    PROVE  /\ queue' \in Seq(Pending)
           /\ QueueInv(queue', ws)
           /\ draining' \in WriteIds \cup {Undrained}
           /\ draining' # Undrained => queue' # <<>> /\ queue'[1].write = draining'
<1>1. CASE Submit(q)
  BY <1>1, SubmitKeeps
<1>2. CASE draining # Undrained /\ queue' = q /\ UNCHANGED <<draining, call>>
  BY <1>2
<1> QED
  BY <1>1, <1>2 DEF Drain

(* A terminal failure answers everything that is pending.                  *)
LEMMA FailKeeps ==
    ASSUME writes \in Seq(Writes), TerminalFailure
    PROVE  /\ backend' = "failed"
           /\ queue' = <<>>
           /\ queue' \in Seq(Pending)
           /\ writes' \in Seq(Writes)
           /\ Len(writes') = Len(writes)
           /\ QueueInv(queue', writes')
<1>1. backend' = "failed" /\ queue' = <<>>
  BY DEF TerminalFailure
<1>2. writes' = [w \in 1..Len(writes) |->
            IF writes[w].state = "pending"
            THEN [writes[w] EXCEPT !.state = "failed"] ELSE writes[w]]
  BY DEF TerminalFailure
<1>3. \A w \in 1..Len(writes) :
            writes'[w] \in Writes /\ writes'[w].state # "pending"
  <2> SUFFICES ASSUME NEW w \in 1..Len(writes)
               PROVE  writes'[w] \in Writes /\ writes'[w].state # "pending"
    OBVIOUS
  <2>1. writes[w] \in Writes
    OBVIOUS
  <2> QED
    BY <2>1, <1>2 DEF Writes, Completions
<1>4. writes' \in Seq(Writes) /\ Len(writes') = Len(writes)
  BY <1>2, <1>3
<1>5. QueueInv(queue', writes')
  BY <1>1, <1>3, <1>4
     DEF QueueInv, QueuedArePending, PendingAreQueued, OnlyFirstStarted, Fifo
<1> QED
  BY <1>1, <1>4, <1>5

LEMMA InitInv == GattInit => GattInv
<1> SUFFICES ASSUME GattInit
             PROVE  GattInv
  OBVIOUS
<1>1. DartTypeOK
  BY QueueAssumption DEF GattInit, DartTypeOK
<1>2. QueueInv(queue, writes)
  BY DEF GattInit, QueueInv, QueuedArePending, PendingAreQueued,
         OnlyFirstStarted, Fifo
<1> QED
  BY <1>1, <1>2 DEF GattInit, GattInv, DrainInv

(* No step of Dart, of the plugin or of the remote peer breaks GattInv.    *)
LEMMA NextKeepsInv == GattInv /\ [GattNext]_gattVars => GattInv'
<1> SUFFICES ASSUME GattInv, [GattNext]_gattVars
             PROVE  GattInv'
  OBVIOUS
<1>0. /\ backend \in {"open", "failed"}
      /\ queue \in Seq(Pending)
      /\ draining \in WriteIds \cup {Undrained}
      /\ writes \in Seq(Writes)
      /\ Len(writes) =< MaxWrites
      /\ QueueInv(queue, writes)
      /\ backend = "open" /\ draining # Undrained
            => queue # <<>> /\ queue[1].write = draining
      /\ backend = "failed" => queue = <<>>
  BY DEF GattInv, DartTypeOK, DrainInv
<1>1. ASSUME NEW priority \in Priorities, NEW size \in Sizes,
             Write(priority, size)
      PROVE  GattInv'
  <2> DEFINE item == [write |-> Len(writes) + 1, priority |-> priority,
                      size |-> size, next |-> 0]
             rec == [priority |-> priority, size |-> size, state |-> "pending"]
  <2>1. /\ Len(writes) < MaxWrites
        /\ backend = "open" /\ backend' = "open"
        /\ writes' = Append(writes, rec)
        /\ Drain(Append(queue, item))
    BY <1>1 DEF Write
  <2>2. /\ Append(queue, item) \in Seq(Pending)
        /\ writes' \in Seq(Writes)
        /\ QueueInv(Append(queue, item), writes')
    BY <2>1, <1>0, AppendKeeps
  <2>3. Len(writes') =< MaxWrites
    BY <2>1, <1>0, QueueAssumption
  <2>4. draining # Undrained =>
            Append(queue, item) # <<>> /\ Append(queue, item)[1].write = draining
    <3> SUFFICES ASSUME draining # Undrained
                 PROVE  /\ Append(queue, item) # <<>>
                        /\ Append(queue, item)[1].write = draining
      OBVIOUS
    <3>1. queue # <<>> /\ queue[1].write = draining
      BY <2>1, <1>0
    <3>2. Append(queue, item)[1] = queue[1] /\ Len(Append(queue, item)) > 0
      BY <3>1, <1>0
    <3> QED
      BY <3>1, <3>2
  <2> HIDE DEF item
  <2>5. /\ queue' \in Seq(Pending)
        /\ QueueInv(queue', writes')
        /\ draining' \in WriteIds \cup {Undrained}
        /\ draining' # Undrained => queue' # <<>> /\ queue'[1].write = draining'
    BY <2>1, <2>2, <2>4, <1>0, DrainKeeps
  <2> QED
    BY <2>1, <2>2, <2>3, <2>5 DEF GattInv, DartTypeOK, DrainInv
<1>2. ASSUME TerminalFailure, draining' \in {draining, Undrained}
      PROVE  GattInv'
  BY <1>0, <1>2, FailKeeps DEF GattInv, DartTypeOK, DrainInv
<1>3. CASE Close
  BY <1>2, <1>3 DEF Close
<1>4. ASSUME UNCHANGED <<backend, queue, writes>>,
             draining' \in {draining, Undrained}
      PROVE  GattInv'
  BY <1>0, <1>4 DEF GattInv, DartTypeOK, DrainInv
<1>5. ASSUME NEW q \in Seq(Pending), QueueInv(q, writes'), Submit(q),
             writes' \in Seq(Writes), Len(writes') = Len(writes),
             backend = "open", UNCHANGED backend
      PROVE  GattInv'
  <2>1. /\ queue' \in Seq(Pending)
        /\ QueueInv(queue', writes')
        /\ draining' \in WriteIds \cup {Undrained}
        /\ draining' # Undrained => queue' # <<>> /\ queue'[1].write = draining'
    BY <1>5, SubmitKeeps
  <2> QED
    BY <1>0, <1>5, <2>1 DEF GattInv, DartTypeOK, DrainInv
<1>6. CASE Answered
  <2>1. CASE UNCHANGED <<backend, queue, queuedSize, writes, call>>
             /\ draining' = Undrained
    BY <2>1, <1>4
  <2>2. CASE TerminalFailure /\ draining' = Undrained
    BY <2>2, <1>2
  <2>3. CASE StillFirst /\ Submitted /\ UNCHANGED backend
    <3>1. backend = "open" /\ queue # <<>>
      BY <2>3 DEF StillFirst
    <3>2. CASE /\ queue[1].next + 1 < queue[1].size
               /\ Submit([queue EXCEPT ![1].next = queue[1].next + 1])
               /\ UNCHANGED writes
      BY <3>1, <3>2, <2>3, <1>0, <1>5, AdvanceKeeps
    <3>3. CASE /\ writes' = [writes EXCEPT ![queue[1].write].state = "submitted"]
               /\ Submit(Tail(queue))
      <4>1. /\ Tail(queue) \in Seq(Pending)
            /\ writes' \in Seq(Writes)
            /\ QueueInv(Tail(queue), writes')
        BY <3>1, <3>3, <1>0, FinishKeeps
      <4>2. Len(writes') = Len(writes)
        BY <3>3, <1>0
      <4> QED
        BY <3>1, <3>3, <4>1, <4>2, <2>3, <1>5
    <3> QED
      BY <2>3, <3>2, <3>3 DEF Submitted
  <2> QED
    BY <1>6, <2>1, <2>2, <2>3 DEF Answered
<1>7. CASE Writable
  <2>1. CASE backend = "open" /\ Drain(queue) /\ UNCHANGED <<backend, writes>>
    <3>1. /\ queue' \in Seq(Pending)
          /\ QueueInv(queue', writes)
          /\ draining' \in WriteIds \cup {Undrained}
          /\ draining' # Undrained => queue' # <<>> /\ queue'[1].write = draining'
      BY <2>1, <1>0, DrainKeeps
    <3> QED
      BY <2>1, <3>1, <1>0 DEF GattInv, DartTypeOK, DrainInv
  <2>2. CASE UNCHANGED <<backend, queue, draining, writes>>
    BY <2>2, <1>4
  <2> QED
    BY <1>7, <2>1, <2>2 DEF Writable
<1>8. CASE Disconnected
  BY <1>2, <1>4, <1>8 DEF Disconnected
<1>9. CASE UNCHANGED dartVars
  BY <1>4, <1>9 DEF dartVars
<1> QED
  BY <1>1, <1>3, <1>6, <1>7, <1>8, <1>9
     DEF GattNext, NativeSubmit, NativeWriteDone, NativeDisconnect, Receive,
         gattVars

(* The inductive invariant holds in every reachable state.                 *)
THEOREM GattInvariant == GattSpec => []GattInv
  BY InitInv, NextKeepsInv, PTL DEF GattSpec

(* No accepted write is forgotten or answered too early, for any sizes,    *)
(* priorities and limits.                                                  *)
THEOREM GattQueueExact == GattSpec => []QueueExact
<1>1. GattInv => QueueExact
  BY DEF GattInv, QueueInv, QueueExact
<1> QED
  BY GattInvariant, <1>1, PTL

(* _drain always finishes the frame it has started before another one.     *)
THEOREM GattOneFrameAtATime == GattSpec => []OneFrameAtATime
<1>1. GattInv => OneFrameAtATime
  BY DEF GattInv, QueueInv, DrainInv, OneFrameAtATime
<1> QED
  BY GattInvariant, <1>1, PTL

(* Completing the first queued frame is a Complete step of the contract:   *)
(* no earlier write of the same priority is still pending.                 *)
LEMMA FinishIsEligible ==
    ASSUME queue \in Seq(Pending), writes \in Seq(Writes),
           QueueInv(queue, writes), queue # <<>>
    PROVE  /\ queue[1].write \in 1..Len(writes)
           /\ writes[queue[1].write].state = "pending"
           /\ \A v \in 1..Len(writes) :
                writes[v].state = "pending"
                /\ writes[v].priority = writes[queue[1].write].priority
                    => queue[1].write =< v
<1>1. 1 \in 1..Len(queue)
  OBVIOUS
<1>2. /\ queue[1].write \in 1..Len(writes)
      /\ writes[queue[1].write].state = "pending"
      /\ queue[1].priority = writes[queue[1].write].priority
  BY <1>1 DEF QueueInv, QueuedArePending
<1>3. ASSUME NEW v \in 1..Len(writes), writes[v].state = "pending",
             writes[v].priority = writes[queue[1].write].priority
      PROVE  queue[1].write =< v
  <2>1. PICK j \in 1..Len(queue) : queue[j].write = v
    BY <1>3 DEF QueueInv, PendingAreQueued
  <2>2. queue[j].priority = queue[1].priority
    BY <2>1, <1>2, <1>3 DEF QueueInv, QueuedArePending
  <2>3. CASE j = 1
    BY <2>1, <2>3
  <2>4. CASE 1 < j
    <3>1. queue[1].write < queue[j].write
      BY <2>2, <2>4, <1>1 DEF QueueInv, Fifo
    <3> QED
      BY <3>1, <2>1, <1>2
  <2> QED
    BY <2>3, <2>4
<1> QED
  BY <1>2, <1>3

(* Every step of the connection is a step of BackendContract or leaves     *)
(* what its callers see unchanged.                                         *)
LEMMA NextIsContractStep ==
    GattInv /\ [GattNext]_gattVars
        => [Contract!ContractNext]_(Contract!contractVars)
<1> SUFFICES ASSUME GattInv, [GattNext]_gattVars
             PROVE  [Contract!ContractNext]_(Contract!contractVars)
  OBVIOUS
<1>0. /\ backend \in {"open", "failed"}
      /\ queue \in Seq(Pending)
      /\ writes \in Seq(Writes)
      /\ QueueInv(queue, writes)
  BY DEF GattInv, DartTypeOK
<1> DEFINE view == [w \in 1..Len(writes) |->
                        [frame |-> writes[w].size,
                         priority |-> writes[w].priority,
                         state |-> writes[w].state]]
<1>a. Len(view) = Len(writes) /\ Len(writes) \in Nat
  BY <1>0
<1>b. \A w \in 1..Len(writes) :
            view[w] = [frame |-> writes[w].size,
                       priority |-> writes[w].priority,
                       state |-> writes[w].state]
  OBVIOUS
<1>1. ASSUME UNCHANGED <<backend, writes>>
      PROVE  UNCHANGED Contract!contractVars
  BY <1>1 DEF Contract!contractVars
<1>2. ASSUME NEW priority \in Priorities, NEW size \in Sizes,
             Write(priority, size)
      PROVE  Contract!ContractNext
  <2> DEFINE rec == [priority |-> priority, size |-> size, state |-> "pending"]
  <2>1. /\ backend = "open" /\ backend' = "open"
        /\ writes' = Append(writes, rec)
    BY <1>2 DEF Write
  <2>2. /\ Len(writes') = Len(writes) + 1
        /\ \A w \in 1..Len(writes) : writes'[w] = writes[w]
        /\ writes'[Len(writes) + 1] = rec
        /\ Len(writes) \in Nat
    BY <2>1, <1>0
  <2>3. Contract!Accept(size, priority)
    BY <2>1, <2>2 DEF Contract!Accept
  <2> QED
    BY <2>3 DEF Contract!ContractNext
<1>3. ASSUME backend = "open", TerminalFailure
      PROVE  Contract!ContractNext
  <2>1. /\ backend' # "open"
        /\ writes' = [w \in 1..Len(writes) |->
            IF writes[w].state = "pending"
            THEN [writes[w] EXCEPT !.state = "failed"] ELSE writes[w]]
    BY <1>3, <1>0 DEF TerminalFailure
  <2>2. Len(writes') = Len(writes)
    BY <1>0, <1>3, FailKeeps
  <2>3. \A w \in 1..Len(writes) : writes[w] \in Writes
    BY <1>0
  <2>4. \A w \in 1..Len(writes) :
            view'[w] = IF view[w].state = "pending"
                       THEN [view[w] EXCEPT !.state = "failed"] ELSE view[w]
    BY <2>1, <2>2, <2>3 DEF Writes
  <2>5. DOMAIN view' = 1..Len(view)
    BY <2>2, <1>a
  <2>6. view' = [w \in 1..Len(view) |->
            IF view[w].state = "pending"
            THEN [view[w] EXCEPT !.state = "failed"] ELSE view[w]]
    BY <2>4, <2>5, <1>a
  <2>7. Contract!FailAll
    BY <1>3, <2>1, <2>6 DEF Contract!FailAll
  <2> QED
    BY <2>7 DEF Contract!ContractNext
<1>4. ASSUME StillFirst, UNCHANGED backend,
             writes' = [writes EXCEPT ![queue[1].write].state = "submitted"]
      PROVE  Contract!ContractNext
  <2>1. backend = "open" /\ queue # <<>>
    BY <1>4 DEF StillFirst
  <2>2. PICK w \in 1..Len(writes) :
            /\ w = queue[1].write
            /\ writes[w].state = "pending"
            /\ \A v \in 1..Len(writes) :
                    writes[v].state = "pending" /\ writes[v].priority = writes[w].priority
                        => w =< v
    BY <2>1, <1>0, FinishIsEligible
  <2>3. /\ Len(writes') = Len(writes)
        /\ \A v \in 1..Len(writes) : v # w => writes'[v] = writes[v]
        /\ writes'[w] = [writes[w] EXCEPT !.state = "submitted"]
        /\ writes[w] \in Writes
    BY <2>2, <1>0, <1>4
  <2>4. /\ writes'[w].size = writes[w].size
        /\ writes'[w].priority = writes[w].priority
        /\ writes'[w].state = "submitted"
    BY <2>3 DEF Writes
  <2>5. Contract!Eligible(w)
    BY <2>2 DEF Contract!Eligible, Contract!PendingWrites
  <2>a. writes \in Seq(Writes) /\ w \in 1..Len(writes)
    BY <1>0, <2>2
  <2>6. Contract!Complete(w)
    BY <1>4, <2>1, <2>a, <2>3, <2>4, <2>5 DEF Contract!Complete
  <2> QED
    BY <2>2, <2>6, <1>a DEF Contract!ContractNext
<1>5. CASE Answered
  BY <1>1, <1>3, <1>4, <1>5 DEF Answered, Submitted, StillFirst
<1>6. CASE Close \/ Disconnected
  BY <1>1, <1>3, <1>6 DEF Close, Disconnected
<1>7. CASE Writable
  BY <1>1, <1>7 DEF Writable
<1>8. CASE UNCHANGED dartVars
  BY <1>1, <1>8 DEF dartVars
<1> QED
  BY <1>2, <1>5, <1>6, <1>7, <1>8
     DEF GattNext, NativeSubmit, NativeWriteDone, NativeDisconnect, Receive,
         gattVars

(* GattBackendConnection implements what backend.dart promises its         *)
(* callers: writes are accepted only while it is open, completed once and  *)
(* in acceptance order within a priority, and failed together.             *)
THEOREM GattImplementsContract == GattSpec => ImplementsContract
<1>1. GattInit => Contract!ContractInit
  BY DEF GattInit, Contract!ContractInit
<1> QED
  BY <1>1, GattInvariant, NextIsContractStep, PTL
     DEF GattSpec, ImplementsContract, Contract!ContractSpec

-----------------------------------------------------------------------------
(* The size of the queue                                                   *)

(* A set of naturals that has 0 and every successor of a member has all:   *)
(* induction, for a set instead of a predicate.                            *)
LEMMA NatSetInduction ==
    ASSUME NEW S \in SUBSET Nat, 0 \in S, \A n \in S : n + 1 \in S
    PROVE  S = Nat
<1> DEFINE R == {pair \in Nat \X Nat : pair[1] < pair[2]}
<1>1. IsWellFoundedOn(R, Nat)
  BY NatLessThanWellFounded DEF OpToRel
<1> HIDE DEF R
<1>2. ASSUME Nat \ S # {} PROVE FALSE
  <2>1. PICK n \in Nat \ S : \A m \in Nat \ S : <<m, n>> \notin R
    BY <1>1, <1>2, WFMin
  <2>2. n # 0
    BY <2>1
  <2>3. n - 1 \in Nat /\ n - 1 < n
    BY <2>1, <2>2
  <2>4. <<n - 1, n>> \in R
    BY <2>1, <2>3 DEF R
  <2>5. n - 1 \in S
    BY <2>1, <2>3, <2>4
  <2>6. (n - 1) + 1 \in S
    BY <2>5
  <2> QED
    BY <2>1, <2>6
<1> QED
  BY <1>2

(* The running total of the sizes in a queue.                              *)
Runs(total, q) ==
    /\ total \in [0..Len(q) -> Nat]
    /\ total[0] = 0
    /\ \A i \in 1..Len(q) : total[i] = total[i - 1] + q[i].size

(* A pending write has something to send.                                  *)
LEMMA PendingSize ==
    ASSUME NEW pending \in Pending
    PROVE  pending.size \in Nat /\ pending.size > 0
<1>1. pending.size \in Sizes
  BY DEF Pending
<1>2. pending.size \in Nat \ {0}
  BY <1>1, FragmentAssumption, Zenon
<1> QED
  BY <1>2

(* So has every write of a queue.                                          *)
LEMMA SizeType ==
    ASSUME NEW q \in Seq(Pending), NEW i \in 1..Len(q)
    PROVE  q[i].size \in Nat /\ q[i].size > 0
<1>1. q[i] \in Pending
  OBVIOUS
<1> QED
  BY <1>1, PendingSize

(* Every queue has one.                                                    *)
LEMMA RunExists ==
    ASSUME NEW q \in Seq(Pending)
    PROVE  \E total : Runs(total, q)
<1> DEFINE Upto(n, total) ==
               /\ total \in [0..n -> Nat]
               /\ total[0] = 0
               /\ \A i \in 1..n : total[i] = total[i - 1] + q[i].size
           S == {n \in Nat : n =< Len(q) => \E total : Upto(n, total)}
<1> HIDE DEF Upto
<1>1. 0 \in S
  <2>1. Upto(0, [i \in 0..0 |-> 0])
    BY DEF Upto
  <2> QED
    BY <2>1
<1>2. ASSUME NEW n \in S PROVE n + 1 \in S
  <2>1. n \in Nat
    OBVIOUS
  <2>2. ASSUME n + 1 =< Len(q) PROVE \E total : Upto(n + 1, total)
    <3>0. n =< Len(q)
      BY <2>1, <2>2
    <3>1. PICK total : Upto(n, total)
      BY <3>0
    <3> DEFINE more == [i \in 0..(n + 1) |->
                            IF i = n + 1 THEN total[n] + q[n + 1].size ELSE total[i]]
    <3>2. q[n + 1].size \in Nat
      BY <2>1, <2>2, SizeType
    <3>3. total[n] \in Nat
      BY <2>1, <3>1 DEF Upto
    <3>4. more \in [0..(n + 1) -> Nat]
      BY <2>1, <3>1, <3>2, <3>3 DEF Upto
    <3>5. ASSUME NEW i \in 1..(n + 1) PROVE more[i] = more[i - 1] + q[i].size
      <4>1. CASE i = n + 1
        <5>1. more[i] = total[n] + q[n + 1].size /\ more[n] = total[n]
          BY <2>1, <4>1
        <5> QED
          BY <2>1, <4>1, <5>1
      <4>2. CASE i # n + 1
        <5>1. i \in 1..n /\ i - 1 \in 0..(n + 1) /\ i - 1 # n + 1
          BY <2>1, <4>2
        <5>2. more[i] = total[i] /\ more[i - 1] = total[i - 1]
          BY <2>1, <4>2, <5>1
        <5> QED
          BY <3>1, <5>1, <5>2 DEF Upto
      <4> QED
        BY <4>1, <4>2
    <3>6. more[0] = 0
      BY <2>1, <3>1 DEF Upto
    <3>7. Upto(n + 1, more)
      BY <3>4, <3>5, <3>6 DEF Upto
    <3> QED
      BY <3>7
  <2> QED
    BY <2>1, <2>2
<1> HIDE DEF S
<1>3. S \subseteq Nat
  BY DEF S
<1>4. S = Nat
  BY <1>1, <1>2, <1>3, NatSetInduction
<1>5. Len(q) \in S
  BY <1>4
<1>6. PICK total : Upto(Len(q), total)
  BY <1>5 DEF S
<1> QED
  BY <1>6 DEF Runs, Upto

(* Total is its last value.                                                *)
LEMMA TotalIs ==
    ASSUME NEW q \in Seq(Pending), NEW run, Runs(run, q)
    PROVE  Total(q) = run[Len(q)] /\ Total(q) \in Nat
<1> DEFINE Solves(f) == f = [i \in 0..Len(q) |->
                                IF i = 0 THEN 0 ELSE f[i - 1] + q[i].size]
           total == CHOOSE f : Solves(f)
<1>1. Total(q) = total[Len(q)]
  BY DEF Total
<1>2. Solves(run)
  <2>1. run = [i \in 0..Len(q) |-> run[i]]
    BY DEF Runs
  <2>2. \A i \in 0..Len(q) : run[i] = IF i = 0 THEN 0 ELSE run[i - 1] + q[i].size
    BY DEF Runs
  <2> QED
    BY <2>1, <2>2
<1>3. Solves(total)
  BY <1>2
<1> HIDE DEF total
<1> DEFINE S == {n \in Nat : n =< Len(q) => total[n] = run[n]}
<1>4. 0 \in S
  BY <1>3 DEF Runs
<1>5. ASSUME NEW n \in S PROVE n + 1 \in S
  <2>1. n \in Nat
    OBVIOUS
  <2>2. ASSUME n + 1 =< Len(q) PROVE total[n + 1] = run[n + 1]
    <3>1. total[n] = run[n]
      BY <2>1, <2>2
    <3>2. n + 1 \in 1..Len(q) /\ (n + 1) - 1 = n
      BY <2>1, <2>2
    <3>3. total[n + 1] = total[n] + q[n + 1].size
      BY <1>3, <3>2
    <3>4. run[n + 1] = run[n] + q[n + 1].size
      BY <3>2 DEF Runs
    <3> QED
      BY <3>1, <3>3, <3>4
  <2> QED
    BY <2>1, <2>2
<1> HIDE DEF S
<1>6. S \subseteq Nat
  BY DEF S
<1>7. S = Nat
  BY <1>4, <1>5, <1>6, NatSetInduction
<1>8. total[Len(q)] = run[Len(q)]
  BY <1>7 DEF S
<1> QED
  BY <1>1, <1>8 DEF Runs

(* What the steps of the connection do to the total.  First: it only       *)
(* depends on the sizes.                                                   *)
LEMMA TotalSame ==
    ASSUME NEW q \in Seq(Pending), NEW r \in Seq(Pending), Len(r) = Len(q),
           \A i \in 1..Len(q) : r[i].size = q[i].size
    PROVE  Total(r) = Total(q)
<1>1. PICK run : Runs(run, q)
  BY RunExists
<1>2. Runs(run, r)
  BY <1>1 DEF Runs
<1>3. Total(q) = run[Len(q)]
  BY <1>1, TotalIs
<1>4. Total(r) = run[Len(r)]
  BY <1>2, TotalIs
<1> QED
  BY <1>3, <1>4

(* A write at the end of the queue adds its size to the total.             *)
LEMMA TotalAppend ==
    ASSUME NEW q \in Seq(Pending), NEW item \in Pending
    PROVE  Total(Append(q, item)) = Total(q) + item.size
<1> DEFINE r == Append(q, item)
           n == Len(q)
<1>1. PICK run : Runs(run, q)
  BY RunExists
<1>2. /\ r \in Seq(Pending) /\ Len(r) = n + 1 /\ n \in Nat
      /\ \A i \in 1..n : r[i] = q[i]
      /\ r[n + 1] = item
  OBVIOUS
<1>3. item.size \in Nat
  BY PendingSize
<1> HIDE DEF r, n
<1> DEFINE more == [i \in 0..(n + 1) |-> IF i = n + 1 THEN run[n] + item.size ELSE run[i]]
<1>4. run \in [0..n -> Nat] /\ run[0] = 0
      /\ \A i \in 1..n : run[i] = run[i - 1] + q[i].size
  BY <1>1 DEF Runs, n
<1>5. Runs(more, r)
  <2>1. more \in [0..(n + 1) -> Nat]
    BY <1>2, <1>3, <1>4
  <2>2. more[0] = 0
    BY <1>2, <1>4
  <2>3. ASSUME NEW i \in 1..(n + 1) PROVE more[i] = more[i - 1] + r[i].size
    <3>1. CASE i = n + 1
      <4>1. more[i] = run[n] + item.size /\ more[n] = run[n] /\ i - 1 = n
        BY <1>2, <3>1
      <4> QED
        BY <1>2, <3>1, <4>1
    <3>2. CASE i # n + 1
      <4>1. i \in 1..n /\ i - 1 \in 0..n /\ i - 1 # n + 1
        BY <1>2, <3>2
      <4>2. more[i] = run[i] /\ more[i - 1] = run[i - 1] /\ r[i] = q[i]
        BY <1>2, <3>2, <4>1
      <4> QED
        BY <1>4, <4>1, <4>2
    <3> QED
      BY <3>1, <3>2
  <2> QED
    BY <1>2, <2>1, <2>2, <2>3 DEF Runs
<1>6. Total(r) = more[n + 1]
  BY <1>2, <1>5, TotalIs
<1>7. Total(q) = run[n]
  BY <1>1, TotalIs DEF n
<1>8. more[n + 1] = run[n] + item.size
  BY <1>2
<1> QED
  BY <1>6, <1>7, <1>8 DEF r

(* A write that leaves the queue takes its size from the total.            *)
LEMMA TotalTail ==
    ASSUME NEW q \in Seq(Pending), q # <<>>
    PROVE  Total(Tail(q)) = Total(q) - q[1].size
<1> DEFINE r == Tail(q)
           n == Len(q)
<1>2. /\ r \in Seq(Pending) /\ Len(r) = n - 1 /\ n \in Nat \ {0}
      /\ \A i \in 1..(n - 1) : r[i] = q[i + 1]
  OBVIOUS
<1>1. PICK run : Runs(run, r)
  BY <1>2, RunExists
<1>3. q[1].size \in Nat
  BY SizeType
<1> HIDE DEF r
<1>4. run \in [0..(n - 1) -> Nat] /\ run[0] = 0
      /\ \A i \in 1..(n - 1) : run[i] = run[i - 1] + r[i].size
  BY <1>1, <1>2 DEF Runs
<1> DEFINE more == [i \in 0..n |-> IF i = 0 THEN 0 ELSE run[i - 1] + q[1].size]
<1>5. Runs(more, q)
  <2>1. more \in [0..n -> Nat]
    BY <1>2, <1>3, <1>4
  <2>2. more[0] = 0
    BY <1>2
  <2>3. ASSUME NEW i \in 1..n PROVE more[i] = more[i - 1] + q[i].size
    <3>1. more[i] = run[i - 1] + q[1].size
      BY <1>2
    <3>2. CASE i = 1
      BY <1>2, <1>3, <1>4, <3>1, <3>2
    <3>3. CASE i # 1
      <4>1. i - 1 \in 1..(n - 1) /\ (i - 1) + 1 = i /\ i - 1 # 0
        BY <1>2, <3>3
      <4>2. more[i - 1] = run[(i - 1) - 1] + q[1].size
        BY <1>2, <4>1
      <4>3. run[i - 1] = run[(i - 1) - 1] + r[i - 1].size /\ r[i - 1] = q[i]
        BY <1>2, <1>4, <4>1
      <4>a. (i - 1) - 1 \in 0..(n - 1)
        BY <1>2, <4>1
      <4>4. run[(i - 1) - 1] \in Nat
        BY <1>4, <4>a
      <4>5. q[i].size \in Nat
        BY SizeType
      <4> QED
        BY <1>3, <3>1, <4>2, <4>3, <4>4, <4>5
    <3> QED
      BY <3>2, <3>3
  <2> QED
    BY <2>1, <2>2, <2>3 DEF Runs
<1>6. Total(q) = more[n]
  BY <1>5, TotalIs
<1>7. Total(r) = run[n - 1]
  BY <1>1, <1>2, TotalIs
<1>8. more[n] = run[n - 1] + q[1].size /\ run[n - 1] \in Nat
  BY <1>2, <1>4
<1> QED
  BY <1>3, <1>6, <1>7, <1>8 DEF r

(* Moving a frame to the front moves its size, too.                        *)
LEMMA TotalMove ==
    ASSUME NEW q \in Seq(Pending), NEW k \in 1..Len(q)
    PROVE  Total(MoveToFront(q, k)) = Total(q)
<1> DEFINE m == MoveToFront(q, k)
           n == Len(q)
           size == q[k].size
<1>1. PICK run : Runs(run, q)
  BY RunExists
<1>2. m \in Seq(Pending) /\ Len(m) = n /\ n \in Nat
  BY MoveToFrontType
<1>3. \A i \in 1..n : m[i] = IF i = 1 THEN q[k] ELSE IF i =< k THEN q[i - 1] ELSE q[i]
  BY DEF MoveToFront
<1>4. size \in Nat
  BY SizeType
<1>5. run \in [0..n -> Nat] /\ run[0] = 0
      /\ \A i \in 1..n : run[i] = run[i - 1] + q[i].size
  BY <1>1 DEF Runs
<1> HIDE DEF m
<1> DEFINE moved == [i \in 0..n |->
                        IF i = 0 THEN 0
                        ELSE IF i =< k THEN run[i - 1] + size ELSE run[i]]
<1>6. Runs(moved, m)
  <2>1. moved \in [0..n -> Nat]
    BY <1>2, <1>4, <1>5
  <2>2. moved[0] = 0
    BY <1>2
  <2>3. ASSUME NEW i \in 1..n PROVE moved[i] = moved[i - 1] + m[i].size
    <3>0. i - 1 \in 0..n /\ run[i] = run[i - 1] + q[i].size
      BY <1>2, <1>5
    <3>a. run[i - 1] \in Nat
      BY <1>5, <3>0
    <3>1. CASE i = 1
      <4>1. moved[i] = run[0] + size /\ m[i].size = size /\ moved[0] = 0
        BY <1>2, <1>3, <3>1
      <4> QED
        BY <1>4, <1>5, <3>1, <4>1
    <3>2. CASE i # 1 /\ i =< k
      <4>1. moved[i] = run[i - 1] + size /\ m[i] = q[i - 1]
        BY <1>2, <1>3, <3>2
      <4>2. i - 1 \in 1..n /\ i - 1 =< k /\ i - 1 # 0
        BY <1>2, <3>2
      <4>3. moved[i - 1] = run[(i - 1) - 1] + size
        BY <1>2, <4>2
      <4>4. run[i - 1] = run[(i - 1) - 1] + q[i - 1].size
        BY <1>5, <4>2
      <4>5. (i - 1) - 1 \in 0..n
        BY <1>2, <4>2
      <4>6. run[(i - 1) - 1] \in Nat
        BY <1>5, <4>5
      <4>7. q[i - 1].size \in Nat
        BY <4>2, SizeType
      <4> QED
        BY <1>4, <4>1, <4>3, <4>4, <4>6, <4>7
    <3>3. CASE i = k + 1
      <4>1. moved[i] = run[i] /\ m[i] = q[i]
        BY <1>2, <1>3, <3>3
      <4>2. moved[k] = run[k - 1] + size /\ run[k] = run[k - 1] + size /\ i - 1 = k
        BY <1>2, <1>5, <3>3
      <4> QED
        BY <3>0, <3>a, <4>1, <4>2
    <3>4. CASE i > k + 1
      <4>1. moved[i] = run[i] /\ m[i] = q[i] /\ moved[i - 1] = run[i - 1]
        BY <1>2, <1>3, <3>4
      <4> QED
        BY <3>0, <4>1
    <3> QED
      BY <3>1, <3>2, <3>3, <3>4
  <2> QED
    BY <1>2, <2>1, <2>2, <2>3 DEF Runs
<1>7. Total(m) = moved[n]
  BY <1>2, <1>6, TotalIs
<1>8. Total(q) = run[n]
  BY <1>1, TotalIs
<1>9. moved[n] = run[n]
  <2>1. CASE n = k
    <3>1. moved[n] = run[n - 1] + size
      BY <1>2, <2>1
    <3> QED
      BY <1>2, <1>5, <2>1, <3>1
  <2>2. CASE n # k
    BY <1>2, <2>2
  <2> QED
    BY <2>1, <2>2
<1> QED
  BY <1>7, <1>8, <1>9 DEF m

(* A total is a number.                                                    *)
LEMMA TotalNat ==
    ASSUME NEW q \in Seq(Pending)
    PROVE  Total(q) \in Nat
  BY RunExists, TotalIs

(* An empty queue totals nothing.                                          *)
LEMMA TotalEmpty == Total(<<>>) = 0
<1>1. <<>> \in Seq(Pending) /\ Len(<<>>) = 0
  OBVIOUS
<1>2. Runs([i \in 0..0 |-> 0], <<>>)
  BY <1>1 DEF Runs
<1>3. Total(<<>>) = [i \in 0..0 |-> 0][Len(<<>>)]
  BY <1>1, <1>2, TotalIs
<1> QED
  BY <1>1, <1>3

(* A turn of the drain loop only permutes what it finds.                   *)
LEMMA SubmitTotal ==
    ASSUME NEW q \in Seq(Pending), Submit(q)
    PROVE  Total(queue') = Total(q)
  BY TotalMove DEF Submit

(* A drain submits a fragment and queues or drops no bytes.                *)
LEMMA DrainTotal ==
    ASSUME NEW q \in Seq(Pending), Drain(q)
    PROVE  Total(queue') = Total(q)
  BY SubmitTotal DEF Drain

SizeInv == QueuedSizeExact /\ queuedSize =< MaxQueued

(* Every step adds and subtracts exactly the frames it takes in and out.   *)
LEMMA SizeStep ==
    ASSUME GattInv, SizeInv, [GattNext]_gattVars
    PROVE  SizeInv'
<1>1. /\ queue \in Seq(Pending) /\ queuedSize = Total(queue) /\ queuedSize \in Nat
      /\ queuedSize =< MaxQueued /\ MaxQueued \in Nat
  BY TotalNat, QueueAssumption DEF GattInv, DartTypeOK, SizeInv, QueuedSizeExact
<1>2. ASSUME UNCHANGED <<queue, queuedSize>> PROVE SizeInv'
  BY <1>1, <1>2 DEF SizeInv, QueuedSizeExact
<1>3. ASSUME TerminalFailure PROVE SizeInv'
  BY <1>1, <1>3, TotalEmpty DEF TerminalFailure, SizeInv, QueuedSizeExact
<1>4. ASSUME NEW priority \in Priorities, NEW size \in Sizes, Write(priority, size)
      PROVE  SizeInv'
  <2> DEFINE item == [write |-> Len(writes) + 1, priority |-> priority,
                      size |-> size, next |-> 0]
  <2>1. /\ Len(writes) < MaxWrites /\ queuedSize + size =< MaxQueued
        /\ queuedSize' = queuedSize + size /\ Drain(Append(queue, item))
    BY <1>4 DEF Write
  <2>2. item \in Pending
    BY <2>1, QueueAssumption DEF Pending, WriteIds, GattInv, DartTypeOK
  <2>3. item.size = size
    OBVIOUS
  <2> HIDE DEF item
  <2>4. Total(Append(queue, item)) = Total(queue) + size
    BY <1>1, <2>2, <2>3, TotalAppend
  <2>5. Append(queue, item) \in Seq(Pending)
    BY <1>1, <2>2
  <2>6. Total(queue') = Total(queue) + size
    BY <2>1, <2>4, <2>5, DrainTotal
  <2> QED
    BY <1>1, <2>1, <2>6 DEF SizeInv, QueuedSizeExact
<1>5. CASE Close
  BY <1>3, <1>5 DEF Close
<1>6. ASSUME StillFirst, Submitted PROVE SizeInv'
  <2>1. queue # <<>>
    BY <1>6 DEF StillFirst
  <2>2. CASE /\ queue[1].next + 1 < queue[1].size
             /\ Submit([queue EXCEPT ![1].next = queue[1].next + 1])
             /\ UNCHANGED queuedSize
    <3> DEFINE q == [queue EXCEPT ![1].next = queue[1].next + 1]
    <3>1. /\ q \in Seq(Pending) /\ Len(q) = Len(queue)
          /\ \A i \in 1..Len(queue) : q[i].size = queue[i].size
      <4>1. queue[1] \in Pending
        BY <1>1, <2>1
      <4>2. [queue[1] EXCEPT !.next = queue[1].next + 1] \in Pending
        BY <4>1 DEF Pending
      <4>3. q = [queue EXCEPT ![1] = [queue[1] EXCEPT !.next = queue[1].next + 1]]
        OBVIOUS
      <4>4. [queue[1] EXCEPT !.next = queue[1].next + 1].size = queue[1].size
        BY <4>1 DEF Pending
      <4> QED
        BY <1>1, <2>1, <4>2, <4>3, <4>4
    <3> HIDE DEF q
    <3>2. Total(q) = Total(queue)
      BY <1>1, <3>1, TotalSame
    <3>3. Total(queue') = Total(q)
      BY <2>2, <3>1, SubmitTotal DEF q
    <3> QED
      BY <1>1, <2>2, <3>2, <3>3 DEF SizeInv, QueuedSizeExact
  <2>3. CASE queuedSize' = queuedSize - queue[1].size /\ Submit(Tail(queue))
    <3>1. Tail(queue) \in Seq(Pending)
      BY <1>1, <2>1
    <3>2. Total(queue') = Total(queue) - queue[1].size
      BY <1>1, <2>1, <2>3, <3>1, SubmitTotal, TotalTail
    <3>3. queue[1].size \in Nat
      BY <1>1, <2>1, SizeType
    <3> QED
      BY <1>1, <2>3, <3>2, <3>3 DEF SizeInv, QueuedSizeExact
  <2> QED
    BY <1>6, <2>2, <2>3 DEF Submitted
<1>7. CASE Answered
  BY <1>2, <1>3, <1>6, <1>7 DEF Answered
<1>8. CASE Writable
  <2>1. CASE Drain(queue) /\ UNCHANGED queuedSize
    BY <1>1, <2>1, DrainTotal DEF SizeInv, QueuedSizeExact
  <2> QED
    BY <1>2, <1>8, <2>1 DEF Writable
<1>9. CASE Disconnected
  BY <1>2, <1>3, <1>9 DEF Disconnected
<1>10. CASE UNCHANGED dartVars
  BY <1>2, <1>10 DEF dartVars
<1> QED
  BY <1>4, <1>5, <1>7, <1>8, <1>9, <1>10
     DEF GattNext, NativeSubmit, NativeWriteDone, NativeDisconnect, Receive, gattVars

(* _queuedBytes is the size of what is queued and stays within the limit,  *)
(* whatever is written, finished, refused and failed.                      *)
THEOREM GattSizeCorrect == GattSpec => [](QueuedSizeExact /\ queuedSize =< MaxQueued)
<1>1. GattInit => SizeInv
  BY TotalEmpty, QueueAssumption DEF GattInit, SizeInv, QueuedSizeExact
<1>2. GattInv /\ SizeInv /\ [GattNext]_gattVars => SizeInv'
  BY SizeStep
<1> QED
  BY <1>1, <1>2, GattInvariant, PTL DEF GattSpec, SizeInv

-----------------------------------------------------------------------------
(* The native side and the remote peer                                     *)

NativeTypeOK ==
    /\ call \in Seq(Fragments)
    /\ inFlight \in 0..NativeSlots
    /\ toDart \in Seq(Answers \cup NativeEvents)
    /\ refusals \in 0..MaxRefusals
    /\ connected \in BOOLEAN
    /\ air \in Seq(Fragments)
    /\ partial \in Seq(Fragments)
    /\ frames \in Seq(Seq(Fragments))

(* What is submitted is a fragment of a queued frame.                      *)
LEMMA SubmitCall ==
    ASSUME NEW q \in Seq(Pending), call \in Seq(Fragments), Submit(q) \/ Drain(q)
    PROVE  call' \in Seq(Fragments)
<1>1. ASSUME NEW i \in 1..Len(q), call' = <<Fragment(q[i].write, q[i].next)>>
      PROVE  call' \in Seq(Fragments)
  <2>1. q[i] \in Pending
    OBVIOUS
  <2>2. Fragment(q[i].write, q[i].next) \in Fragments
    BY <2>1 DEF Pending, Fragment, Fragments
  <2> QED
    BY <1>1, <2>2
<1> QED
  BY <1>1 DEF Submit, Drain

(* The queue that an accepted fragment leaves to the next turn.            *)
LEMMA SubmittedQueue ==
    ASSUME GattInv, StillFirst, Submitted
    PROVE  \E q \in Seq(Pending) :
                /\ Submit(q)
                /\ \/ /\ queue[1].next + 1 < queue[1].size
                      /\ q = [queue EXCEPT ![1].next = queue[1].next + 1]
                      /\ UNCHANGED writes
                   \/ /\ queue[1].next + 1 = queue[1].size
                      /\ q = Tail(queue)
                      /\ writes' = [writes EXCEPT ![queue[1].write].state = "submitted"]
<1>1. queue \in Seq(Pending) /\ queue # <<>>
  BY DEF GattInv, DartTypeOK, StillFirst
<1>2. [queue EXCEPT ![1].next = queue[1].next + 1] \in Seq(Pending)
  <2>1. queue[1] \in Pending
    BY <1>1
  <2>2. [queue[1] EXCEPT !.next = queue[1].next + 1] \in Pending
    BY <2>1 DEF Pending
  <2>3. [queue EXCEPT ![1].next = queue[1].next + 1]
            = [queue EXCEPT ![1] = [queue[1] EXCEPT !.next = queue[1].next + 1]]
    OBVIOUS
  <2> QED
    BY <1>1, <2>2, <2>3
<1>3. Tail(queue) \in Seq(Pending)
  BY <1>1
<1> QED
  BY <1>2, <1>3 DEF Submitted

(* Every step keeps the types of the native side.                          *)
LEMMA NativeTypeStep ==
    ASSUME GattInv, NativeTypeOK, [GattNext]_gattVars
    PROVE  NativeTypeOK'
<1>1. ASSUME UNCHANGED <<inFlight, refusals, connected, remoteVars>>,
             call' \in Seq(Fragments), toDart' \in Seq(Answers \cup NativeEvents)
      PROVE  NativeTypeOK'
  BY <1>1 DEF NativeTypeOK, remoteVars
<1>2. queue \in Seq(Pending)
  BY DEF GattInv, DartTypeOK
<1>3. call \in Seq(Fragments) /\ toDart \in Seq(Answers \cup NativeEvents)
  BY DEF NativeTypeOK
<1>4. ASSUME NEW priority \in Priorities, NEW size \in Sizes, Write(priority, size)
      PROVE  NativeTypeOK'
  <2> DEFINE item == [write |-> Len(writes) + 1, priority |-> priority,
                      size |-> size, next |-> 0]
  <2>1. Len(writes) < MaxWrites /\ Drain(Append(queue, item))
    BY <1>4 DEF Write
  <2>2. item \in Pending
    BY <2>1, QueueAssumption DEF Pending, WriteIds, GattInv, DartTypeOK
  <2>3. Append(queue, item) \in Seq(Pending)
    BY <1>2, <2>2
  <2>4. call' \in Seq(Fragments)
    BY <1>3, <2>1, <2>3, SubmitCall
  <2> QED
    BY <1>1, <1>3, <1>4, <2>4 DEF Write
<1>5. CASE Close
  BY <1>5 DEF Close, NativeTypeOK, nativeVars, remoteVars
<1>6. CASE Answered \/ Writable \/ Disconnected
  <2>1. toDart' \in Seq(Answers \cup NativeEvents)
    BY <1>3, <1>6 DEF Answered, Writable, Disconnected
  <2>2. call' \in Seq(Fragments)
    <3>1. CASE StillFirst /\ Submitted
      <4>1. PICK q \in Seq(Pending) : Submit(q)
        BY <3>1, SubmittedQueue
      <4> QED
        BY <1>3, <4>1, SubmitCall
    <3>2. CASE Drain(queue)
      BY <1>2, <1>3, <3>2, SubmitCall
    <3> QED
      BY <1>3, <1>6, <3>1, <3>2 DEF Answered, Writable, Disconnected
  <2> QED
    BY <1>1, <1>6, <2>1, <2>2 DEF Answered, Writable, Disconnected
<1>7. CASE NativeSubmit
  <2>1. call' \in Seq(Fragments)
    BY <1>7 DEF NativeSubmit
  <2>2. toDart' \in Seq(Answers \cup NativeEvents)
    BY <1>3, <1>7 DEF NativeSubmit, Answers
  <2>3. air' \in Seq(Fragments)
    <3>1. call[1] \in Fragments /\ air \in Seq(Fragments)
      BY <1>3, <1>7 DEF NativeSubmit, NativeTypeOK
    <3> QED
      BY <1>7, <3>1 DEF NativeSubmit
  <2>4. inFlight' \in 0..NativeSlots /\ refusals' \in 0..MaxRefusals
    BY <1>7, QueueAssumption DEF NativeSubmit, NativeTypeOK
  <2> QED
    BY <1>7, <2>1, <2>2, <2>3, <2>4 DEF NativeSubmit, NativeTypeOK
<1>8. CASE NativeWriteDone
  <2>1. toDart' \in Seq(Answers \cup NativeEvents)
    BY <1>3, <1>8 DEF NativeWriteDone, NativeEvents
  <2>2. inFlight' \in 0..NativeSlots
    BY <1>8, QueueAssumption DEF NativeWriteDone, NativeTypeOK
  <2> QED
    BY <1>8, <2>1, <2>2 DEF NativeWriteDone, NativeTypeOK, remoteVars
<1>9. CASE NativeDisconnect
  <2>1. toDart' \in Seq(Answers \cup NativeEvents)
    BY <1>3, <1>9 DEF NativeDisconnect, NativeEvents
  <2>2. 0 \in 0..NativeSlots
    BY QueueAssumption
  <2>3. /\ inFlight' = 0 /\ connected' = FALSE /\ air' = <<>>
        /\ UNCHANGED <<call, refusals, partial, frames>>
    BY <1>9 DEF NativeDisconnect
  <2>4. air' \in Seq(Fragments)
    BY <2>3
  <2>5. connected' \in BOOLEAN
    BY <2>3, Zenon
  <2> QED
    BY <2>1, <2>2, <2>3, <2>4, <2>5 DEF NativeTypeOK
<1>10. CASE Receive
  <2>1. air # <<>> /\ air' = Tail(air) /\ air \in Seq(Fragments)
        /\ partial \in Seq(Fragments) /\ frames \in Seq(Seq(Fragments))
    BY <1>10 DEF Receive, NativeTypeOK
  <2>2. Head(air) \in Fragments /\ air' \in Seq(Fragments)
    BY <2>1
  <2>3. Append(partial, Head(air)) \in Seq(Fragments) /\ <<>> \in Seq(Fragments)
    BY <2>1, <2>2
  <2>4. /\ Append(frames, <<>>) \in Seq(Seq(Fragments))
        /\ Append(frames, Append(partial, Head(air))) \in Seq(Seq(Fragments))
    <3> HIDE DEF Fragments
    <3> QED
      BY <2>1, <2>3, AppendProperties
  <2>5. /\ partial' \in {<<>>, Append(partial, Head(air))}
        /\ frames' \in {frames, Append(frames, <<>>), Append(frames, Append(partial, Head(air)))}
    BY <1>10 DEF Receive
  <2>6. partial' \in Seq(Fragments) /\ frames' \in Seq(Seq(Fragments))
    BY <2>1, <2>3, <2>4, <2>5
  <2> QED
    BY <1>10, <2>2, <2>6 DEF Receive, NativeTypeOK, nativeVars
<1>11. CASE UNCHANGED gattVars
  BY <1>11 DEF gattVars, nativeVars, remoteVars, NativeTypeOK
<1> QED
  BY <1>4, <1>5, <1>6, <1>7, <1>8, <1>9, <1>10, <1>11 DEF GattNext

(* Every field of the connection, the plugin and the reassembler has its   *)
(* type in every reachable state, the byte count its bounds.               *)
THEOREM GattTypeCorrect == GattSpec => []GattTypeOK
<1>1. GattInit => NativeTypeOK
  BY QueueAssumption DEF GattInit, NativeTypeOK
<1>2. GattInv /\ NativeTypeOK /\ [GattNext]_gattVars => NativeTypeOK'
  BY NativeTypeStep
<1>3. GattInv /\ NativeTypeOK /\ QueuedSizeExact /\ queuedSize =< MaxQueued => GattTypeOK
  <2> SUFFICES ASSUME GattInv, NativeTypeOK, QueuedSizeExact, queuedSize =< MaxQueued
               PROVE  GattTypeOK
    OBVIOUS
  <2>1. queuedSize \in 0..MaxQueued
    BY TotalNat, QueueAssumption DEF GattInv, DartTypeOK, QueuedSizeExact
  <2> QED
    BY <2>1 DEF GattInv, DartTypeOK, NativeTypeOK, GattTypeOK, Writes
<1> QED
  BY <1>1, <1>2, <1>3, GattInvariant, GattSizeCorrect, PTL DEF GattSpec

-----------------------------------------------------------------------------
(* The stream of fragments                                                 *)

(* The fragment the reassembler is ready for - none means the first of any *)
(* frame - after f, with what it holds, and once all that is on the air    *)
(* has arrived.                                                            *)
After(f) == IF IsEnd(f) THEN <<>> ELSE <<Fragment(f.write, f.index + 1)>>
Held == IF partial = <<>> THEN <<>> ELSE <<Fragment(partial[1].write, Len(partial))>>
Expected == IF air = <<>> THEN Held ELSE After(air[Len(air)])

Fits(f, expected) == IF expected = <<>> THEN f.index = 0 ELSE f = expected[1]

(* What is in the reassembler and on the air continues one frame after     *)
(* another.                                                                *)
StreamInv ==
    /\ \A i \in 1..Len(partial) :
            /\ partial[i] = Fragment(partial[1].write, i - 1)
            /\ partial[i].write \in 1..Len(writes)
    /\ \A i \in 1..Len(air) : air[i].write \in 1..Len(writes)
    /\ air # <<>> => Fits(air[1], Held)
    /\ \A i, j \in 1..Len(air) : j = i + 1 => Fits(air[j], After(air[i]))

NoAnswer(events) == \A i \in 1..Len(events) : events[i] \notin Answers
OneAnswer(events) ==
    \A i, j \in 1..Len(events) :
        events[i] \in Answers /\ events[j] \in Answers => i = j
Confirmed(events) == \E i \in 1..Len(events) : events[i] = "submitted"

(* One fragment is outstanding at most, on its way to the plugin or        *)
(* answered, and only while a drain loop waits for it.                     *)
OneOutstanding ==
    /\ Len(call) =< 1
    /\ OneAnswer(toDart)
    /\ draining = Undrained => call = <<>> /\ NoAnswer(toDart)
    /\ call # <<>> => NoAnswer(toDart)

(* The fragment the drain loop goes on with, given whether the last one    *)
(* has been accepted without its knowing.                                  *)
Upcoming(h, n) == IF n \in {0, h.size} THEN <<>> ELSE <<Fragment(h.write, n)>>
PositionOf(q, accepted) ==
    IF q = <<>> THEN <<>>
    ELSE Upcoming(q[1], IF accepted THEN q[1].next + 1 ELSE q[1].next)

(* While the connection is open both ends of the link agree on it; and     *)
(* whatever happens to the connection, the fragment already on its way     *)
(* fits.                                                                   *)
SubmissionInv ==
    /\ call # <<>> /\ connected =>
            call[1].write \in 1..Len(writes) /\ Fits(call[1], Expected)
    /\ backend = "open" /\ call # <<>> =>
            call[1] = Fragment(queue[1].write, queue[1].next)
    /\ backend = "open" /\ connected =>
            Expected = PositionOf(queue, Confirmed(toDart))
    /\ ~connected => air = <<>>

(* Answers come and go.                                                    *)
LEMMA AnswersTail ==
    ASSUME NEW events \in Seq(Answers \cup NativeEvents), events # <<>>
    PROVE  /\ NoAnswer(events) => NoAnswer(Tail(events))
           /\ OneAnswer(events) => OneAnswer(Tail(events))
           /\ OneAnswer(events) /\ Head(events) \in Answers => NoAnswer(Tail(events))
           /\ Head(events) # "submitted" => (Confirmed(Tail(events)) <=> Confirmed(events))
<1> DEFINE t == Tail(events)
           n == Len(events)
<1>1. /\ Len(t) = n - 1 /\ n \in Nat \ {0} /\ Head(events) = events[1]
      /\ \A i \in 1..(n - 1) : t[i] = events[i + 1]
  OBVIOUS
<1> HIDE DEF t
<1>2. NoAnswer(events) => NoAnswer(t)
  BY <1>1 DEF NoAnswer
<1>3. OneAnswer(events) => OneAnswer(t)
  BY <1>1 DEF OneAnswer
<1>4. OneAnswer(events) /\ Head(events) \in Answers => NoAnswer(t)
  BY <1>1 DEF OneAnswer, NoAnswer
<1>5. ASSUME Head(events) # "submitted" PROVE Confirmed(t) <=> Confirmed(events)
  <2>1. ASSUME Confirmed(events) PROVE Confirmed(t)
    <3>1. PICK i \in 1..n : events[i] = "submitted"
      BY <2>1 DEF Confirmed
    <3>2. i - 1 \in 1..(n - 1) /\ (i - 1) + 1 = i
      BY <1>1, <1>5, <3>1
    <3>3. t[i - 1] = "submitted"
      BY <1>1, <3>1, <3>2
    <3> QED
      BY <1>1, <3>2, <3>3 DEF Confirmed
  <2>2. ASSUME Confirmed(t) PROVE Confirmed(events)
    BY <1>1, <2>2 DEF Confirmed
  <2> QED
    BY <2>1, <2>2
<1> QED
  BY <1>2, <1>3, <1>4, <1>5 DEF t

(* What the native side posts last: an answer is the only one if none was  *)
(* outstanding, and other events change nothing about answers.             *)
LEMMA AnswersAppend ==
    ASSUME NEW events \in Seq(Answers \cup NativeEvents), NEW e \in Answers \cup NativeEvents
    PROVE  /\ NoAnswer(events) => OneAnswer(Append(events, e))
           /\ e \notin Answers /\ NoAnswer(events) => NoAnswer(Append(events, e))
           /\ e \notin Answers /\ OneAnswer(events) => OneAnswer(Append(events, e))
           /\ Confirmed(Append(events, e)) <=> Confirmed(events) \/ e = "submitted"
<1> DEFINE t == Append(events, e)
           n == Len(events)
<1>1. /\ Len(t) = n + 1 /\ n \in Nat /\ t[n + 1] = e
      /\ \A i \in 1..n : t[i] = events[i]
      /\ \A i \in 1..(n + 1) : i \in 1..n \/ i = n + 1
  OBVIOUS
<1> HIDE DEF t
<1>2. NoAnswer(events) => OneAnswer(t)
  BY <1>1 DEF NoAnswer, OneAnswer
<1>3. e \notin Answers /\ NoAnswer(events) => NoAnswer(t)
  BY <1>1 DEF NoAnswer
<1>4. e \notin Answers /\ OneAnswer(events) => OneAnswer(t)
  BY <1>1 DEF OneAnswer
<1>5. Confirmed(t) <=> Confirmed(events) \/ e = "submitted"
  <2>1. ASSUME Confirmed(events) \/ e = "submitted" PROVE Confirmed(t)
    BY <1>1, <2>1 DEF Confirmed
  <2>2. ASSUME Confirmed(t) PROVE Confirmed(events) \/ e = "submitted"
    BY <1>1, <2>2 DEF Confirmed
  <2> QED
    BY <2>1, <2>2
<1> QED
  BY <1>2, <1>3, <1>4, <1>5 DEF t

(* Where no answer is on its way no fragment is confirmed.                 *)
LEMMA NoneConfirmed ==
    ASSUME NEW events, NoAnswer(events)
    PROVE  ~Confirmed(events)
  BY DEF NoAnswer, Confirmed, Answers

(* A fragment names its write and its place in it.                         *)
LEMMA FragmentFields ==
    ASSUME NEW w, NEW index
    PROVE  Fragment(w, index).write = w /\ Fragment(w, index).index = index
  BY DEF Fragment

(* The one fragment expected fits.                                         *)
LEMMA FitsOne ==
    ASSUME NEW f, NEW expected, expected = <<f>>
    PROVE  Fits(f, expected)
  BY DEF Fits

(* An accepted write keeps its size for good.                              *)
Grows ==
    /\ Len(writes') >= Len(writes)
    /\ \A w \in 1..Len(writes) : writes'[w].size = writes[w].size

(* No step changes the size of an accepted write.                          *)
LEMMA GrowsStep ==
    ASSUME GattInv, [GattNext]_gattVars
    PROVE  Grows
<1>0. writes \in Seq(Writes)
  BY DEF GattInv, DartTypeOK
<1>1. ASSUME UNCHANGED writes PROVE Grows
  BY <1>0, <1>1 DEF Grows
<1>2. ASSUME TerminalFailure PROVE Grows
  <2>1. Len(writes') = Len(writes)
    BY <1>0, <1>2, FailKeeps
  <2>2. writes' = [w \in 1..Len(writes) |->
            IF writes[w].state = "pending"
            THEN [writes[w] EXCEPT !.state = "failed"] ELSE writes[w]]
    BY <1>0, <1>2 DEF TerminalFailure
  <2>3. ASSUME NEW w \in 1..Len(writes) PROVE writes'[w].size = writes[w].size
    <3>1. writes[w] \in Writes
      BY <1>0
    <3> QED
      BY <2>2, <3>1 DEF Writes
  <2> QED
    BY <1>0, <2>1, <2>3 DEF Grows
<1>3. ASSUME NEW priority \in Priorities, NEW size \in Sizes, Write(priority, size)
      PROVE  Grows
  BY <1>0, <1>3 DEF Write, Grows
<1>4. ASSUME StillFirst, Submitted PROVE Grows
  <2>1. CASE UNCHANGED writes
    BY <1>1, <2>1
  <2>2. CASE writes' = [writes EXCEPT ![queue[1].write].state = "submitted"]
    <3>1. ASSUME NEW w \in 1..Len(writes) PROVE writes'[w].size = writes[w].size
      <4>1. writes[w] \in Writes
        BY <1>0
      <4> QED
        BY <1>0, <2>2, <4>1 DEF Writes
    <3>2. Len(writes') = Len(writes)
      BY <1>0, <2>2
    <3> QED
      BY <1>0, <3>1, <3>2 DEF Grows
  <2> QED
    BY <1>4, <2>1, <2>2 DEF Submitted
<1>5. CASE Close \/ Disconnected
  BY <1>1, <1>2, <1>5 DEF Close, Disconnected
<1>6. CASE Answered
  BY <1>1, <1>2, <1>4, <1>6 DEF Answered
<1>7. CASE Writable
  BY <1>1, <1>7 DEF Writable
<1>8. CASE UNCHANGED dartVars
  BY <1>1, <1>8 DEF dartVars
<1> QED
  BY <1>3, <1>5, <1>6, <1>7, <1>8
     DEF GattNext, NativeSubmit, NativeWriteDone, NativeDisconnect, Receive, gattVars

(* So what follows a fragment never changes,                               *)
LEMMA AfterKept ==
    ASSUME Grows, NEW f, f.write \in 1..Len(writes)
    PROVE  After(f)' = After(f)
  BY DEF Grows, After, IsEnd

(* nor what is expected, as long as nothing is sent or received.           *)
LEMMA StreamKept ==
    ASSUME GattInv, NativeTypeOK, StreamInv, FramesWhole, Grows, UNCHANGED remoteVars
    PROVE  StreamInv' /\ FramesWhole' /\ Expected' = Expected
<1>1. /\ air' = air /\ partial' = partial /\ frames' = frames
      /\ air \in Seq(Fragments) /\ partial \in Seq(Fragments)
      /\ Len(writes) \in Nat /\ Len(writes') \in Nat /\ Len(writes') >= Len(writes)
  <2>1. writes \in Seq(Writes)
    BY DEF GattInv, DartTypeOK
  <2> QED
    BY <2>1 DEF remoteVars, NativeTypeOK, Grows
<1>2. ASSUME NEW i \in 1..Len(air)
      PROVE  air[i].write \in 1..Len(writes') /\ After(air[i])' = After(air[i])
  <2>1. air[i].write \in 1..Len(writes)
    BY DEF StreamInv
  <2>2. PICK f : f = air[i]
    OBVIOUS
  <2>3. After(f)' = After(f)
    BY <2>1, <2>2, AfterKept
  <2>4. air'[i] = f
    BY <1>1, <2>2
  <2> QED
    BY <1>1, <2>1, <2>2, <2>3, <2>4
<1>3. Held' = Held
  BY <1>1 DEF Held
<1>4. Expected' = Expected
  <2>1. CASE air = <<>>
    BY <1>1, <1>3, <2>1 DEF Expected
  <2>2. CASE air # <<>>
    <3>1. Len(air) \in 1..Len(air)
      BY <1>1, <2>2
    <3>2. PICK f : f = air[Len(air)]
      OBVIOUS
    <3>3. f.write \in 1..Len(writes)
      BY <3>1, <3>2 DEF StreamInv
    <3>4. After(f)' = After(f)
      BY <3>3, AfterKept
    <3>5. air'[Len(air')] = f
      BY <1>1, <3>2
    <3>6. Expected' = After(f)'
      BY <1>1, <2>2, <3>5 DEF Expected
    <3> QED
      BY <2>2, <3>2, <3>4, <3>6 DEF Expected
  <2> QED
    BY <2>1, <2>2
<1>5. \A i \in 1..Len(partial') :
            /\ partial'[i] = Fragment(partial'[1].write, i - 1)
            /\ partial'[i].write \in 1..Len(writes')
  BY <1>1 DEF StreamInv
<1>6. \A i, j \in 1..Len(air') : j = i + 1 => Fits(air[j], After(air[i]))'
  <2> SUFFICES ASSUME NEW i \in 1..Len(air), NEW j \in 1..Len(air), j = i + 1
               PROVE  Fits(air[j], After(air[i]))'
    BY <1>1
  <2>1. Fits(air[j], After(air[i]))
    BY DEF StreamInv
  <2> QED
    BY <1>1, <1>2, <2>1 DEF Fits
<1>7. air' # <<>> => Fits(air[1], Held)'
  BY <1>1, <1>3 DEF StreamInv, Fits
<1>8. StreamInv'
  BY <1>1, <1>2, <1>5, <1>6, <1>7 DEF StreamInv
<1>9. FramesWhole'
  <2> SUFFICES ASSUME NEW n \in 1..Len(frames)
               PROVE  \E w \in 1..Len(writes') :
                        frames[n] = [i \in 1..writes'[w].size |-> Fragment(w, i - 1)]
    BY <1>1 DEF FramesWhole
  <2>1. PICK w \in 1..Len(writes) :
            frames[n] = [i \in 1..writes[w].size |-> Fragment(w, i - 1)]
    BY DEF FramesWhole
  <2>2. w \in 1..Len(writes') /\ writes'[w].size = writes[w].size
    BY <1>1 DEF Grows
  <2> QED
    BY <2>1, <2>2
<1> QED
  BY <1>4, <1>8, <1>9

(* The reassembler takes the fragment it is ready for, and completes a     *)
(* frame only when it holds all of it.                                     *)
LEMMA ReceiveStep ==
    ASSUME GattInv, NativeTypeOK, StreamInv, FramesWhole, Receive
    PROVE  StreamInv' /\ FramesWhole' /\ Expected' = Expected
<1> DEFINE n == Len(air)
<1>1. /\ air # <<>> /\ air' = Tail(air) /\ writes' = writes
      /\ air \in Seq(Fragments) /\ partial \in Seq(Fragments)
      /\ frames \in Seq(Seq(Fragments)) /\ Len(writes) \in Nat
  BY DEF Receive, dartVars, NativeTypeOK, GattInv, DartTypeOK
<1>2. PICK f : f = air[1]
  OBVIOUS
<1>3. f \in Fragments /\ f = Head(air) /\ f.write \in 1..Len(writes) /\ Fits(f, Held)
  BY <1>1, <1>2 DEF StreamInv
<1>4. f.index = Len(partial) /\ (partial # <<>> => f.write = partial[1].write)
  BY <1>1, <1>3 DEF Fits, Held, Fragment
<1>5. f = Fragment(f.write, f.index)
  BY <1>3 DEF Fragments, Fragment
<1> DEFINE grown == Append(partial, f)
<1>6. /\ grown \in Seq(Fragments) /\ Len(grown) = Len(partial) + 1
      /\ \A i \in 1..Len(partial) : grown[i] = partial[i]
      /\ grown[Len(partial) + 1] = f
  BY <1>1, <1>3, AppendProperties
<1> HIDE DEF grown
<1>7. \A i \in 1..Len(grown) : grown[i] = Fragment(f.write, i - 1)
  <2> SUFFICES ASSUME NEW i \in 1..Len(grown) PROVE grown[i] = Fragment(f.write, i - 1)
    OBVIOUS
  <2>1. CASE i \in 1..Len(partial)
    <3>1. partial[i] = Fragment(partial[1].write, i - 1) /\ partial # <<>>
      BY <1>1, <2>1 DEF StreamInv
    <3> QED
      BY <1>4, <1>6, <2>1, <3>1
  <2>2. CASE i = Len(partial) + 1
    <3>1. i - 1 = f.index
      BY <1>1, <1>4, <2>2
    <3> QED
      BY <1>5, <1>6, <2>2, <3>1
  <2> QED
    BY <1>1, <1>6, <2>1, <2>2
<1>8. /\ Held' = After(f)
      /\ \A i \in 1..Len(partial') :
            /\ partial'[i] = Fragment(partial'[1].write, i - 1)
            /\ partial'[i].write \in 1..Len(writes)
      /\ FramesWhole'
  <2>1. Contiguous(f)
    BY <1>4 DEF Contiguous
  <2>2. CASE ~IsEnd(f)
    <3>1. partial' = grown /\ frames' = frames
      BY <1>3, <2>1, <2>2 DEF Receive, grown
    <3>2. grown # <<>> /\ 1 \in 1..Len(grown) /\ Len(grown) = f.index + 1
      BY <1>1, <1>4, <1>6
    <3>3. grown[1].write = f.write
      BY <1>7, <3>2, FragmentFields
    <3>4. Held' = <<Fragment(f.write, f.index + 1)>>
      BY <3>1, <3>2, <3>3 DEF Held
    <3>5. \A i \in 1..Len(grown) : grown[i].write = f.write
      BY <1>7, FragmentFields
    <3>6. FramesWhole'
      BY <1>1, <3>1 DEF FramesWhole
    <3> QED
      BY <1>3, <1>7, <2>2, <3>1, <3>3, <3>4, <3>5, <3>6 DEF After
  <2>3. CASE IsEnd(f)
    <3>1. partial' = <<>> /\ frames' = Append(frames, grown)
      BY <1>3, <2>1, <2>3 DEF Receive, grown
    <3>2. Held' = After(f)
      BY <2>3, <3>1 DEF Held, After
    <3>3. grown = [i \in 1..writes[f.write].size |-> Fragment(f.write, i - 1)]
      <4>1. Len(grown) = writes[f.write].size
        BY <1>1, <1>4, <1>6, <2>3 DEF IsEnd
      <4>2. grown = [i \in 1..Len(grown) |-> grown[i]]
        BY <1>6
      <4> QED
        BY <1>7, <4>1, <4>2
    <3>4. /\ Len(frames') = Len(frames) + 1 /\ Len(frames) \in Nat
          /\ \A k \in 1..Len(frames) : frames'[k] = frames[k]
          /\ frames'[Len(frames) + 1] = grown
      <4> HIDE DEF Fragments
      <4> QED
        BY <1>1, <1>6, <3>1, AppendProperties
    <3>5. FramesWhole'
      <4> SUFFICES ASSUME NEW k \in 1..Len(frames')
                   PROVE  \E w \in 1..Len(writes) :
                            frames'[k] = [i \in 1..writes[w].size |-> Fragment(w, i - 1)]
        BY <1>1 DEF FramesWhole
      <4>1. CASE k \in 1..Len(frames)
        BY <3>4, <4>1 DEF FramesWhole
      <4>2. CASE k = Len(frames) + 1
        BY <1>3, <3>3, <3>4, <4>2
      <4> QED
        BY <3>4, <4>1, <4>2
    <3> QED
      BY <3>1, <3>2, <3>5
  <2> QED
    BY <2>2, <2>3
<1>9. /\ Len(air') = n - 1 /\ n \in Nat \ {0}
      /\ \A i \in 1..(n - 1) : air'[i] = air[i + 1]
  BY <1>1
<1>10. \A g : After(g)' = After(g)
  BY <1>1 DEF After, IsEnd
<1>11. Expected' = Expected
  <2>1. CASE n = 1
    <3>1. air' = <<>> /\ Expected = After(f)
      BY <1>1, <1>2, <1>9, <2>1 DEF Expected
    <3> QED
      BY <1>8, <3>1 DEF Expected
  <2>2. CASE n # 1
    <3>1. air' # <<>> /\ air'[Len(air')] = air[n]
      BY <1>9, <2>2
    <3>2. PICK g : g = air[n]
      OBVIOUS
    <3>3. Expected = After(g)
      BY <1>1, <3>2 DEF Expected
    <3>4. After(g)' = After(g) /\ air'[Len(air')] = g
      BY <1>10, <3>1, <3>2
    <3>5. Expected' = After(g)'
      BY <3>1, <3>4 DEF Expected
    <3> QED
      BY <3>3, <3>4, <3>5
  <2> QED
    BY <2>1, <2>2
<1>12. StreamInv'
  <2>1. \A i \in 1..Len(air') : air'[i].write \in 1..Len(writes')
    BY <1>1, <1>9 DEF StreamInv
  <2>2. air' # <<>> => Fits(air[1], Held)'
    <3> SUFFICES ASSUME air' # <<>> PROVE Fits(air'[1], Held')
      BY DEF Fits
    <3>1. n > 1 /\ 1 \in 1..n /\ 2 \in 1..n /\ air'[1] = air[2]
      BY <1>9
    <3>2. Fits(air[2], After(air[1]))
      BY <3>1 DEF StreamInv
    <3> QED
      BY <1>2, <1>8, <3>1, <3>2
  <2>3. ASSUME NEW i \in 1..Len(air'), NEW j \in 1..Len(air'), j = i + 1
        PROVE  Fits(air[j], After(air[i]))'
    <3>1. i + 1 \in 1..n /\ j + 1 \in 1..n /\ j + 1 = (i + 1) + 1
      BY <1>9, <2>3
    <3>2. Fits(air[j + 1], After(air[i + 1]))
      BY <3>1 DEF StreamInv
    <3>3. air'[j] = air[j + 1] /\ air'[i] = air[i + 1]
      BY <1>9
    <3>4. PICK g : g = air[i + 1]
      OBVIOUS
    <3>5. After(g)' = After(g)
      BY <1>10
    <3> QED
      BY <3>2, <3>3, <3>4, <3>5, <1>1 DEF Fits, After, IsEnd
  <2> QED
    BY <1>1, <1>8, <2>1, <2>2, <2>3 DEF StreamInv
<1> QED
  BY <1>8, <1>11, <1>12

(* A turn of the drain loop that finds nothing outstanding submits the     *)
(* fragment the other end is ready for.                                    *)
LEMMA TurnKeeps ==
    ASSUME NEW q \in Seq(Pending), writes' \in Seq(Writes), QueueInv(q, writes'), Submit(q),
           call = <<>>, NoAnswer(toDart'), connected' => Expected' = PositionOf(q, FALSE),
           ~connected' => air' = <<>>
    PROVE  OneOutstanding' /\ SubmissionInv'
<1>1. ~Confirmed(toDart')
  BY NoneConfirmed
<1>2. OneAnswer(toDart')
  BY DEF NoAnswer, OneAnswer
<1>a. \A r : PositionOf(r, Confirmed(toDart')) = PositionOf(r, FALSE)
  BY <1>1 DEF PositionOf
<1>3. CASE q = <<>> /\ queue' = q /\ draining' = Undrained /\ UNCHANGED call
  <2>1. call' = <<>> /\ Len(call') = 0
    BY <1>3
  <2>2. OneOutstanding'
    BY <1>2, <2>1 DEF OneOutstanding
  <2>3. connected' => Expected' = PositionOf(queue', Confirmed(toDart'))
    BY <1>3, <1>a
  <2> QED
    BY <2>1, <2>2, <2>3 DEF SubmissionInv
<1>4. ASSUME NEW i \in 1..Len(q), IsNext(q, i), queue' = MoveToFront(q, i),
             draining' = q[i].write, call' = <<Fragment(q[i].write, q[i].next)>>
      PROVE  OneOutstanding' /\ SubmissionInv'
  <2>1. queue' \in Seq(Pending) /\ Len(queue') = Len(q) /\ queue'[1] = q[i] /\ q # <<>>
    BY <1>4, MoveToFrontType
  <2>2. queue' # <<>>
    BY <2>1
  <2>3. q[i] \in Pending /\ q[i].write \in 1..Len(writes') /\ q[i].next < q[i].size
    BY DEF QueueInv, QueuedArePending
  <2>4. draining' # Undrained
    BY <1>4, <2>3, QueueAssumption DEF Pending, WriteIds
  <2>5. OneOutstanding'
    BY <1>2, <1>4, <2>4 DEF OneOutstanding
  <2>6. q[1].next # 0 => i = 1
    BY <1>4 DEF IsNext
  <2>7. q[1].next = 0 => q[i].next = 0
    BY DEF QueueInv, OnlyFirstStarted
  <2>8. PositionOf(queue', FALSE) = PositionOf(q, FALSE)
    BY <2>1, <2>2, <2>6, <2>7 DEF PositionOf, Upcoming
  <2>9. Fits(Fragment(q[i].write, q[i].next), PositionOf(q, FALSE))
    <3>1. CASE q[1].next = 0
      BY <2>1, <2>7, <3>1, FragmentFields DEF PositionOf, Upcoming, Fits
    <3>2. CASE q[1].next # 0
      <4>1. i = 1 /\ q[1].next \notin {0, q[1].size}
        BY <2>3, <2>6, <3>2 DEF Pending
      <4>2. PositionOf(q, FALSE) = <<Fragment(q[1].write, q[1].next)>>
        BY <2>1, <4>1 DEF PositionOf, Upcoming
      <4>3. PositionOf(q, FALSE) = <<Fragment(q[i].write, q[i].next)>>
        BY <4>1, <4>2
      <4> QED
        BY <4>3, FitsOne
    <3> QED
      BY <3>1, <3>2
  <2>10. call'[1] = Fragment(q[i].write, q[i].next)
    BY <1>4
  <2>11. call'[1].write \in 1..Len(writes')
    BY <2>3, <2>10, FragmentFields
  <2>12. connected' => Fits(call'[1], Expected')
    BY <2>9, <2>10
  <2>13. connected' => Expected' = PositionOf(queue', Confirmed(toDart'))
    BY <1>a, <2>8
  <2>14. call'[1] = Fragment(queue'[1].write, queue'[1].next)
    BY <2>1, <2>10
  <2> QED
    BY <2>5, <2>11, <2>12, <2>13, <2>14 DEF SubmissionInv, Fits
<1> QED
  BY <1>3, <1>4 DEF Submit

(* What only moves events along, or ends the connection, disturbs nothing. *)
LEMMA FailedKeeps ==
    ASSUME GattInv, NativeTypeOK, OneOutstanding, SubmissionInv, Grows,
           UNCHANGED <<call, connected, remoteVars>>, Expected' = Expected,
           backend' = "failed", draining' \in {draining, Undrained},
           toDart' = toDart \/ (toDart # <<>> /\ toDart' = Tail(toDart)),
           draining' = draining \/ (toDart # <<>> /\ Head(toDart) \in Answers
                                        /\ toDart' = Tail(toDart))
    PROVE  OneOutstanding' /\ SubmissionInv'
<1>1. toDart \in Seq(Answers \cup NativeEvents)
  BY DEF NativeTypeOK
<1>2. OneAnswer(toDart') /\ (NoAnswer(toDart) => NoAnswer(toDart'))
  BY <1>1, AnswersTail DEF OneOutstanding
<1>3. ASSUME toDart # <<>>, Head(toDart) \in Answers, toDart' = Tail(toDart)
      PROVE  call' = <<>> /\ NoAnswer(toDart')
  <2>1. NoAnswer(toDart')
    BY <1>1, <1>3, AnswersTail DEF OneOutstanding
  <2>2. ~NoAnswer(toDart)
    <3>1. 1 \in 1..Len(toDart) /\ toDart[1] = Head(toDart)
      BY <1>1, <1>3
    <3> QED
      BY <1>3, <3>1 DEF NoAnswer
  <2> QED
    BY <2>1, <2>2 DEF OneOutstanding
<1>4. OneOutstanding'
  BY <1>2, <1>3 DEF OneOutstanding
<1>5. Len(writes) \in Nat /\ Len(writes') >= Len(writes) /\ Len(writes') \in Nat
  <2>1. writes \in Seq(Writes)
    BY DEF GattInv, DartTypeOK
  <2> QED
    BY <2>1 DEF Grows
<1>6. SubmissionInv'
  BY <1>5 DEF SubmissionInv, Fits, remoteVars
<1> QED
  BY <1>4, <1>6

(* One step per action: the fragment on its way is the one the other end   *)
(* is ready for.                                                           *)
LEMMA WriteSubmission ==
    ASSUME GattInv, GattInv', NativeTypeOK, OneOutstanding, SubmissionInv, Grows,
           Expected' = Expected,
           NEW priority \in Priorities, NEW size \in Sizes, Write(priority, size)
    PROVE  OneOutstanding' /\ SubmissionInv'
<1> DEFINE item == [write |-> Len(writes) + 1, priority |-> priority,
                    size |-> size, next |-> 0]
           rec == [priority |-> priority, size |-> size, state |-> "pending"]
           q == Append(queue, item)
<1>1. /\ Len(writes) < MaxWrites /\ backend = "open" /\ writes' = Append(writes, rec)
      /\ UNCHANGED <<backend, toDart, connected, air>> /\ Drain(q)
  BY DEF Write, remoteVars
<1>2. /\ queue \in Seq(Pending) /\ writes \in Seq(Writes) /\ QueueInv(queue, writes)
      /\ writes' \in Seq(Writes)
  BY DEF GattInv, DartTypeOK
<1>3. q \in Seq(Pending) /\ QueueInv(q, writes')
  BY <1>1, <1>2, AppendKeeps
<1>4. /\ queue # <<>> => q[1] = queue[1]
      /\ queue = <<>> => q[1] = item
      /\ q # <<>>
  <2>1. item \in Pending
    BY <1>1, <1>2, QueueAssumption DEF Pending, WriteIds
  <2> HIDE DEF item
  <2> QED
    BY <1>2, <2>1, AppendProperties
<1>5. item.next = 0
  OBVIOUS
<1> HIDE DEF q, item
<1>6. PositionOf(q, FALSE) = PositionOf(queue, FALSE)
  BY <1>4, <1>5 DEF PositionOf, Upcoming
<1>7. CASE draining = Undrained /\ Submit(q)
  <2>1. call = <<>> /\ NoAnswer(toDart')
    BY <1>1, <1>7 DEF OneOutstanding
  <2>2. ~Confirmed(toDart)
    BY <1>1, <2>1, NoneConfirmed
  <2>3. connected => Expected = PositionOf(queue, FALSE)
    BY <1>1, <2>2 DEF SubmissionInv, PositionOf
  <2>4. connected' => Expected' = PositionOf(q, FALSE)
    BY <1>1, <1>6, <2>3
  <2>5. ~connected' => air' = <<>>
    BY <1>1 DEF SubmissionInv
  <2> QED
    BY <1>2, <1>3, <1>7, <2>1, <2>4, <2>5, TurnKeeps
<1>8. CASE draining # Undrained /\ queue' = q /\ UNCHANGED <<draining, call>>
  <2>1. queue # <<>>
    BY <1>1, <1>8 DEF GattInv, DrainInv
  <2>2. OneOutstanding'
    BY <1>1, <1>8 DEF OneOutstanding
  <2>3. PositionOf(queue', Confirmed(toDart')) = PositionOf(queue, Confirmed(toDart))
    BY <1>1, <1>4, <1>8, <2>1 DEF PositionOf
  <2>4. Len(writes) \in Nat /\ Len(writes') \in Nat /\ Len(writes') >= Len(writes)
    BY <1>2 DEF Grows
  <2>5. queue'[1] = queue[1]
    BY <1>4, <1>8, <2>1
  <2> QED
    BY <1>1, <1>8, <2>2, <2>3, <2>4, <2>5 DEF SubmissionInv, Fits
<1> QED
  BY <1>1, <1>7, <1>8 DEF Drain

(* The answer a drain loop has waited for.                                 *)
LEMMA AnsweredSubmission ==
    ASSUME GattInv, GattInv', NativeTypeOK, OneOutstanding, SubmissionInv, Grows,
           Expected' = Expected, Answered
    PROVE  OneOutstanding' /\ SubmissionInv'
<1>1. /\ toDart # <<>> /\ Head(toDart) \in Answers /\ toDart' = Tail(toDart)
      /\ UNCHANGED <<connected, remoteVars>>
      /\ toDart \in Seq(Answers \cup NativeEvents)
  BY DEF Answered, NativeTypeOK
<1>2. NoAnswer(toDart')
  BY <1>1, AnswersTail DEF OneOutstanding
<1>3. call = <<>> /\ draining # Undrained
  <2>1. 1 \in 1..Len(toDart) /\ toDart[1] = Head(toDart)
    BY <1>1
  <2>2. ~NoAnswer(toDart)
    BY <1>1, <2>1 DEF NoAnswer
  <2> QED
    BY <2>2 DEF OneOutstanding
<1>4. backend = "open" => StillFirst
  BY <1>3 DEF GattInv, DrainInv, StillFirst
<1>5. /\ queue \in Seq(Pending) /\ writes \in Seq(Writes) /\ QueueInv(queue, writes)
      /\ writes' \in Seq(Writes) /\ backend \in {"open", "failed"}
  BY DEF GattInv, DartTypeOK
<1>6. ASSUME backend' = "failed", draining' = Undrained, UNCHANGED call
      PROVE  OneOutstanding' /\ SubmissionInv'
  BY <1>1, <1>6, FailedKeeps
<1>7. CASE ~StillFirst /\ draining' = Undrained /\ UNCHANGED <<backend, call>>
  BY <1>4, <1>5, <1>6, <1>7
<1>8. CASE TerminalFailure /\ draining' = Undrained /\ UNCHANGED call
  BY <1>6, <1>8 DEF TerminalFailure
<1>9. CASE /\ StillFirst /\ Head(toDart) = "temporarilyUnavailable"
           /\ draining' = Undrained /\ UNCHANGED <<backend, queue, writes, call>>
  <2>1. Confirmed(toDart') <=> Confirmed(toDart)
    BY <1>1, <1>9, AnswersTail
  <2>2. PositionOf(queue', Confirmed(toDart')) = PositionOf(queue, Confirmed(toDart))
    BY <1>9, <2>1 DEF PositionOf
  <2>3. OneAnswer(toDart')
    BY <1>2 DEF NoAnswer, OneAnswer
  <2>4. call' = <<>> /\ Len(call') = 0
    BY <1>3, <1>9
  <2>5. OneOutstanding'
    BY <1>2, <2>3, <2>4 DEF OneOutstanding
  <2> QED
    BY <1>1, <1>9, <2>2, <2>4, <2>5 DEF SubmissionInv, remoteVars
<1>10. CASE StillFirst /\ Head(toDart) = "submitted" /\ Submitted /\ UNCHANGED backend
  <2>1. PICK q \in Seq(Pending) :
                /\ Submit(q)
                /\ \/ /\ queue[1].next + 1 < queue[1].size
                      /\ q = [queue EXCEPT ![1].next = queue[1].next + 1]
                      /\ UNCHANGED writes
                   \/ /\ queue[1].next + 1 = queue[1].size
                      /\ q = Tail(queue)
                      /\ writes' = [writes EXCEPT ![queue[1].write].state = "submitted"]
    BY <1>10, SubmittedQueue
  <2>2. backend = "open" /\ queue # <<>>
    BY <1>10 DEF StillFirst
  <2>3. Confirmed(toDart)
    <3>1. 1 \in 1..Len(toDart) /\ toDart[1] = Head(toDart)
      BY <1>1
    <3> QED
      BY <1>10, <3>1 DEF Confirmed
  <2>4. queue[1] \in Pending /\ 1 \in 1..Len(queue)
    BY <1>5, <2>2
  <2>5. queue[1].next \in Nat /\ queue[1].size \in Nat
    BY <2>4, PendingSize DEF Pending
  <2>6. connected => Expected = Upcoming(queue[1], queue[1].next + 1)
    BY <2>2, <2>3 DEF SubmissionInv, PositionOf
  <2>7. QueueInv(q, writes') /\ PositionOf(q, FALSE) = Upcoming(queue[1], queue[1].next + 1)
    <3>1. CASE /\ queue[1].next + 1 < queue[1].size
               /\ q = [queue EXCEPT ![1].next = queue[1].next + 1]
               /\ UNCHANGED writes
      <4>1. QueueInv(q, writes')
        BY <1>5, <2>2, <3>1, AdvanceKeeps
      <4>2. /\ q # <<>> /\ q[1].next = queue[1].next + 1
            /\ q[1].size = queue[1].size /\ q[1].write = queue[1].write
        BY <1>5, <2>2, <2>4, <3>1 DEF Pending
      <4>3. PositionOf(q, FALSE) = Upcoming(q[1], q[1].next)
        BY <4>2 DEF PositionOf
      <4> QED
        BY <4>1, <4>2, <4>3 DEF Upcoming
    <3>2. CASE /\ queue[1].next + 1 = queue[1].size
               /\ q = Tail(queue)
               /\ writes' = [writes EXCEPT ![queue[1].write].state = "submitted"]
      <4>1. QueueInv(q, writes')
        BY <1>5, <2>2, <3>2, FinishKeeps
      <4>2. Upcoming(queue[1], queue[1].next + 1) = <<>>
        BY <3>2 DEF Upcoming
      <4>3. q # <<>> => q[1].next = 0
        <5>1. q # <<>> => q[1] = queue[2] /\ 2 \in 2..Len(queue)
          BY <1>5, <2>2, <3>2
        <5> QED
          BY <1>5, <5>1 DEF QueueInv, OnlyFirstStarted
      <4> QED
        BY <4>1, <4>2, <4>3 DEF PositionOf, Upcoming
    <3> QED
      BY <2>1, <3>1, <3>2
  <2>8. connected' => Expected' = PositionOf(q, FALSE)
    BY <1>1, <2>6, <2>7
  <2>9. ~connected' => air' = <<>>
    BY <1>1 DEF SubmissionInv, remoteVars
  <2> QED
    BY <1>2, <1>3, <1>5, <2>1, <2>7, <2>8, <2>9, TurnKeeps
<1> QED
  BY <1>7, <1>8, <1>9, <1>10 DEF Answered

(* The writable event submits the fragment expected next, or none, and only*)
(* while none is outstanding.                                              *)
LEMMA WritableSubmission ==
    ASSUME GattInv, NativeTypeOK, OneOutstanding, SubmissionInv,
           Expected' = Expected, Writable
    PROVE  OneOutstanding' /\ SubmissionInv'
<1>1. /\ toDart # <<>> /\ Head(toDart) = "writable" /\ toDart' = Tail(toDart)
      /\ UNCHANGED <<backend, writes, connected, air>>
      /\ toDart \in Seq(Answers \cup NativeEvents)
  BY DEF Writable, NativeTypeOK, remoteVars
<1>2. /\ NoAnswer(toDart) => NoAnswer(toDart')
      /\ OneAnswer(toDart')
      /\ Confirmed(toDart') <=> Confirmed(toDart)
  BY <1>1, AnswersTail DEF OneOutstanding
<1>3. /\ queue \in Seq(Pending) /\ writes' \in Seq(Writes) /\ QueueInv(queue, writes')
  BY <1>1 DEF GattInv, DartTypeOK
<1>4. CASE UNCHANGED <<queue, draining, call>>
  <2>1. PositionOf(queue', Confirmed(toDart')) = PositionOf(queue, Confirmed(toDart))
    BY <1>2, <1>4 DEF PositionOf
  <2>2. OneOutstanding'
    BY <1>2, <1>4 DEF OneOutstanding
  <2> QED
    BY <1>1, <1>4, <2>1, <2>2 DEF SubmissionInv, Fits
<1>5. CASE backend = "open" /\ draining = Undrained /\ Submit(queue)
  <2>1. call = <<>> /\ NoAnswer(toDart') /\ NoAnswer(toDart)
    BY <1>2, <1>5 DEF OneOutstanding
  <2>2. ~Confirmed(toDart)
    BY <2>1, NoneConfirmed
  <2>3. connected => Expected = PositionOf(queue, FALSE)
    BY <1>5, <2>2 DEF SubmissionInv, PositionOf
  <2>4. connected' => Expected' = PositionOf(queue, FALSE)
    BY <1>1, <2>3
  <2>5. ~connected' => air' = <<>>
    BY <1>1 DEF SubmissionInv
  <2> QED
    BY <1>3, <1>5, <2>1, <2>4, <2>5, TurnKeeps
<1> QED
  BY <1>4, <1>5 DEF Writable, Drain

(* The plugin puts on the air the fragment it was given, which fits.       *)
LEMMA NativeSubmitStream ==
    ASSUME GattInv, NativeTypeOK, StreamInv, FramesWhole, OneOutstanding, SubmissionInv,
           NativeSubmit
    PROVE  StreamInv' /\ FramesWhole' /\ OneOutstanding' /\ SubmissionInv'
<1>1. /\ call # <<>> /\ call' = <<>> /\ Len(call') = 0
      /\ UNCHANGED <<backend, queue, queuedSize, draining, writes, connected, partial, frames>>
      /\ toDart \in Seq(Answers \cup NativeEvents) /\ air \in Seq(Fragments)
      /\ call \in Seq(Fragments)
  BY DEF NativeSubmit, dartVars, NativeTypeOK
<1>2. NoAnswer(toDart) /\ draining # Undrained
  BY <1>1 DEF OneOutstanding
<1>3. ~Confirmed(toDart)
  BY <1>2, NoneConfirmed
<1>4. PICK e \in Answers : toDart' = Append(toDart, e)
  BY DEF NativeSubmit, Answers
<1>5. OneAnswer(toDart') /\ (Confirmed(toDart') <=> e = "submitted")
  BY <1>1, <1>2, <1>3, <1>4, AnswersAppend
<1>6. OneOutstanding'
  BY <1>1, <1>2, <1>5 DEF OneOutstanding
<1>7. FramesWhole'
  BY <1>1 DEF FramesWhole
<1>8. CASE UNCHANGED air /\ (connected => e # "submitted")
  <2>1. StreamInv' /\ Expected' = Expected
    BY <1>1, <1>8 DEF StreamInv, Held, Expected, After, IsEnd, Fits
  <2>2. connected => PositionOf(queue', Confirmed(toDart')) = PositionOf(queue, Confirmed(toDart))
    BY <1>1, <1>3, <1>5, <1>8 DEF PositionOf
  <2>3. SubmissionInv'
    BY <1>1, <1>8, <2>1, <2>2 DEF SubmissionInv
  <2> QED
    BY <1>6, <1>7, <2>1, <2>3
<1>9. CASE connected /\ e = "submitted" /\ air' = Append(air, call[1])
  <2>0. PICK f : f = call[1]
    OBVIOUS
  <2>1. f \in Fragments /\ f.write \in 1..Len(writes) /\ Fits(f, Expected)
    BY <1>1, <1>9, <2>0 DEF SubmissionInv
  <2>2. /\ Len(air') = Len(air) + 1 /\ Len(air) \in Nat /\ air' # <<>>
        /\ \A i \in 1..Len(air) : air'[i] = air[i]
        /\ air'[Len(air) + 1] = f
    BY <1>1, <1>9, <2>0, <2>1, AppendProperties
  <2>3. \A g : After(g)' = After(g)
    BY <1>1 DEF After, IsEnd
  <2>4. Held' = Held
    BY <1>1 DEF Held
  <2>5. Expected' = After(f)
    <3>1. air'[Len(air')] = f
      BY <2>2
    <3>2. After(f)' = After(f)
      BY <2>3
    <3>3. Expected' = After(f)'
      BY <2>2, <3>1 DEF Expected
    <3> QED
      BY <3>2, <3>3
  <2>6. StreamInv'
    <3>1. \A i \in 1..Len(partial') :
            /\ partial'[i] = Fragment(partial'[1].write, i - 1)
            /\ partial'[i].write \in 1..Len(writes')
      BY <1>1 DEF StreamInv
    <3>2. \A i \in 1..Len(air') : air'[i].write \in 1..Len(writes')
      BY <1>1, <2>1, <2>2 DEF StreamInv
    <3>3. Fits(air'[1], Held')
      <4>1. CASE air = <<>>
        <5>1. Len(air) = 0 /\ air'[1] = f
          BY <2>2, <4>1
        <5> QED
          BY <2>1, <2>4, <4>1, <5>1 DEF Expected
      <4>2. CASE air # <<>>
        <5>1. 1 \in 1..Len(air)
          BY <1>1, <4>2
        <5> QED
          BY <2>2, <2>4, <4>2, <5>1 DEF StreamInv
      <4> QED
        BY <4>1, <4>2
    <3>4. ASSUME NEW i \in 1..Len(air'), NEW j \in 1..Len(air'), j = i + 1
          PROVE  Fits(air[j], After(air[i]))'
      <4>0. PICK g : g = air[i]
        OBVIOUS
      <4>1. i \in 1..Len(air) /\ air'[i] = g
        BY <2>2, <3>4, <4>0
      <4>2. After(g)' = After(g)
        BY <2>3
      <4>3. Fits(air'[j], After(g))
        <5>1. CASE j \in 1..Len(air)
          BY <2>2, <3>4, <4>0, <4>1, <5>1 DEF StreamInv
        <5>2. CASE j = Len(air) + 1
          <6>1. i = Len(air) /\ air # <<>>
            BY <2>2, <3>4, <4>1, <5>2
          <6>2. Expected = After(g)
            BY <4>0, <6>1 DEF Expected
          <6> QED
            BY <2>1, <2>2, <5>2, <6>2
        <5> QED
          BY <2>2, <5>1, <5>2
      <4> QED
        BY <4>1, <4>2, <4>3 DEF Fits, After, IsEnd
    <3>5. (air # <<>> => Fits(air[1], Held))'
      BY <3>3 DEF Fits
    <3> QED
      BY <3>1, <3>2, <3>4, <3>5 DEF StreamInv
  <2>7. ASSUME backend = "open" PROVE After(f) = PositionOf(queue', TRUE)
    <3>1. queue # <<>> /\ queue \in Seq(Pending) /\ QueuedArePending(queue, writes)
      BY <1>2, <2>7 DEF GattInv, DartTypeOK, DrainInv, QueueInv
    <3>2. f = Fragment(queue[1].write, queue[1].next)
      BY <1>1, <2>0, <2>7 DEF SubmissionInv
    <3>3. queue[1] \in Pending /\ 1 \in 1..Len(queue)
      BY <3>1
    <3>4. queue[1].next \in Nat /\ queue[1].size = writes[queue[1].write].size
      BY <3>1, <3>3 DEF Pending, QueuedArePending
    <3>5. f.write = queue[1].write /\ f.index = queue[1].next
      BY <3>2, FragmentFields
    <3>6. PositionOf(queue', TRUE) = Upcoming(queue[1], queue[1].next + 1)
      BY <1>1, <3>1 DEF PositionOf
    <3>7. IsEnd(f) <=> queue[1].next + 1 \in {0, queue[1].size}
      BY <3>4, <3>5 DEF IsEnd
    <3>8. After(f) = IF IsEnd(f) THEN <<>> ELSE <<Fragment(queue[1].write, queue[1].next + 1)>>
      BY <3>5 DEF After
    <3> QED
      BY <3>6, <3>7, <3>8 DEF Upcoming
  <2>8. PositionOf(queue', Confirmed(toDart')) = PositionOf(queue', TRUE)
    BY <1>5, <1>9 DEF PositionOf
  <2>9. SubmissionInv'
    BY <1>1, <1>9, <2>5, <2>7, <2>8 DEF SubmissionInv
  <2> QED
    BY <1>6, <1>7, <2>6, <2>9
<1>10. \/ UNCHANGED air /\ (connected => e # "submitted")
       \/ connected /\ e = "submitted" /\ air' = Append(air, call[1])
  <2>1. \A a, b : Append(toDart, a) = Append(toDart, b) => a = b
    <3> SUFFICES ASSUME NEW a, NEW b, Append(toDart, a) = Append(toDart, b) PROVE a = b
      OBVIOUS
    <3>1. Append(toDart, a)[Len(toDart) + 1] = a /\ Append(toDart, b)[Len(toDart) + 1] = b
      BY <1>1
    <3> QED
      BY <3>1
  <2> QED
    BY <1>4, <2>1 DEF NativeSubmit
<1> QED
  BY <1>8, <1>9, <1>10

(* What is on the way to the remote peer is one frame after another, each  *)
(* of them whole, and the connection will go on where it ends.             *)
WireInv == StreamInv /\ FramesWhole /\ OneOutstanding /\ SubmissionInv

(* Nothing is on the wire at first.                                        *)
LEMMA WireInit == GattInit => WireInv
<1> SUFFICES ASSUME GattInit PROVE WireInv
  OBVIOUS
<1>1. /\ air = <<>> /\ partial = <<>> /\ frames = <<>> /\ toDart = <<>> /\ queue = <<>>
      /\ call = <<>> /\ connected = TRUE
  BY DEF GattInit
<1>2. Expected = <<>> /\ \A accepted : PositionOf(queue, accepted) = <<>>
  BY <1>1 DEF Expected, Held, PositionOf
<1>3. StreamInv /\ FramesWhole
  BY <1>1 DEF StreamInv, FramesWhole
<1>4. Len(call) = 0 /\ NoAnswer(toDart) /\ OneAnswer(toDart)
  BY <1>1 DEF NoAnswer, OneAnswer
<1> QED
  BY <1>1, <1>2, <1>3, <1>4 DEF WireInv, OneOutstanding, SubmissionInv

(* Every step keeps the frames on the wire whole.                          *)
LEMMA WireStep ==
    ASSUME GattInv, GattInv', NativeTypeOK, WireInv, [GattNext]_gattVars
    PROVE  WireInv'
<1> USE DEF WireInv
<1>0. Grows
  BY GrowsStep
<1>1. ASSUME UNCHANGED remoteVars PROVE StreamInv' /\ FramesWhole' /\ Expected' = Expected
  BY <1>0, <1>1, StreamKept
<1>2. toDart \in Seq(Answers \cup NativeEvents) /\ backend \in {"open", "failed"}
      /\ Len(writes) \in Nat /\ Len(writes') \in Nat
  <2>1. writes \in Seq(Writes) /\ writes' \in Seq(Writes)
    BY DEF GattInv, DartTypeOK
  <2> QED
    BY <2>1 DEF NativeTypeOK, GattInv, DartTypeOK
<1>3. ASSUME NEW priority \in Priorities, NEW size \in Sizes, Write(priority, size)
      PROVE  WireInv'
  <2>1. UNCHANGED remoteVars
    BY <1>3 DEF Write
  <2> QED
    BY <1>0, <1>1, <1>3, <2>1, WriteSubmission
<1>4. CASE Close
  <2>1. UNCHANGED <<draining, nativeVars, remoteVars>> /\ backend' = "failed"
    BY <1>4 DEF Close, TerminalFailure
  <2> QED
    BY <1>0, <1>1, <2>1, FailedKeeps DEF nativeVars
<1>5. CASE Answered
  <2>1. UNCHANGED remoteVars
    BY <1>5 DEF Answered
  <2> QED
    BY <1>0, <1>1, <1>5, <2>1, AnsweredSubmission
<1>6. CASE Writable
  <2>1. UNCHANGED remoteVars
    BY <1>6 DEF Writable
  <2> QED
    BY <1>1, <1>6, <2>1, WritableSubmission
<1>7. CASE Disconnected
  <2>1. /\ UNCHANGED <<draining, call, connected, remoteVars>> /\ backend' = "failed"
        /\ toDart # <<>> /\ toDart' = Tail(toDart)
    BY <1>2, <1>7 DEF Disconnected, TerminalFailure
  <2> QED
    BY <1>0, <1>1, <2>1, FailedKeeps
<1>8. CASE NativeSubmit
  BY <1>8, NativeSubmitStream
<1>9. CASE NativeWriteDone
  <2>1. UNCHANGED <<dartVars, call, connected, remoteVars>> /\ toDart' = Append(toDart, "writable")
    BY <1>9 DEF NativeWriteDone
  <2>2. /\ NoAnswer(toDart) => NoAnswer(toDart')
        /\ OneAnswer(toDart')
        /\ Confirmed(toDart') <=> Confirmed(toDart)
    BY <1>2, <2>1, AnswersAppend DEF OneOutstanding, Answers, NativeEvents
  <2>3. PositionOf(queue', Confirmed(toDart')) = PositionOf(queue, Confirmed(toDart))
    BY <2>1, <2>2 DEF PositionOf, dartVars
  <2>4. OneOutstanding'
    BY <2>1, <2>2 DEF OneOutstanding, dartVars
  <2>5. SubmissionInv'
    BY <1>1, <2>1, <2>3 DEF SubmissionInv, dartVars, remoteVars, Fits
  <2> QED
    BY <1>1, <2>1, <2>4, <2>5
<1>10. CASE NativeDisconnect
  <2>1. /\ UNCHANGED <<dartVars, call, partial, frames>> /\ connected' = FALSE /\ air' = <<>>
        /\ toDart' = Append(toDart, "disconnected")
    BY <1>10 DEF NativeDisconnect
  <2>2. (NoAnswer(toDart) => NoAnswer(toDart')) /\ OneAnswer(toDart')
    BY <1>2, <2>1, AnswersAppend DEF OneOutstanding, Answers, NativeEvents
  <2>3. OneOutstanding'
    BY <2>1, <2>2 DEF OneOutstanding, dartVars
  <2>4. SubmissionInv'
    BY <2>1 DEF SubmissionInv, dartVars
  <2>5. FramesWhole'
    BY <2>1 DEF FramesWhole, dartVars
  <2>6. StreamInv'
    <3>1. Len(air') = 0
      BY <2>1
    <3> QED
      BY <2>1, <3>1 DEF StreamInv, dartVars
  <2> QED
    BY <2>3, <2>4, <2>5, <2>6
<1>11. CASE Receive
  <2>1. StreamInv' /\ FramesWhole' /\ Expected' = Expected
    BY <1>11, ReceiveStep
  <2>2. UNCHANGED <<dartVars, nativeVars>> /\ air # <<>>
    BY <1>11 DEF Receive
  <2>3. PositionOf(queue', Confirmed(toDart')) = PositionOf(queue, Confirmed(toDart))
    BY <2>2 DEF PositionOf, Confirmed, dartVars, nativeVars
  <2>4. OneOutstanding'
    BY <2>2 DEF OneOutstanding, OneAnswer, NoAnswer, dartVars, nativeVars
  <2>5. SubmissionInv'
    BY <2>1, <2>2, <2>3 DEF SubmissionInv, Fits, dartVars, nativeVars
  <2> QED
    BY <2>1, <2>4, <2>5
<1>12. CASE UNCHANGED gattVars
  <2>1. UNCHANGED <<dartVars, nativeVars, remoteVars>>
    BY <1>12 DEF gattVars
  <2>2. PositionOf(queue', Confirmed(toDart')) = PositionOf(queue, Confirmed(toDart))
    BY <2>1 DEF PositionOf, Confirmed, dartVars, nativeVars
  <2>3. OneOutstanding'
    BY <2>1 DEF OneOutstanding, OneAnswer, NoAnswer, dartVars, nativeVars
  <2>4. SubmissionInv'
    BY <1>1, <2>1, <2>2 DEF SubmissionInv, Fits, dartVars, nativeVars, remoteVars
  <2> QED
    BY <1>1, <2>1, <2>3, <2>4
<1> QED
  BY <1>3, <1>4, <1>5, <1>6, <1>7, <1>8, <1>9, <1>10, <1>11, <1>12 DEF GattNext

(* The remote peer only ever completes whole frames, in order and each of  *)
(* one write, whatever is refused, overtaken or interrupted.               *)
THEOREM GattFramesWhole == GattSpec => []FramesWhole
<1>1. GattInit => NativeTypeOK
  BY QueueAssumption DEF GattInit, NativeTypeOK
<1>2. GattInv /\ GattInv' /\ NativeTypeOK /\ WireInv /\ [GattNext]_gattVars
        => NativeTypeOK' /\ WireInv'
  BY NativeTypeStep, WireStep
<1>3. WireInv => FramesWhole
  BY DEF WireInv
<1> QED
  BY <1>1, <1>2, <1>3, WireInit, GattInvariant, PTL DEF GattSpec

=============================================================================
