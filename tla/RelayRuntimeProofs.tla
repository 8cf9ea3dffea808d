------------------------- MODULE RelayRuntimeProofs -------------------------
(***************************************************************************)
(* Proofs about the relay table and about the runtime that drives it.      *)
(*                                                                         *)
(* The first part is about CoordinatorRelay: for every group, limit and    *)
(* payload size the table keeps its order lists and its reservations exact *)
(* under any sequence of calls.                                            *)
(*                                                                         *)
(* The second part is about RelayRuntime, for every group, workload, bound *)
(* on the faults and number of concurrent handlers: it calls the table as  *)
(* CoordinatorRelay lets a caller do, never refills the retries of a hop,  *)
(* reports a delivery only after it happened, tells a source at most one   *)
(* outcome per arrival of its hop, and delivers what was acknowledged in   *)
(* the order of admission.                                                 *)
(***************************************************************************)
EXTENDS RelayRuntime, FiniteSetTheorems, SequencesExt, SequenceTheorems, WellFoundedInduction, TLAPS

-----------------------------------------------------------------------------
(* The order lists of the table: insertion-ordered, without duplicates     *)

Distinct(s) == \A i, j \in 1..Len(s) : s[i] = s[j] => i = j

(* t is s without its element at position p *)
ShiftedUp(S, s, t, p) ==
    /\ t \in Seq(S)
    /\ Len(t) = Len(s) - 1
    /\ \A i \in 1..(Len(s) - 1) : t[i] = IF i < p THEN s[i] ELSE s[i + 1]

(* What List.remove leaves of an order list: the element at the removed    *)
(* position disappears and the later ones move up by one.                  *)
LEMMA RemoveFirstShape ==
    ASSUME NEW S, NEW s \in Seq(S), NEW e, NEW p \in 1..Len(s), s[p] = e,
           Distinct(s)
    PROVE  ShiftedUp(S, s, RemoveFirst(s, e), p)
<1> DEFINE I == {i \in 1..Len(s) : s[i] = e}
           before == SubSeq(s, 1, p - 1)
           after == SubSeq(s, p + 1, Len(s))
<1>1. I = {p}
  BY DEF Distinct
<1>2. SelectInSeq(s, LAMBDA v : v = e) = p
  <2>1. Min(I) = p
    BY <1>1 DEF Min
  <2> QED
    BY <1>1, <2>1 DEF SelectInSeq
<1>3. RemoveFirst(s, e) = before \o after
  BY <1>2 DEF RemoveFirst, RemoveAt
<1>4. /\ Len(s) \in Nat
      /\ \A i \in 1..Len(s) : s[i] \in S
  BY LenProperties
<1>5. /\ before \in Seq(S)
      /\ Len(before) = p - 1
      /\ \A i \in 1..(p - 1) : before[i] = s[i]
  BY <1>4, SubSeqProperties
<1>6. /\ after \in Seq(S)
      /\ Len(after) = Len(s) - p
      /\ \A i \in 1..(Len(s) - p) : after[i] = s[p + i]
  <2>1. \A i \in (p + 1)..Len(s) : s[i] \in S
    BY <1>4
  <2>2. /\ after \in Seq(S)
        /\ Len(after) = IF p + 1 =< Len(s) THEN Len(s) - (p + 1) + 1 ELSE 0
        /\ \A i \in 1..(Len(s) - (p + 1) + 1) : after[i] = s[(p + 1) + i - 1]
    BY <1>4, <2>1, SubSeqProperties
  <2> QED
    BY <1>4, <2>2
<1> HIDE DEF before, after
<1>7. /\ before \o after \in Seq(S)
      /\ Len(before \o after) = Len(before) + Len(after)
      /\ \A i \in 1..(Len(before) + Len(after)) : (before \o after)[i] =
            IF i =< Len(before) THEN before[i] ELSE after[i - Len(before)]
  <2>1. before \in Seq(S) /\ after \in Seq(S)
    BY <1>5, <1>6
  <2> QED
    BY ONLY <2>1, ConcatProperties
<1> QED
  BY <1>3, <1>4, <1>5, <1>6, <1>7 DEF ShiftedUp

-----------------------------------------------------------------------------
(* Types of the returned actions                                           *)

(* The empty CoordinatorRelayActions value is well formed.                 *)
LEMMA NoActionsType == NoActions \in RelayActions
  BY DEF NoActions, RelayActions

(* A route failure is a well-formed CoordinatorRelayActions value.         *)
LEMMA RouteFailureType ==
    ASSUME NEW op \in Operations, NEW status \in FailureStatuses,
           NEW ack \in BOOLEAN, NEW next \in Operations \cup {None}
    PROVE  RouteFailure(op, status, ack, next) \in RelayActions
<1>1. Signal(op, status) \in Signals
  BY DEF Signal, Signals, SignalStatuses, Operations
<1> QED
  BY <1>1 DEF RouteFailure, NoActions, RelayActions, LocalStates

(* So is the success of a final hop.                                       *)
LEMMA RouteSuccessType ==
    ASSUME NEW op \in Operations, NEW next \in Operations \cup {None}
    PROVE  RouteSuccess(op, next) \in RelayActions
<1>1. Signal(op, FinalSuccess(op).status) \in Signals
  BY DEF Signal, Signals, SignalStatuses, Operations, FinalSuccess
<1>2. FinalSuccess(op).local \in LocalStates
  BY DEF FinalSuccess, LocalStates
<1> QED
  BY <1>1, <1>2 DEF RouteSuccess, NoActions, RelayActions

-----------------------------------------------------------------------------
(* The inductive invariant                                                 *)

TableInv == TableTypeOK /\ OrderExact /\ MessagesExact /\ WithinLimits
RelayInv == TableInv /\ out \in SUBSET RelayActions

(* _operationKey and _sourceDestinationKey of an operation: its key and    *)
(* pair are the ones the table is indexed with.                            *)
LEMMA KeyTypes ==
    ASSUME NEW op \in Operations
    PROVE  /\ Key(op) \in Keys
           /\ Pair(op) \in Pairs
           /\ op.destination \in Peers
           /\ op.payload \in Payloads
           /\ op.source \in Peers
           /\ Pair(op)[2] = op.destination
  BY DEF Operations, Key, Pair, Keys, Pairs

(* Only finitely many relays can hold a reservation towards one peer.      *)
LEMMA AdmittedToFinite ==
    ASSUME NEW peer
    PROVE  IsFiniteSet(AdmittedTo(peer))
<1>1. IsFiniteSet(Keys)
  BY FiniteAssumption, FS_Product DEF Keys
<1>2. AdmittedTo(peer) \in SUBSET Keys
  BY DEF AdmittedTo
<1> QED
  BY <1>1, <1>2, FS_Subset

TableEmpty ==
    /\ operations = [key \in Keys |-> None]
    /\ order = [pair \in Pairs |-> <<>>]
    /\ reservedBytes = [peer \in Peers |-> 0]
    /\ reservedMessages = [peer \in Peers |-> 0]

(* The empty table satisfies the invariant: the initial state, and what    *)
(* losing authority leaves.                                                *)
LEMMA EmptyTable == TableEmpty => TableInv
<1> SUFFICES ASSUME TableEmpty PROVE TableInv
  OBVIOUS
<1> USE DEF TableEmpty
<1>1. \A key \in Keys : ~Admitted(key)
  BY DEF Admitted
<1>2. TableTypeOK
  BY <1>1 DEF TableTypeOK
<1>3. OrderExact
  BY <1>1 DEF OrderExact
<1>4. MessagesExact
  <2>1. \A peer \in Peers : AdmittedTo(peer) = {}
    BY <1>1 DEF AdmittedTo
  <2> QED
    BY <2>1, FS_EmptySet DEF MessagesExact
<1>5. WithinLimits
  BY LimitAssumption DEF WithinLimits
<1> QED
  BY <1>2, <1>3, <1>4, <1>5 DEF TableInv

(* A call that leaves the table alone keeps the invariant.                 *)
LEMMA UnchangedTable ==
    ASSUME TableInv, UNCHANGED tableVars
    PROVE  TableInv'
<1> USE DEF tableVars
<1>1. TableTypeOK'
  BY DEF TableInv, TableTypeOK, Admitted
<1>2. OrderExact'
  BY DEF TableInv, OrderExact, Admitted
<1>3. MessagesExact'
  BY DEF TableInv, MessagesExact, AdmittedTo, Admitted
<1>4. WithinLimits'
  BY DEF TableInv, WithinLimits
<1> QED
  BY <1>1, <1>2, <1>3, <1>4 DEF TableInv

(* Admission appends the new key to its own order list and takes one slot. *)
LEMMA AdmitForwardTable ==
    ASSUME TableInv, NEW op \in Operations, NEW committed, NEW ready,
           AdmitForward(op, committed, ready)
    PROVE  TableInv'
<1> DEFINE k == Key(op)
           pr == Pair(op)
           d == op.destination
<1>1. /\ k \in Keys /\ pr \in Pairs /\ d \in Peers /\ op.payload \in Payloads
      /\ op # None
  BY KeyTypes, NoneAssumption
<1>2. /\ operations \in [Keys -> Operations \cup {None}]
      /\ \A key \in Keys : operations[key] # None => Key(operations[key]) = key
      /\ reservedBytes \in [Peers -> Int]
      /\ reservedMessages \in [Peers -> Int]
      /\ order \in [Pairs -> Seq(Keys)]
  BY DEF TableInv, TableTypeOK, Admitted
<1>3. /\ operations[k] = None
      /\ operations' = [operations EXCEPT ![k] = op]
      /\ order' = [order EXCEPT ![pr] = Append(@, k)]
      /\ reservedBytes' = [reservedBytes EXCEPT ![d] = @ + PayloadSize[op.payload]]
      /\ reservedMessages' = [reservedMessages EXCEPT ![d] = @ + 1]
      /\ reservedBytes[d] + PayloadSize[op.payload] =< MaxBytes
      /\ reservedMessages[d] + 1 =< MaxMessages
  BY DEF AdmitForward, HasCapacity, Admitted
<1>4. PayloadSize[op.payload] \in Nat
  BY <1>1, SizeAssumption
<1>5. TableTypeOK'
  <2>1. operations' \in [Keys -> Operations \cup {None}]
    BY <1>1, <1>2, <1>3
  <2>2. \A key \in Keys : operations'[key] # None => Key(operations'[key]) = key
    BY <1>1, <1>2, <1>3
  <2>3. reservedBytes' \in [Peers -> Int] /\ reservedMessages' \in [Peers -> Int]
    BY <1>1, <1>2, <1>3, <1>4
  <2>4. order' \in [Pairs -> Seq(Keys)]
    BY <1>1, <1>2, <1>3
  <2> QED
    BY <2>1, <2>2, <2>3, <2>4 DEF TableTypeOK, Admitted
<1>6. OrderExact'
  <2> SUFFICES ASSUME NEW q \in Pairs
               PROVE  /\ \A i, j \in 1..Len(order'[q]) :
                            order'[q][i] = order'[q][j] => i = j
                      /\ \A i \in 1..Len(order'[q]) :
                            /\ operations'[order'[q][i]] # None
                            /\ Pair(operations'[order'[q][i]]) = q
                      /\ \A key \in Keys :
                            operations'[key] # None /\ Pair(operations'[key]) = q
                               => \E i \in 1..Len(order'[q]) : order'[q][i] = key
    BY DEF OrderExact, Admitted
  <2>1. /\ \A i, j \in 1..Len(order[q]) : order[q][i] = order[q][j] => i = j
        /\ \A i \in 1..Len(order[q]) :
              /\ operations[order[q][i]] # None
              /\ Pair(operations[order[q][i]]) = q
        /\ \A key \in Keys :
              operations[key] # None /\ Pair(operations[key]) = q
                 => \E i \in 1..Len(order[q]) : order[q][i] = key
    BY DEF TableInv, OrderExact, Admitted
  <2>2. /\ order[q] \in Seq(Keys) /\ Len(order[q]) \in Nat
        /\ \A i \in 1..Len(order[q]) : order[q][i] \in Keys /\ order[q][i] # k
    BY <1>2, <1>3, <2>1
  <2>3. CASE q = pr
    <3>1. /\ Len(order'[q]) = Len(order[q]) + 1
          /\ \A i \in 1..Len(order[q]) : order'[q][i] = order[q][i]
          /\ order'[q][Len(order[q]) + 1] = k
      BY <1>1, <1>2, <1>3, <2>2, <2>3
    <3>2. operations'[k] = op /\ Pair(op) = q
      BY <1>1, <1>2, <1>3, <2>3
    <3>3. \A i \in 1..Len(order[q]) :
              operations'[order[q][i]] = operations[order[q][i]]
      BY <1>2, <1>3, <2>2
    <3>4. \A i, j \in 1..Len(order'[q]) : order'[q][i] = order'[q][j] => i = j
      <4> SUFFICES ASSUME NEW i \in 1..Len(order'[q]), NEW j \in 1..Len(order'[q]),
                          order'[q][i] = order'[q][j]
                   PROVE  i = j
        OBVIOUS
      <4>1. i \in 1..Len(order[q]) \/ i = Len(order[q]) + 1
        BY <2>2, <3>1
      <4>2. j \in 1..Len(order[q]) \/ j = Len(order[q]) + 1
        BY <2>2, <3>1
      <4> HIDE DEF k
      <4> QED
        BY <2>1, <2>2, <3>1, <4>1, <4>2
    <3>5. \A i \in 1..Len(order'[q]) :
              /\ operations'[order'[q][i]] # None
              /\ Pair(operations'[order'[q][i]]) = q
      BY <1>1, <2>1, <2>2, <3>1, <3>2, <3>3
    <3>6. ASSUME NEW key \in Keys, operations'[key] # None,
                 Pair(operations'[key]) = q
          PROVE  \E i \in 1..Len(order'[q]) : order'[q][i] = key
      <4>1. CASE key = k
        BY <2>2, <3>1, <4>1
      <4>2. CASE key # k
        <5>1. operations'[key] = operations[key]
          BY <1>2, <1>3, <4>2
        <5>2. PICK i \in 1..Len(order[q]) : order[q][i] = key
          BY <2>1, <3>6, <5>1
        <5> QED
          BY <2>2, <3>1, <5>2
      <4> QED
        BY <4>1, <4>2
    <3> QED
      BY <3>4, <3>5, <3>6
  <2>4. CASE q # pr
    <3>1. order'[q] = order[q]
      BY <1>2, <1>3, <2>4
    <3>2. \A key \in Keys : key # k => operations'[key] = operations[key]
      BY <1>2, <1>3
    <3>3. Pair(operations'[k]) # q
      BY <1>1, <1>2, <1>3, <2>4
    <3>4. \A i \in 1..Len(order'[q]) :
              /\ operations'[order'[q][i]] # None
              /\ Pair(operations'[order'[q][i]]) = q
      BY <2>1, <2>2, <3>1, <3>2
    <3> QED
      BY <2>1, <3>1, <3>2, <3>3, <3>4
  <2> QED
    BY <2>3, <2>4
<1>7. MessagesExact'
  <2> SUFFICES ASSUME NEW peer \in Peers
               PROVE  reservedMessages'[peer] = Cardinality(AdmittedTo(peer)')
    BY DEF MessagesExact
  <2>1. reservedMessages[peer] = Cardinality(AdmittedTo(peer))
    BY DEF TableInv, MessagesExact
  <2>2. CASE peer = d
    <3>1. AdmittedTo(peer)' = AdmittedTo(peer) \cup {k}
      BY <1>1, <1>2, <1>3, <2>2 DEF AdmittedTo, Admitted
    <3>2. k \notin AdmittedTo(peer)
      BY <1>3 DEF AdmittedTo, Admitted
    <3>3. Cardinality(AdmittedTo(peer)') = Cardinality(AdmittedTo(peer)) + 1
      BY <3>1, <3>2, AdmittedToFinite, FS_AddElement
    <3> QED
      BY <1>2, <1>3, <2>1, <2>2, <3>3
  <2>3. CASE peer # d
    <3>1. AdmittedTo(peer)' = AdmittedTo(peer)
      BY <1>1, <1>2, <1>3, <2>3 DEF AdmittedTo, Admitted
    <3> QED
      BY <1>2, <1>3, <2>1, <2>3, <3>1
  <2> QED
    BY <2>2, <2>3
<1>8. WithinLimits'
  BY <1>1, <1>2, <1>3 DEF TableInv, WithinLimits
<1> QED
  BY <1>5, <1>6, <1>7, <1>8 DEF TableInv

(* Completion takes exactly the completed key out of its order list,       *)
(* wherever it stands, and gives back exactly its slot.                    *)
LEMMA ReleaseTable ==
    ASSUME TableInv, NEW k \in Keys, Admitted(k), Release(k)
    PROVE  TableInv'
<1> DEFINE op == operations[k]
           pr == Pair(op)
           d == op.destination
<1>1. /\ operations \in [Keys -> Operations \cup {None}]
      /\ \A key \in Keys : operations[key] # None => Key(operations[key]) = key
      /\ reservedBytes \in [Peers -> Int]
      /\ reservedMessages \in [Peers -> Int]
      /\ order \in [Pairs -> Seq(Keys)]
  BY DEF TableInv, TableTypeOK, Admitted
<1>2. op \in Operations /\ op # None
  BY <1>1 DEF Admitted
<1>3. /\ pr \in Pairs /\ d \in Peers
      /\ PayloadSize[op.payload] \in Nat
  BY <1>2, KeyTypes, SizeAssumption
<1>4. /\ operations' = [operations EXCEPT ![k] = None]
      /\ order' = [order EXCEPT ![pr] = RemoveFirst(@, k)]
      /\ reservedBytes' = [reservedBytes EXCEPT ![d] = @ - PayloadSize[op.payload]]
      /\ reservedMessages' = [reservedMessages EXCEPT ![d] = @ - 1]
  BY DEF Release
<1>5. \A q \in Pairs :
        /\ \A i, j \in 1..Len(order[q]) : order[q][i] = order[q][j] => i = j
        /\ \A i \in 1..Len(order[q]) :
              /\ operations[order[q][i]] # None
              /\ Pair(operations[order[q][i]]) = q
        /\ \A key \in Keys :
              operations[key] # None /\ Pair(operations[key]) = q
                 => \E i \in 1..Len(order[q]) : order[q][i] = key
  BY DEF TableInv, OrderExact, Admitted
<1>6. PICK p \in 1..Len(order[pr]) : order[pr][p] = k
  BY <1>2, <1>3, <1>5
<1>7. order[pr] \in Seq(Keys) /\ Len(order[pr]) \in Nat
  BY <1>1, <1>3
<1>8. /\ RemoveFirst(order[pr], k) \in Seq(Keys)
      /\ Len(RemoveFirst(order[pr], k)) = Len(order[pr]) - 1
      /\ \A i \in 1..(Len(order[pr]) - 1) :
            RemoveFirst(order[pr], k)[i] =
                IF i < p THEN order[pr][i] ELSE order[pr][i + 1]
  <2>1. Distinct(order[pr])
    BY <1>3, <1>5 DEF Distinct
  <2>2. ShiftedUp(Keys, order[pr], RemoveFirst(order[pr], k), p)
    BY <1>6, <1>7, <2>1, RemoveFirstShape
  <2> QED
    BY <2>2 DEF ShiftedUp
<1>9. TableTypeOK'
  <2>1. operations' \in [Keys -> Operations \cup {None}]
    BY <1>1, <1>4
  <2>2. \A key \in Keys : operations'[key] # None => Key(operations'[key]) = key
    BY <1>1, <1>4
  <2>3. reservedBytes' \in [Peers -> Int] /\ reservedMessages' \in [Peers -> Int]
    BY <1>1, <1>3, <1>4
  <2>4. order' \in [Pairs -> Seq(Keys)]
    BY <1>1, <1>3, <1>4, <1>8
  <2> QED
    BY <2>1, <2>2, <2>3, <2>4 DEF TableTypeOK, Admitted
<1>10. OrderExact'
  <2> SUFFICES ASSUME NEW q \in Pairs
               PROVE  /\ \A i, j \in 1..Len(order'[q]) :
                            order'[q][i] = order'[q][j] => i = j
                      /\ \A i \in 1..Len(order'[q]) :
                            /\ operations'[order'[q][i]] # None
                            /\ Pair(operations'[order'[q][i]]) = q
                      /\ \A key \in Keys :
                            operations'[key] # None /\ Pair(operations'[key]) = q
                               => \E i \in 1..Len(order'[q]) : order'[q][i] = key
    BY DEF OrderExact, Admitted
  <2>1. /\ order[q] \in Seq(Keys) /\ Len(order[q]) \in Nat
        /\ \A i \in 1..Len(order[q]) : order[q][i] \in Keys
    BY <1>1
  <2>2. \A key \in Keys : key # k => operations'[key] = operations[key]
    BY <1>1, <1>4
  <2>3. operations'[k] = None
    BY <1>1, <1>4
  <2>4. CASE q = pr
    <3> DEFINE s == order[q]
               t == order'[q]
    <3>1. /\ Len(t) = Len(s) - 1
          /\ \A i \in 1..(Len(s) - 1) : t[i] = IF i < p THEN s[i] ELSE s[i + 1]
      BY <1>1, <1>4, <1>8, <2>4
    <3>2. p \in 1..Len(s) /\ s[p] = k
      BY <1>6, <2>4
    <3>3. /\ \A i, j \in 1..Len(s) : s[i] = s[j] => i = j
          /\ \A i \in 1..Len(s) :
                operations[s[i]] # None /\ Pair(operations[s[i]]) = q
          /\ \A key \in Keys : operations[key] # None /\ Pair(operations[key]) = q
                => \E i \in 1..Len(s) : s[i] = key
      BY <1>5
    <3>4. Len(s) \in Nat /\ \A i \in 1..Len(s) : s[i] \in Keys
      BY <2>1
    <3> HIDE DEF s, t, op, pr, d
    <3>5. ASSUME NEW i \in 1..Len(t), NEW j \in 1..Len(t), t[i] = t[j] PROVE i = j
      <4>1. PICK x \in 1..Len(s) : x = (IF i < p THEN i ELSE i + 1) /\ t[i] = s[x]
        BY <3>1, <3>2, <3>4
      <4>2. PICK y \in 1..Len(s) : y = (IF j < p THEN j ELSE j + 1) /\ t[j] = s[y]
        BY <3>1, <3>2, <3>4
      <4>3. x = y
        BY <3>3, <3>5, <4>1, <4>2
      <4> QED
        BY <3>1, <3>2, <3>4, <4>1, <4>2, <4>3
    <3>6. \A i \in 1..Len(t) : t[i] \in Keys /\ t[i] # k
                                 /\ \E j \in 1..Len(s) : t[i] = s[j]
      BY <3>1, <3>2, <3>3, <3>4
    <3>7. \A i \in 1..Len(t) :
              operations'[t[i]] # None /\ Pair(operations'[t[i]]) = q
      BY <2>2, <3>3, <3>6
    <3>8. ASSUME NEW key \in Keys, operations'[key] # None,
                 Pair(operations'[key]) = q
          PROVE  \E i \in 1..Len(t) : t[i] = key
      <4>1. key # k /\ operations[key] # None /\ Pair(operations[key]) = q
        BY <2>2, <2>3, <3>8
      <4>2. PICK j \in 1..Len(s) : s[j] = key
        BY <3>3, <4>1
      <4>3. j # p
        BY <3>2, <4>1, <4>2
      <4>4. CASE j < p
        BY <3>1, <3>2, <3>4, <4>2, <4>4
      <4>5. CASE j > p
        <5>1. j - 1 \in 1..(Len(s) - 1) /\ ~(j - 1 < p) /\ (j - 1) + 1 = j
          BY <3>2, <3>4, <4>5
        <5>2. t[j - 1] = s[j]
          BY <3>1, <5>1
        <5> QED
          BY <3>1, <4>2, <5>1, <5>2
      <4> QED
        BY <3>2, <4>3, <4>4, <4>5
    <3>9. /\ \A i, j \in 1..Len(t) : t[i] = t[j] => i = j
          /\ \A i \in 1..Len(t) :
                operations'[t[i]] # None /\ Pair(operations'[t[i]]) = q
          /\ \A key \in Keys : operations'[key] # None /\ Pair(operations'[key]) = q
                => \E i \in 1..Len(t) : t[i] = key
      BY <3>5, <3>7, <3>8
    <3> QED
      BY <3>9 DEF t
  <2>5. CASE q # pr
    <3>1. order'[q] = order[q]
      BY <1>1, <1>4, <2>5
    <3>2. \A i \in 1..Len(order[q]) : order[q][i] # k
      BY <1>5, <2>5
    <3> HIDE DEF op, pr, d
    <3>3. \A i \in 1..Len(order[q]) :
              /\ operations'[order[q][i]] # None
              /\ Pair(operations'[order[q][i]]) = q
      BY <1>5, <2>1, <2>2, <3>2
    <3>4. \A key \in Keys : operations'[key] # None => operations'[key] = operations[key]
      BY <2>2, <2>3
    <3> QED
      BY <1>5, <3>1, <3>3, <3>4
  <2> QED
    BY <2>4, <2>5
<1>11. MessagesExact'
  <2> SUFFICES ASSUME NEW peer \in Peers
               PROVE  reservedMessages'[peer] = Cardinality(AdmittedTo(peer)')
    BY DEF MessagesExact
  <2>1. reservedMessages[peer] = Cardinality(AdmittedTo(peer))
    BY DEF TableInv, MessagesExact
  <2>2. CASE peer = d
    <3>1. AdmittedTo(peer)' = AdmittedTo(peer) \ {k}
      BY <1>1, <1>2, <1>4, <2>2 DEF AdmittedTo, Admitted
    <3>2. k \in AdmittedTo(peer)
      BY <1>2, <2>2 DEF AdmittedTo, Admitted
    <3>3. Cardinality(AdmittedTo(peer)') = Cardinality(AdmittedTo(peer)) - 1
      BY <3>1, <3>2, AdmittedToFinite, FS_RemoveElement
    <3> QED
      BY <1>1, <1>4, <2>1, <2>2, <3>3
  <2>3. CASE peer # d
    <3>1. AdmittedTo(peer)' = AdmittedTo(peer)
      BY <1>1, <1>2, <1>4, <2>3 DEF AdmittedTo, Admitted
    <3> QED
      BY <1>1, <1>4, <2>1, <2>3, <3>1
  <2> QED
    BY <2>2, <2>3
<1>12. WithinLimits'
  <2>1. /\ MaxBytes \in Nat /\ MaxMessages \in Nat
        /\ \A peer \in Peers : reservedBytes[peer] =< MaxBytes
                                 /\ reservedMessages[peer] =< MaxMessages
    BY LimitAssumption DEF TableInv, WithinLimits
  <2> HIDE DEF op, d
  <2> QED
    BY <1>1, <1>3, <1>4, <2>1 DEF WithinLimits
<1> QED
  BY <1>9, <1>10, <1>11, <1>12 DEF TableInv

(* Dropping a destination empties its lists and its reservation and leaves *)
(* every other destination alone.                                          *)
LEMMA ReleaseDestinationTable ==
    ASSUME TableInv, NEW d \in Peers, ReleaseDestination(d)
    PROVE  TableInv'
<1>1. /\ operations \in [Keys -> Operations \cup {None}]
      /\ \A key \in Keys : operations[key] # None => Key(operations[key]) = key
      /\ reservedBytes \in [Peers -> Int]
      /\ reservedMessages \in [Peers -> Int]
      /\ order \in [Pairs -> Seq(Keys)]
  BY DEF TableInv, TableTypeOK, Admitted
<1>2. \A key \in Keys : operations'[key] =
          IF operations[key] # None /\ operations[key].destination = d
          THEN None ELSE operations[key]
  BY DEF ReleaseDestination, AdmittedTo, Admitted
<1>3. /\ operations' \in [Keys -> Operations \cup {None}]
      /\ order' = [pair \in Pairs |->
                      IF pair[2] = d THEN <<>> ELSE order[pair]]
      /\ reservedBytes' = [reservedBytes EXCEPT ![d] = 0]
      /\ reservedMessages' = [reservedMessages EXCEPT ![d] = 0]
  BY <1>1 DEF ReleaseDestination, AdmittedTo
<1>4. TableTypeOK'
  BY <1>1, <1>2, <1>3 DEF TableTypeOK, Admitted
<1>5. OrderExact'
  <2> SUFFICES ASSUME NEW q \in Pairs
               PROVE  /\ \A i, j \in 1..Len(order'[q]) :
                            order'[q][i] = order'[q][j] => i = j
                      /\ \A i \in 1..Len(order'[q]) :
                            /\ operations'[order'[q][i]] # None
                            /\ Pair(operations'[order'[q][i]]) = q
                      /\ \A key \in Keys :
                            operations'[key] # None /\ Pair(operations'[key]) = q
                               => \E i \in 1..Len(order'[q]) : order'[q][i] = key
    BY DEF OrderExact, Admitted
  <2>1. /\ \A i, j \in 1..Len(order[q]) : order[q][i] = order[q][j] => i = j
        /\ \A i \in 1..Len(order[q]) :
              /\ operations[order[q][i]] # None
              /\ Pair(operations[order[q][i]]) = q
        /\ \A key \in Keys :
              operations[key] # None /\ Pair(operations[key]) = q
                 => \E i \in 1..Len(order[q]) : order[q][i] = key
    BY DEF TableInv, OrderExact, Admitted
  <2>2. \A key \in Keys : operations'[key] # None =>
            operations'[key] = operations[key] /\ operations[key].destination # d
    BY <1>2
  <2>3. CASE q[2] = d
    <3>1. order'[q] = <<>>
      BY <1>3, <2>3
    <3>2. \A key \in Keys : operations'[key] # None => Pair(operations'[key]) # q
      BY <2>2, <2>3 DEF Pair
    <3> QED
      BY <3>1, <3>2
  <2>4. CASE q[2] # d
    <3>1. order'[q] = order[q]
      BY <1>3, <2>4
    <3>2. \A i \in 1..Len(order[q]) : order[q][i] \in Keys
      BY <1>1
    <3>3. \A i \in 1..Len(order[q]) :
              operations'[order[q][i]] = operations[order[q][i]]
      BY <1>2, <2>1, <2>4, <3>2 DEF Pair
    <3> QED
      BY <2>1, <2>2, <3>1, <3>2, <3>3
  <2> QED
    BY <2>3, <2>4
<1>6. MessagesExact'
  <2> SUFFICES ASSUME NEW peer \in Peers
               PROVE  reservedMessages'[peer] = Cardinality(AdmittedTo(peer)')
    BY DEF MessagesExact
  <2>1. reservedMessages[peer] = Cardinality(AdmittedTo(peer))
    BY DEF TableInv, MessagesExact
  <2>2. CASE peer = d
    <3>1. AdmittedTo(peer)' = {}
      BY <1>2, <2>2 DEF AdmittedTo, Admitted
    <3> QED
      BY <1>1, <1>3, <2>2, <3>1, FS_EmptySet
  <2>3. CASE peer # d
    <3>1. AdmittedTo(peer)' = AdmittedTo(peer)
      BY <1>2, <2>3 DEF AdmittedTo, Admitted
    <3> QED
      BY <1>1, <1>3, <2>1, <2>3, <3>1
  <2> QED
    BY <2>2, <2>3
<1>7. WithinLimits'
  BY <1>1, <1>3, LimitAssumption DEF TableInv, WithinLimits
<1> QED
  BY <1>4, <1>5, <1>6, <1>7 DEF TableInv

-----------------------------------------------------------------------------
(* Returned actions and the steps of the table                             *)

(* takeNextForward returns an admitted operation or nothing.               *)
LEMMA NextForwardType ==
    ASSUME NEW ops \in [Keys -> Operations \cup {None}], NEW s \in Seq(Keys)
    PROVE  NextForward(ops, s) \in Operations \cup {None}
  BY DEF NextForward

(* Whatever its outcome, admit returns well-formed actions.                *)
LEMMA AdmitOut ==
    ASSUME NEW op \in Operations, NEW committed, NEW ready,
           Admit(op, committed, ready)
    PROVE  out' \in SUBSET RelayActions
<1>1. GenericAck(op) \in BOOLEAN
  BY DEF GenericAck
<1>2. CASE AdmitThrows(op, committed, ready)
  BY <1>2 DEF AdmitThrows
<1>3. CASE AdmitNotInGroup(op, committed)
  BY <1>1, <1>3, RouteFailureType DEF AdmitNotInGroup, FailureStatuses
<1>4. CASE AdmitLocal(op, committed)
  <2>1. RouteSuccess(op, None) \in RelayActions
    BY RouteSuccessType
  <2> QED
    BY <1>1, <1>4, <2>1 DEF AdmitLocal, RelayActions
<1>5. CASE AdmitUnavailable(op, committed, ready)
  BY <1>1, <1>5, RouteFailureType DEF AdmitUnavailable, FailureStatuses
<1>6. CASE AdmitDuplicate(op, committed, ready)
  BY <1>1, <1>6, NoActionsType DEF AdmitDuplicate, RelayActions
<1>7. CASE AdmitQueueFull(op, committed, ready)
  BY <1>1, <1>7, RouteFailureType DEF AdmitQueueFull, FailureStatuses
<1>8. CASE AdmitForward(op, committed, ready)
  BY <1>1, <1>8, NoActionsType DEF AdmitForward, RelayActions
<1> QED
  BY <1>2, <1>3, <1>4, <1>5, <1>6, <1>7, <1>8 DEF Admit

(* Every call preserves the invariant.                                     *)
LEMMA RelayStep ==
    ASSUME RelayInv, [RelayNext]_relayVars
    PROVE  RelayInv'
<1> USE DEF RelayInv
<1>1. ASSUME NEW op \in Operations, NEW committed \in Memberships,
             NEW ready \in BOOLEAN, Admit(op, committed, ready)
      PROVE  RelayInv'
  <2>1. out' \in SUBSET RelayActions
    BY <1>1, AdmitOut
  <2>2. AdmitForward(op, committed, ready) \/ UNCHANGED tableVars
    BY <1>1 DEF Admit, AdmitThrows, AdmitNotInGroup, AdmitLocal,
                AdmitUnavailable, AdmitDuplicate, AdmitQueueFull
  <2> QED
    BY <2>1, <2>2, AdmitForwardTable, UnchangedTable
<1>2. ASSUME NEW k \in Keys, AlreadyReleased(k)
      PROVE  RelayInv'
  BY <1>2, UnchangedTable, NoActionsType DEF AlreadyReleased
<1>3. ASSUME NEW k \in Keys, Admitted(k), Release(k)
      PROVE  /\ TableInv'
             /\ operations[k] \in Operations
             /\ NextForward(operations', order'[Pair(operations[k])])
                    \in Operations \cup {None}
  <2>1. TableInv'
    BY <1>3, ReleaseTable
  <2>2. operations[k] \in Operations
    BY <1>3 DEF TableInv, TableTypeOK, Admitted
  <2>3. order'[Pair(operations[k])] \in Seq(Keys)
    BY <2>1, <2>2, KeyTypes DEF TableInv, TableTypeOK
  <2>4. operations' \in [Keys -> Operations \cup {None}]
    BY <2>1 DEF TableInv, TableTypeOK
  <2> QED
    BY <2>1, <2>2, <2>3, <2>4, NextForwardType
<1>4. ASSUME NEW k \in Keys, FinalHopSucceeded(k)
      PROVE  RelayInv'
  <2>1. Admitted(k) /\ Release(k)
    BY <1>4 DEF FinalHopSucceeded
  <2> QED
    BY <1>3, <1>4, <2>1, RouteSuccessType DEF FinalHopSucceeded
<1>5. ASSUME NEW k \in Keys, NEW status \in HopFailures,
             FinalHopFailed(k, status)
      PROVE  RelayInv'
  <2>1. CASE AlreadyReleased(k)
    BY <1>2, <2>1
  <2>2. CASE Admitted(k) /\ Release(k)
               /\ out' = {RouteFailure(operations[k], status, FALSE,
                             NextForward(operations',
                                         order'[Pair(operations[k])]))}
    <3>1. status \in FailureStatuses
      BY DEF HopFailures, FailureStatuses
    <3> QED
      BY <1>3, <2>2, <3>1, RouteFailureType
  <2> QED
    BY <1>5, <2>1, <2>2 DEF FinalHopFailed
<1>6. ASSUME NEW d \in Peers, DestinationResumeSucceeded(d)
      PROVE  RelayInv'
  <2>1. TableInv'
    BY <1>6, UnchangedTable DEF DestinationResumeSucceeded
  <2>2. \A k \in AdmittedTo(d) : operations[k] \in Operations
    BY DEF TableInv, TableTypeOK, AdmittedTo, Admitted
  <2>3. out' \in SUBSET RelayActions
    BY <1>6, <2>2, NoActionsType
       DEF DestinationResumeSucceeded, RelayActions
  <2> QED
    BY <2>1, <2>3
<1>7. ASSUME NEW d \in Peers, NEW status \in FailureStatuses,
             DestinationTerminated(d, status)
      PROVE  RelayInv'
  <2>1. TableInv'
    BY <1>7, ReleaseDestinationTable DEF DestinationTerminated
  <2>2. \A k \in AdmittedTo(d) : operations[k] \in Operations
    BY DEF TableInv, TableTypeOK, AdmittedTo, Admitted
  <2>3. \A k \in AdmittedTo(d) :
            RouteFailure(operations[k], status, FALSE, None) \in RelayActions
    BY <2>2, RouteFailureType
  <2> QED
    BY <1>7, <2>1, <2>3 DEF DestinationTerminated
<1>8. ASSUME CoordinatorAuthorityLost
      PROVE  RelayInv'
  <2>1. TableInv'
    <3>1. TableEmpty'
      BY <1>8 DEF CoordinatorAuthorityLost, TableEmpty
    <3> QED
      BY <3>1, EmptyTable, PTL
  <2> QED
    BY <1>8, <2>1 DEF CoordinatorAuthorityLost
<1>9. CASE UNCHANGED relayVars
  BY <1>9, UnchangedTable DEF relayVars, tableVars
<1> QED
  <2>1. ASSUME NEW d \in Peers, DestinationResumeFailed(d)
        PROVE  RelayInv'
    BY <1>7, <2>1 DEF DestinationResumeFailed, FailureStatuses
  <2>2. ASSUME NEW d \in Peers, DestinationRemoved(d)
        PROVE  RelayInv'
    BY <1>7, <2>2 DEF DestinationRemoved, FailureStatuses
  <2>3. ASSUME NEW k \in Keys, FinalHopSubmitted(k) \/ FinalHopAcknowledged(k)
        PROVE  RelayInv'
    BY <1>2, <1>4, <2>3 DEF FinalHopSubmitted, FinalHopAcknowledged
  <2> HIDE DEF RelayInv
  <2> QED
    BY <1>1, <1>5, <1>6, <1>8, <1>9, <2>1, <2>2, <2>3 DEF RelayNext

(* The relay table keeps every order list and every message reservation    *)
(* exact and within its limits, for any sequence of calls.                 *)
THEOREM RelayInvariant == RelaySpec => []RelayInv
<1>1. RelayInit => RelayInv
  BY EmptyTable DEF RelayInit, RelayInv, TableEmpty
<1>2. RelayInv /\ [RelayNext]_relayVars => RelayInv'
  BY RelayStep
<1> QED
  BY <1>1, <1>2, PTL DEF RelaySpec

(* Type correctness of the table and of every returned actions value.      *)
THEOREM RelayTypeCorrect == RelaySpec => []RelayTypeOK
<1>1. RelayInv => RelayTypeOK
  BY DEF RelayInv, TableInv, RelayTypeOK
<1> QED
  BY <1>1, RelayInvariant, PTL

(* CoordinatorRelayTable's order lists never dangle, repeat or forget.     *)
THEOREM RelayOrderExact == RelaySpec => []OrderExact
<1>1. RelayInv => OrderExact
  BY DEF RelayInv, TableInv
<1> QED
  BY <1>1, RelayInvariant, PTL

(* Message reservations are exact: nothing is released twice or leaked.    *)
THEOREM RelayMessagesExact == RelaySpec => []MessagesExact
<1>1. RelayInv => MessagesExact
  BY DEF RelayInv, TableInv
<1> QED
  BY <1>1, RelayInvariant, PTL

(* No destination ever exceeds its reservation limits.                     *)
THEOREM RelayWithinLimits == RelaySpec => []WithinLimits
<1>1. RelayInv => WithinLimits
  BY DEF RelayInv, TableInv
<1> QED
  BY <1>1, RelayInvariant, PTL

-----------------------------------------------------------------------------
(* Hand-over of the next relay                                             *)

NewHead(pair) ==
    /\ order'[pair] # <<>>
    /\ order[pair] = <<>> \/ Head(order'[pair]) # Head(order[pair])

HandedOver(pair) ==
    \E a \in out' : a.forward = operations'[Head(order'[pair])]

(* A completion hands over the relay that its own removal uncovered.       *)
LEMMA ReleaseHandsOver ==
    ASSUME RelayInv, NEW k \in Keys, Admitted(k), Release(k),
           NEW a, out' = {a},
           a.forward = NextForward(operations', order'[Pair(operations[k])]),
           NEW pair \in Pairs, NewHead(pair)
    PROVE  HandedOver(pair)
<1>1. order' = [order EXCEPT ![Pair(operations[k])] = RemoveFirst(@, k)]
  BY DEF Release
<1>2. order \in [Pairs -> Seq(Keys)]
  BY DEF RelayInv, TableInv, TableTypeOK
<1>3. pair = Pair(operations[k])
  BY <1>1, <1>2 DEF NewHead
<1> QED
  BY <1>3 DEF HandedOver, NewHead, NextForward

(* Whenever a relay becomes the head of its source/destination order, the  *)
(* call that made it the head asks the caller to forward it.               *)
THEOREM RelayHeadHandedOver == RelaySpec => HeadHandedOver
<1>1. ASSUME RelayInv, [RelayNext]_relayVars, NEW pair \in Pairs, NewHead(pair)
      PROVE  HandedOver(pair)
  <2>1. order \in [Pairs -> Seq(Keys)]
    BY <1>1 DEF RelayInv, TableInv, TableTypeOK
  <2>2. order'[pair] # order[pair]
    BY <1>1 DEF NewHead
  <2>3. ASSUME NEW op \in Operations, NEW committed \in Memberships,
               NEW ready \in BOOLEAN, Admit(op, committed, ready)
        PROVE  HandedOver(pair)
    <3>1. AdmitForward(op, committed, ready)
      BY <2>2, <2>3 DEF Admit, AdmitThrows, AdmitNotInGroup, AdmitLocal,
                AdmitUnavailable, AdmitDuplicate, AdmitQueueFull, tableVars
    <3>2. order' = [order EXCEPT ![Pair(op)] = Append(@, Key(op))]
      BY <3>1 DEF AdmitForward
    <3>3. pair = Pair(op)
      BY <2>1, <2>2, <3>2
    <3>4. order[pair] = <<>>
      <4>1. order[pair] \in Seq(Keys) /\ order'[pair] = Append(order[pair], Key(op))
        BY <2>1, <3>2, <3>3
      <4>2. Key(op) \in Keys
        BY KeyTypes
      <4>3. order[pair] # <<>> => Head(order'[pair]) = Head(order[pair])
        BY <4>1, <4>2
      <4> QED
        BY <1>1, <4>3 DEF NewHead
    <3>5. Head(order'[pair]) = Key(op)
      BY <2>1, <3>2, <3>3, <3>4
    <3>6. operations'[Key(op)] = op
      BY <1>1, <3>1, KeyTypes
         DEF AdmitForward, RelayInv, TableInv, TableTypeOK
    <3>7. \E a \in out' : a.forward = op
      BY <3>1, <3>3, <3>4 DEF AdmitForward, NoActions
    <3> QED
      BY <3>5, <3>6, <3>7 DEF HandedOver
  <2>4. ASSUME NEW k \in Keys, AlreadyReleased(k)
        PROVE  FALSE
    BY <2>2, <2>4 DEF AlreadyReleased, tableVars
  <2>5. ASSUME NEW k \in Keys, FinalHopSucceeded(k)
        PROVE  HandedOver(pair)
    <3> DEFINE next == NextForward(operations', order'[Pair(operations[k])])
               a == RouteSuccess(operations[k], next)
    <3>1. a.forward = next
      BY DEF RouteSuccess, NoActions
    <3>2. out' = {a} /\ Admitted(k) /\ Release(k)
      BY <2>5 DEF FinalHopSucceeded
    <3> QED
      BY <1>1, <3>1, <3>2, ReleaseHandsOver
  <2>6. ASSUME NEW k \in Keys, NEW status \in HopFailures,
               FinalHopFailed(k, status)
        PROVE  HandedOver(pair)
    <3> DEFINE next == NextForward(operations', order'[Pair(operations[k])])
               a == RouteFailure(operations[k], status, FALSE, next)
    <3>1. a.forward = next
      BY DEF RouteFailure, NoActions
    <3>2. out' = {a} /\ Admitted(k) /\ Release(k)
      BY <2>4, <2>6 DEF FinalHopFailed
    <3> QED
      BY <1>1, <3>1, <3>2, ReleaseHandsOver
  <2>7. ASSUME NEW d \in Peers, DestinationResumeSucceeded(d)
        PROVE  FALSE
    BY <2>2, <2>7 DEF DestinationResumeSucceeded, tableVars
  <2>8. ASSUME NEW d \in Peers, ReleaseDestination(d)
        PROVE  FALSE
    <3>1. order'[pair] = IF pair[2] = d THEN <<>> ELSE order[pair]
      BY <2>8 DEF ReleaseDestination
    <3> QED
      BY <1>1, <2>2, <3>1 DEF NewHead
  <2>9. ASSUME CoordinatorAuthorityLost
        PROVE  FALSE
    BY <1>1, <2>9 DEF CoordinatorAuthorityLost, NewHead
  <2>10. CASE UNCHANGED relayVars
    BY <2>2, <2>10 DEF relayVars
  <2>11. ASSUME NEW k \in Keys, FinalHopSubmitted(k) \/ FinalHopAcknowledged(k)
         PROVE  HandedOver(pair)
    BY <2>4, <2>5, <2>11 DEF FinalHopSubmitted, FinalHopAcknowledged
  <2>12. ASSUME NEW d \in Peers, DestinationResumeFailed(d) \/ DestinationRemoved(d)
         PROVE  FALSE
    BY <2>8, <2>12
       DEF DestinationResumeFailed, DestinationRemoved, DestinationTerminated
  <2> QED
    BY <1>1, <2>3, <2>6, <2>7, <2>9, <2>10, <2>11, <2>12 DEF RelayNext
<1>2. RelayInv /\ [RelayNext]_relayVars =>
        [\A pair \in Pairs :
            order'[pair] # <<>>
                /\ (order[pair] = <<>> \/ Head(order'[pair]) # Head(order[pair]))
                => \E a \in out' : a.forward = operations'[Head(order'[pair])]
        ]_relayVars
  BY <1>1 DEF NewHead, HandedOver
<1> QED
  BY <1>2, RelayInvariant, PTL DEF RelaySpec, HeadHandedOver

-----------------------------------------------------------------------------
(* A route failure and the success of a final hop are verdicts for the     *)
(* source of their operation, whether it is local or remote.               *)
LEMMA FailureIsVerdict ==
    ASSUME NEW op \in Operations, NEW status \in FailureStatuses, NEW ack, NEW next
    PROVE  Verdict(RouteFailure(op, status, ack, next), op)
<1>1. Signal(op, status) # None
  <2>1. Signal(op, status) \in Signals
    BY DEF Signal, Signals, SignalStatuses, Operations
  <2> QED
    BY <2>1, NoneAssumption
<1>2. "failed" # None
  BY NoneAssumption DEF LocalStates
<1> QED
  BY <1>1, <1>2 DEF Verdict, RouteFailure, NoActions, Signal

(* The action of a success carries the verdict of its operation.           *)
LEMMA SuccessIsVerdict ==
    ASSUME NEW op \in Operations, NEW next
    PROVE  Verdict(RouteSuccess(op, next), op)
<1>1. Signal(op, FinalSuccess(op).status) # None
  <2>1. Signal(op, FinalSuccess(op).status) \in Signals
    BY DEF Signal, Signals, SignalStatuses, Operations, FinalSuccess
  <2> QED
    BY <2>1, NoneAssumption
<1>2. FinalSuccess(op).local # None
  <2>1. FinalSuccess(op).local \in LocalStates
    BY DEF FinalSuccess, LocalStates
  <2> QED
    BY <2>1, NoneAssumption
<1> QED
  BY <1>1, <1>2 DEF Verdict, RouteSuccess, NoActions, Signal

(* A relay of the table is gone after the step.                            *)
Leaves(key) == key \in Keys /\ Admitted(key) /\ operations'[key] = None
Answered(key) == \E a \in out' : Verdict(a, operations[key])

(* However its relay leaves the table - acknowledged, submitted, failed,   *)
(* or with its destination -, the source is told in the same call; only    *)
(* losing authority is silent, and then nothing is left behind.            *)
THEOREM RelayReleasedWithVerdict == RelaySpec => ReleasedWithVerdict
<1>1. ASSUME RelayInv, [RelayNext]_relayVars, ~CoordinatorAuthorityLost,
             NEW key, Leaves(key)
      PROVE  Answered(key)
  <2>1. operations \in [Keys -> Operations \cup {None}]
    BY <1>1 DEF RelayInv, TableInv, TableTypeOK
  <2>2. operations[key] \in Operations /\ operations'[key] # operations[key]
    BY <1>1, <2>1 DEF Leaves, Admitted
  <2>3. ASSUME NEW op \in Operations, NEW committed \in Memberships,
               NEW ready \in BOOLEAN, Admit(op, committed, ready)
        PROVE  FALSE
    <3>1. AdmitForward(op, committed, ready)
      BY <2>2, <2>3 DEF Admit, AdmitThrows, AdmitNotInGroup, AdmitLocal,
                AdmitUnavailable, AdmitDuplicate, AdmitQueueFull, tableVars
    <3>2. operations' = [operations EXCEPT ![Key(op)] = op] /\ ~Admitted(Key(op))
      BY <3>1 DEF AdmitForward
    <3> QED
      BY <1>1, <2>1, <2>2, <3>2 DEF Leaves, Admitted
  <2>4. ASSUME NEW k \in Keys, AlreadyReleased(k)
        PROVE  FALSE
    BY <2>2, <2>4 DEF AlreadyReleased, tableVars
  <2>5. ASSUME NEW k \in Keys, Release(k) PROVE k = key
    <3>1. operations' = [operations EXCEPT ![k] = None]
      BY <2>5 DEF Release
    <3> QED
      BY <2>1, <2>2, <3>1
  <2>6. ASSUME NEW k \in Keys, FinalHopSucceeded(k)
        PROVE  Answered(key)
    <3> DEFINE next == NextForward(operations', order'[Pair(operations[k])])
    <3>1. out' = {RouteSuccess(operations[k], next)} /\ k = key
      BY <2>5, <2>6 DEF FinalHopSucceeded
    <3> QED
      BY <2>2, <3>1, SuccessIsVerdict DEF Answered
  <2>7. ASSUME NEW k \in Keys, NEW status \in HopFailures,
               FinalHopFailed(k, status)
        PROVE  Answered(key)
    <3> DEFINE next == NextForward(operations', order'[Pair(operations[k])])
    <3>1. out' = {RouteFailure(operations[k], status, FALSE, next)} /\ k = key
      BY <2>4, <2>5, <2>7 DEF FinalHopFailed
    <3>2. status \in FailureStatuses
      BY DEF HopFailures, FailureStatuses
    <3> QED
      BY <2>2, <3>1, <3>2, FailureIsVerdict DEF Answered
  <2>8. ASSUME NEW d \in Peers, DestinationResumeSucceeded(d)
        PROVE  FALSE
    BY <2>2, <2>8 DEF DestinationResumeSucceeded, tableVars
  <2>9. ASSUME NEW d \in Peers, NEW status \in FailureStatuses,
               DestinationTerminated(d, status)
        PROVE  Answered(key)
    <3>1. /\ ReleaseDestination(d)
          /\ out' = {RouteFailure(operations[k], status, FALSE, None) : k \in AdmittedTo(d)}
      BY <2>9 DEF DestinationTerminated
    <3>2. operations' = [k \in Keys |->
              IF k \in AdmittedTo(d) THEN None ELSE operations[k]]
      BY <3>1 DEF ReleaseDestination
    <3>3. key \in AdmittedTo(d)
      BY <1>1, <2>2, <3>2 DEF Leaves
    <3>4. RouteFailure(operations[key], status, FALSE, None) \in out'
      BY <3>1, <3>3
    <3> QED
      BY <2>2, <3>4, FailureIsVerdict DEF Answered
  <2>10. ASSUME NEW k \in Keys, FinalHopSubmitted(k) \/ FinalHopAcknowledged(k)
         PROVE  Answered(key)
    BY <2>4, <2>6, <2>10 DEF FinalHopSubmitted, FinalHopAcknowledged
  <2>11. ASSUME NEW d \in Peers, DestinationResumeFailed(d) \/ DestinationRemoved(d)
         PROVE  Answered(key)
    BY <2>9, <2>11 DEF DestinationResumeFailed, DestinationRemoved, FailureStatuses
  <2>12. CASE UNCHANGED relayVars
    BY <2>2, <2>12 DEF relayVars
  <2> QED
    BY <1>1, <2>3, <2>7, <2>8, <2>10, <2>11, <2>12 DEF RelayNext
<1>2. ASSUME CoordinatorAuthorityLost
      PROVE  out' = {} /\ \A key \in Keys : operations'[key] = None
  BY <1>2 DEF CoordinatorAuthorityLost
<1>3. RelayInv /\ [RelayNext]_relayVars =>
        [LET released == {key \in Keys : Admitted(key) /\ operations'[key] = None}
         IN  \/ \A key \in released : \E a \in out' : Verdict(a, operations[key])
             \/ /\ out' = {}
                /\ \A key \in Keys : operations'[key] = None
        ]_relayVars
  BY <1>1, <1>2 DEF Leaves, Answered
<1> QED
  BY <1>3, RelayInvariant, PTL DEF RelaySpec, ReleasedWithVerdict

-----------------------------------------------------------------------------
(* What holds of every running handler                                     *)

AnyHops == Keys \X Nat
TaskPcs == ImmediatePcs \cup HopPcs \cup {"acking", "signalling", "info"}
(* What OpOf finds for a key: a peer if the key belongs to the workload.   *)
Destinations ==
    {(CHOOSE op \in s.workload : Key(op) = key).destination : s \in Scenarios, key \in Keys}
TaskRecords ==
    [pc : TaskPcs, act : RelayActions, local : Keys \cup {None},
     rest : SUBSET RelayActions, hops : SUBSET AnyHops, hop : AnyHops \cup {None},
     peer : Peers \cup Destinations \cup {None}, from : Peers \cup {None}, own : Keys \cup {None}]

(* The application of the destination has received the operation.          *)
Reached(key, work, received) ==
    \A op \in work : Key(op) = key =>
        \E i \in DOMAIN received[op.destination] : received[op.destination][i] = key

(* The actions carry a status for the remote source of key.                *)
Tells(a, key) == a.signal # None /\ <<a.signal.source, a.signal.id>> = key

(* The actions report, on the wire or to a local handle, that the          *)
(* operation key was delivered.                                            *)
Claims(a, local, key) ==
    \/ Tells(a, key) /\ a.signal.status = "deliveryAck"
    \/ a.localState = "remoteAcknowledged" /\ local = key

(* What they report has happened, or happens in the same turn.             *)
Founded(a, local, work, received) ==
    \A key \in Keys : Claims(a, local, key) =>
        \/ Reached(key, work, received)
        \/ a.deliver # None /\ Key(a.deliver) = key

(* An enclosing loop goes over failures, each of another relay, or over    *)
(* the ordered heads of a resumed destination.                             *)
Rest(acts) ==
    /\ \A a \in acts : /\ a.forward # None => a.forward.mode = "ordered"
                       /\ a.localState # "remoteAcknowledged"
                       /\ a.signal # None => a.signal.status # "deliveryAck"
    /\ \A a1, a2 \in acts : \A key \in Keys :
            Tells(a1, key) /\ Tells(a2, key) => a1 = a2

TaskOK(task, work, received) ==
    /\ task \in TaskRecords
    /\ Rest(task.rest)
    /\ task.pc \in HopPcs => task.hop \in AnyHops
    /\ task.pc \in {"info", "replay", "replaying"} => task.peer \in Peers
    /\ task.pc = "submitting" => task.act.forward \in Operations
    /\ task.pc \in {"acking", "apply"} => Founded(task.act, task.local, work, received)

HandleStates == {"none", "pending", "cancelled"} \cup LocalStates
Entries == [state : {"pending", "awaiting"}, tries : Nat]

(* The part of the state that the proofs need to know the shape of.        *)
Shape ==
    /\ scenario \in Scenarios
    /\ members \in Memberships
    /\ arrivals \in [Keys -> Nat]
    /\ admissions \in Seq(Keys)
    /\ retained \in [Hops -> Entries \cup {None}]
    /\ liveHops \subseteq AnyHops /\ acks \subseteq AnyHops
    /\ wire \in [Remotes -> Seq(AnyHops)]
    /\ delivered \in [Peers -> Seq(Keys)]
    /\ handle \in [Keys -> HandleStates]
    /\ told \in [Keys -> SUBSET SignalStatuses]

TasksOK ==
    /\ tasks = [t \in TaskIds |-> tasks[t]]
    /\ \A t \in TaskIds : tasks[t] # None => TaskOK(tasks[t], Workload, delivered)

(* Whatever was acknowledged, or reported as delivered, was delivered.     *)
Honest ==
    /\ \A hop \in acks : Reached(hop[1], Workload, delivered)
    /\ \A key \in Keys :
        "deliveryAck" \in told[key] \/ handle[key] = "remoteAcknowledged"
            => Reached(key, Workload, delivered)

(* The inductive invariant.                                                *)
RuntimeInv == RelayInv /\ Shape /\ TasksOK /\ Honest

(* A handler owes key an outcome with the actions it is about to apply, or *)
(* with one of those it goes over after that.                              *)
OwesAct(task, key) ==
    task # None /\ task.pc \in {"acking", "apply"} /\ Tells(task.act, key)
OwesRest(task, key) == task # None /\ \E a \in task.rest : Tells(a, key)

Owed(key, running) ==
    {w \in TaskIds \X {"act", "rest"} :
        IF w[2] = "act" THEN OwesAct(running[w[1]], key) ELSE OwesRest(running[w[1]], key)}

(* Outcomes told, owed and still to come from the table, against arrivals. *)
Accounted ==
    \A key \in Keys :
        Cardinality(told[key]) + Cardinality(Owed(key, tasks))
            + (IF Admitted(key) THEN 1 ELSE 0) =< arrivals[key]

-----------------------------------------------------------------------------
(* Workloads, keys and deliveries                                          *)

(* What the applications send are operations with keys of their own.       *)
LEMMA WorkloadIs ==
    ASSUME scenario \in Scenarios
    PROVE  /\ Workload \subseteq Operations
           /\ \A op \in Workload : Key(op) \in Keys /\ op.source # op.destination
           /\ \A op1, op2 \in Workload : Key(op1) = Key(op2) => op1 = op2
<1>1. /\ scenario.workload \subseteq Operations
      /\ \A op \in scenario.workload : op.source # op.destination
      /\ \A op1, op2 \in scenario.workload : Key(op1) = Key(op2) => op1 = op2
  BY ScenarioAssumption
<1>2. \A op \in Operations : Key(op) \in Keys
  BY DEF Key, Keys, Operations
<1> QED
  BY <1>1, <1>2 DEF Workload

(* So an operation of the workload is found by its key.                    *)
LEMMA OpOfIs ==
    ASSUME scenario \in Scenarios, NEW op \in Workload
    PROVE  OpOf(Key(op)) = op
BY WorkloadIs DEF OpOf

(* An application keeps what it received.                                  *)
Grows(before, after) ==
    \A peer \in Peers : \A i \in DOMAIN before[peer] :
        i \in DOMAIN after[peer] /\ after[peer][i] = before[peer][i]

(* A delivery that happened stays one.                                     *)
LEMMA ReachedKept ==
    ASSUME NEW work \in SUBSET Operations, NEW before, NEW after, Grows(before, after),
           NEW key, Reached(key, work, before)
    PROVE  Reached(key, work, after)
<1> SUFFICES ASSUME NEW op \in work, Key(op) = key
             PROVE  \E i \in DOMAIN after[op.destination] : after[op.destination][i] = key
  BY DEF Reached
<1>1. op.destination \in Peers
  BY DEF Operations
<1>2. PICK i \in DOMAIN before[op.destination] : before[op.destination][i] = key
  BY DEF Reached
<1> QED
  BY <1>1, <1>2 DEF Grows

(* What a handler needs to know stays true while messages are delivered.   *)
LEMMA TaskKept ==
    ASSUME NEW work \in SUBSET Operations, NEW before, NEW after, Grows(before, after),
           NEW task, TaskOK(task, work, before)
    PROVE  TaskOK(task, work, after)
<1>1. Founded(task.act, task.local, work, before) => Founded(task.act, task.local, work, after)
  BY ReachedKept DEF Founded
<1> QED
  BY <1>1 DEF TaskOK

(* Receiving an operation once more changes nothing; otherwise it is the   *)
(* last one its destination received.                                      *)
LEMMA DeliverEffect ==
    ASSUME Shape, NEW key \in Keys, Deliver(key)
    PROVE  /\ delivered' \in [Peers -> Seq(Keys)]
           /\ Grows(delivered, delivered')
           /\ Reached(key, Workload, delivered')
<1> DEFINE peer == OpOf(key).destination
           old == delivered[peer]
           new == IF \E i \in DOMAIN old : old[i] = key THEN old ELSE Append(old, key)
<1>1. delivered' = [delivered EXCEPT ![peer] = new]
  BY DEF Deliver
<1>2. delivered \in [Peers -> Seq(Keys)]
  BY DEF Shape
<1>3. peer \in Peers =>
        /\ new \in Seq(Keys)
        /\ \E i \in DOMAIN new : new[i] = key
        /\ \A i \in DOMAIN old : i \in DOMAIN new /\ new[i] = old[i]
  <2> SUFFICES ASSUME peer \in Peers
               PROVE  /\ new \in Seq(Keys)
                      /\ \E i \in DOMAIN new : new[i] = key
                      /\ \A i \in DOMAIN old : i \in DOMAIN new /\ new[i] = old[i]
    OBVIOUS
  <2>1. old \in Seq(Keys)
    BY <1>2
  <2> HIDE DEF old
  <2>2. CASE \E i \in DOMAIN old : old[i] = key
    BY <2>1, <2>2
  <2>3. CASE ~\E i \in DOMAIN old : old[i] = key
    <3>1. new = Append(old, key)
      BY <2>3
    <3>2. /\ Append(old, key) \in Seq(Keys) /\ Len(Append(old, key)) = Len(old) + 1
          /\ \A i \in 1..Len(old) : Append(old, key)[i] = old[i]
          /\ Append(old, key)[Len(old) + 1] = key
      BY <2>1, AppendProperties
    <3>3. DOMAIN old = 1..Len(old) /\ DOMAIN new = 1..(Len(old) + 1) /\ Len(old) \in Nat
      BY <2>1, <3>1, <3>2
    <3> HIDE DEF new
    <3>4. new \in Seq(Keys)
      BY <3>1, <3>2
    <3>5. Len(old) + 1 \in DOMAIN new /\ new[Len(old) + 1] = key
      BY <3>1, <3>2, <3>3
    <3>6. \A i \in DOMAIN old : i \in DOMAIN new /\ new[i] = old[i]
      BY <3>1, <3>2, <3>3
    <3> QED
      BY <3>4, <3>5, <3>6
  <2> QED
    BY <2>2, <2>3
<1> HIDE DEF new, peer
<1>4. delivered' \in [Peers -> Seq(Keys)]
  BY <1>1, <1>2, <1>3
<1>5. Grows(delivered, delivered')
  BY <1>1, <1>2, <1>3 DEF Grows
<1>6. ASSUME NEW op \in Workload, Key(op) = key
      PROVE  \E i \in DOMAIN delivered'[op.destination] : delivered'[op.destination][i] = key
  <2>1. op.destination \in Peers
    BY <1>6, WorkloadIs DEF Shape, Operations
  <2>2. op.destination = peer
    BY <1>6, OpOfIs DEF Shape, peer
  <2>3. delivered'[op.destination] = new
    BY <1>1, <1>2, <2>1, <2>2
  <2> QED
    BY <1>3, <2>1, <2>2, <2>3
<1> QED
  BY <1>4, <1>5, <1>6 DEF Reached

-----------------------------------------------------------------------------
(* Handlers                                                                *)

(* There are finitely many slots for handlers.                             *)
LEMMA TaskIdsFinite == TaskIds \subseteq Nat /\ IsFiniteSet(TaskIds)
BY BoundAssumption, FS_Interval DEF TaskIds

(* An event handler starts in a slot that no handler occupies.             *)
LEMMA NewTaskIs ==
    ASSUME CanStart
    PROVE  NewTask \in TaskIds /\ tasks[NewTask] = None
<1>1. FreeTasks \subseteq Nat /\ FreeTasks # {}
  BY TaskIdsFinite DEF FreeTasks, CanStart
<1> DEFINE R == {pair \in Nat \X Nat : pair[1] < pair[2]}
<1>2. IsWellFoundedOn(R, Nat)
  BY NatLessThanWellFounded DEF OpToRel
<1> HIDE DEF R
<1>3. PICK t \in FreeTasks : \A u \in FreeTasks : <<u, t>> \notin R
  BY <1>1, <1>2, WFMin
<1>4. ASSUME NEW u \in FreeTasks PROVE t =< u
  <2>1. t \in Nat /\ u \in Nat /\ <<u, t>> \notin R
    BY <1>1, <1>3
  <2>2. ~(u < t)
    BY <2>1 DEF R
  <2> QED
    BY <2>1, <2>2
<1>5. NewTask \in FreeTasks
  BY <1>4 DEF NewTask
<1> QED
  BY <1>5 DEF FreeTasks

(* A step that changes one handler keeps the others.                       *)
LEMMA OneTask ==
    ASSUME TasksOK, scenario \in Scenarios, NEW t \in TaskIds, NEW task,
           tasks' = [tasks EXCEPT ![t] = task], UNCHANGED scenario,
           Grows(delivered, delivered'),
           task # None => TaskOK(task, Workload, delivered')
    PROVE  TasksOK'
<1>1. Workload' = Workload /\ Workload \in SUBSET Operations
  BY WorkloadIs DEF Workload
<1>2. tasks' = [u \in TaskIds |-> IF u = t THEN task ELSE tasks[u]]
  BY DEF TasksOK
<1>3. ASSUME NEW u \in TaskIds, tasks'[u] # None
      PROVE  TaskOK(tasks'[u], Workload, delivered')
  <2>1. CASE u = t
    BY <1>2, <1>3, <2>1
  <2>2. CASE u # t
    <3>1. tasks'[u] = tasks[u]
      BY <1>2, <2>2
    <3> QED
      BY <1>1, <1>3, <3>1, TaskKept DEF TasksOK
  <2> QED
    BY <2>1, <2>2
<1> QED
  BY <1>1, <1>2, <1>3 DEF TasksOK

(* Nothing more was received.                                              *)
LEMMA SameGrows == Grows(delivered, delivered)
BY DEF Grows

(* A running handler is one that is what TaskOK says.                      *)
LEMMA RunningIs ==
    ASSUME TasksOK, NEW pcs, NEW t \in Running(pcs)
    PROVE  /\ t \in TaskIds /\ tasks[t] # None /\ tasks[t].pc \in pcs
           /\ TaskOK(tasks[t], Workload, delivered)
BY DEF Running, TasksOK

-----------------------------------------------------------------------------
(* What the calls of the controller return                                 *)

(* A failure tells nobody but the source of the failed relay, and claims   *)
(* no delivery.                                                            *)
LEMMA FailureSays ==
    ASSUME NEW op \in Operations, NEW status \in FailureStatuses, NEW ack, NEW next,
           NEW a, a = RouteFailure(op, status, ack, next)
    PROVE  /\ a.forward = next
           /\ a.localState # "remoteAcknowledged"
           /\ a.signal # None => a.signal.status # "deliveryAck"
           /\ \A key : Tells(a, key) => key = Key(op)
<1>1. None # "remoteAcknowledged"
  BY NoneAssumption DEF LocalStates
<1>2. status # "deliveryAck"
  BY DEF FailureStatuses
<1>3. CASE op.source = Coordinator
  BY <1>1, <1>3 DEF RouteFailure, NoActions, Tells
<1>4. CASE op.source # Coordinator
  BY <1>1, <1>2, <1>4 DEF RouteFailure, NoActions, Tells, Signal, Key
<1> QED
  BY <1>3, <1>4

(* A success tells nobody but the source of the relay, and claims a        *)
(* delivery only of an acknowledged one.                                   *)
LEMMA SuccessSays ==
    ASSUME NEW op \in Operations, NEW next
    PROVE  LET a == RouteSuccess(op, next)
           IN  /\ a.localState = "remoteAcknowledged" => op.mode = "acked"
               /\ a.signal # None /\ a.signal.status = "deliveryAck" => op.mode = "acked"
               /\ \A key : Tells(a, key) => key = Key(op)
<1>1. None # "remoteAcknowledged"
  BY NoneAssumption DEF LocalStates
<1>2. CASE op.source = Coordinator
  BY <1>1, <1>2 DEF RouteSuccess, NoActions, Tells, FinalSuccess
<1>3. CASE op.source # Coordinator
  BY <1>1, <1>3 DEF RouteSuccess, NoActions, Tells, FinalSuccess, Signal, Key
<1> QED
  BY <1>2, <1>3

(* The empty actions say nothing.                                          *)
LEMMA NothingSays ==
    NoActions.localState # "remoteAcknowledged" /\ \A key : ~Tells(NoActions, key)
<1>1. None # "remoteAcknowledged"
  BY NoneAssumption DEF LocalStates
<1> QED
  BY <1>1 DEF NoActions, Tells

(* The completion or failure of k returns one actions value, which tells   *)
(* an outcome only if it released k, and admits nothing.                   *)
Settles(k, a) ==
    /\ out' = {a} /\ a \in RelayActions
    /\ \A key : Tells(a, key) => key = k /\ Admitted(k) /\ operations'[k] = None
    /\ \A key \in Keys : operations'[key] # None => Admitted(key)

(* Releasing a relay admits no other.                                      *)
LEMMA ReleaseAdmitsNothing ==
    ASSUME TableTypeOK, NEW k \in Keys, Release(k)
    PROVE  operations'[k] = None /\ \A key \in Keys : operations'[key] # None => Admitted(key)
BY DEF Release, TableTypeOK, Admitted

(* So do all three completions.  Only an acknowledgement claims that the   *)
(* operation was delivered, to its own source.                             *)
LEMMA FinalCall ==
    ASSUME RelayInv, [RelayNext]_relayVars, NEW k \in Keys, NEW status \in HopFailures
    PROVE  /\ FinalHopFailed(k, status) =>
                \E a : Settles(k, a) /\ \A local, key : ~Claims(a, local, key)
           /\ FinalHopSubmitted(k) =>
                \E a : Settles(k, a) /\ \A local, key : ~Claims(a, local, key)
           /\ FinalHopAcknowledged(k) =>
                \E a : Settles(k, a) /\ \A key : Claims(a, k, key) => key = k
<1>1. TableTypeOK /\ out' \in SUBSET RelayActions
  BY RelayStep DEF RelayInv, TableInv
<1>2. ASSUME AlreadyReleased(k)
      PROVE  /\ Settles(k, NoActions) /\ \A local, key : ~Claims(NoActions, local, key)
  <2>1. Settles(k, NoActions)
    BY <1>2, NothingSays, NoActionsType DEF AlreadyReleased, tableVars, Settles, Admitted
  <2> QED
    BY <2>1, NothingSays DEF Claims
<1>3. ASSUME Admitted(k) PROVE operations[k] \in Operations /\ Key(operations[k]) = k
  BY <1>1, <1>3 DEF TableTypeOK, Admitted
<1>4. ASSUME NEW a, out' = {a}, Admitted(k), Release(k), \A key : Tells(a, key) => key = k
      PROVE  Settles(k, a)
  <2>1. operations'[k] = None /\ \A key \in Keys : operations'[key] # None => Admitted(key)
    BY <1>1, <1>4, ReleaseAdmitsNothing
  <2>2. a \in RelayActions
    BY <1>1, <1>4
  <2> QED
    BY <1>4, <2>1, <2>2 DEF Settles
<1>5. ASSUME FinalHopFailed(k, status)
      PROVE  \E a : Settles(k, a) /\ \A local, key : ~Claims(a, local, key)
  <2>1. CASE AlreadyReleased(k)
    BY <1>2, <2>1
  <2>2. CASE ~AlreadyReleased(k)
    <3>1. PICK next : /\ Admitted(k) /\ Release(k)
                      /\ out' = {RouteFailure(operations[k], status, FALSE, next)}
      BY <1>5, <2>2 DEF FinalHopFailed
    <3>2. status \in FailureStatuses
      BY DEF HopFailures, FailureStatuses
    <3>4. PICK op \in Operations : op = operations[k] /\ Key(op) = k
      BY <1>3, <3>1
    <3>5. PICK a, ack : a = RouteFailure(op, status, ack, next) /\ out' = {a}
      BY <3>1, <3>4
    <3>3. /\ a.localState # "remoteAcknowledged"
          /\ a.signal # None => a.signal.status # "deliveryAck"
          /\ \A key : Tells(a, key) => key = k
      BY <3>2, <3>4, <3>5, FailureSays
    <3>6. Settles(k, a)
      BY <1>4, <3>1, <3>3, <3>5
    <3>7. \A local, key : ~Claims(a, local, key)
      BY <3>3 DEF Claims, Tells
    <3> QED
      BY <3>6, <3>7
  <2> QED
    BY <2>1, <2>2
<1>6. ASSUME Admitted(k), FinalHopSucceeded(k)
      PROVE  \E a : /\ Settles(k, a)
                    /\ \A local, key : Claims(a, local, key)
                            => operations[k].mode = "acked" /\ (local = k => key = k)
  <2>1. PICK next : Release(k) /\ out' = {RouteSuccess(operations[k], next)}
    BY <1>6 DEF FinalHopSucceeded
  <2> DEFINE a == RouteSuccess(operations[k], next)
  <2>2. /\ a.localState = "remoteAcknowledged" => operations[k].mode = "acked"
        /\ a.signal # None /\ a.signal.status = "deliveryAck" => operations[k].mode = "acked"
        /\ \A key : Tells(a, key) => key = k
    BY <1>3, <1>6, SuccessSays
  <2> HIDE DEF a
  <2>3. Settles(k, a)
    BY <1>4, <1>6, <2>1, <2>2 DEF a
  <2>4. \A local, key : Claims(a, local, key)
            => operations[k].mode = "acked" /\ (local = k => key = k)
    BY <2>2 DEF Claims, Tells
  <2> QED
    BY <2>3, <2>4
<1>7. ASSUME FinalHopSubmitted(k)
      PROVE  \E a : Settles(k, a) /\ \A local, key : ~Claims(a, local, key)
  <2>1. CASE AlreadyReleased(k)
    BY <1>2, <2>1
  <2>2. CASE ~AlreadyReleased(k)
    BY <1>6, <1>7, <2>2 DEF FinalHopSubmitted
  <2> QED
    BY <2>1, <2>2
<1>8. ASSUME FinalHopAcknowledged(k)
      PROVE  \E a : Settles(k, a) /\ \A key : Claims(a, k, key) => key = k
  <2>1. CASE AlreadyReleased(k)
    BY <1>2, <2>1
  <2>2. CASE ~AlreadyReleased(k)
    BY <1>6, <1>8, <2>2 DEF FinalHopAcknowledged
  <2> QED
    BY <2>1, <2>2
<1> QED
  BY <1>5, <1>7, <1>8

(* A terminated destination: each failure tells only the source of its own *)
(* relay, which the call released, and claims no delivery.                 *)
LEMMA TerminatedCall ==
    ASSUME RelayInv, NEW d \in Peers, NEW status \in FailureStatuses,
           DestinationTerminated(d, status)
    PROVE  /\ Rest(out')
           /\ \A a \in out' : \A key : Tells(a, key)
                => key \in Keys /\ Admitted(key) /\ operations'[key] = None
           /\ \A key \in Keys : operations'[key] # None => Admitted(key)
<1> DEFINE Failure(k) == RouteFailure(operations[k], status, FALSE, None)
<1>1. TableTypeOK
  BY DEF RelayInv, TableInv
<1>2. /\ out' = {Failure(k) : k \in AdmittedTo(d)}
      /\ operations' = [k \in Keys |-> IF k \in AdmittedTo(d) THEN None ELSE operations[k]]
  BY DEF DestinationTerminated, ReleaseDestination
<1>3. ASSUME NEW k \in AdmittedTo(d)
      PROVE  /\ k \in Keys /\ Admitted(k) /\ operations'[k] = None
             /\ operations[k] \in Operations /\ Key(operations[k]) = k
  BY <1>1, <1>2 DEF AdmittedTo, TableTypeOK, Admitted
<1>4. ASSUME NEW k \in AdmittedTo(d)
      PROVE  /\ Failure(k).forward = None
             /\ Failure(k).localState # "remoteAcknowledged"
             /\ Failure(k).signal # None => Failure(k).signal.status # "deliveryAck"
             /\ \A key : Tells(Failure(k), key) => key = k
  <2>1. PICK op, ack, a : a = RouteFailure(op, status, ack, None) /\ a = Failure(k)
                          /\ op = operations[k]
    OBVIOUS
  <2> HIDE DEF Failure
  <2>2. op \in Operations /\ Key(op) = k
    BY <1>3, <2>1
  <2>3. a = RouteFailure(op, status, ack, None)
    BY <2>1
  <2>4. /\ a.forward = None
        /\ a.localState # "remoteAcknowledged"
        /\ a.signal # None => a.signal.status # "deliveryAck"
        /\ \A key : Tells(a, key) => key = k
    BY <2>2, <2>3, FailureSays
  <2> QED
    BY <2>1, <2>4
<1> HIDE DEF Failure
<1>5. ASSUME NEW a1 \in out', NEW a2 \in out', NEW key, Tells(a1, key), Tells(a2, key)
      PROVE  a1 = a2
  <2>1. PICK k1 \in AdmittedTo(d) : a1 = Failure(k1)
    BY <1>2
  <2>2. PICK k2 \in AdmittedTo(d) : a2 = Failure(k2)
    BY <1>2
  <2>3. k1 = key /\ k2 = key
    BY <1>4, <1>5, <2>1, <2>2
  <2> QED
    BY <2>1, <2>2, <2>3
<1>6. Rest(out')
  BY <1>2, <1>4, <1>5 DEF Rest
<1>7. \A a \in out' : \A key : Tells(a, key)
        => key \in Keys /\ Admitted(key) /\ operations'[key] = None
  BY <1>2, <1>3, <1>4
<1>8. \A key \in Keys : operations'[key] # None => Admitted(key)
  BY <1>1, <1>2 DEF Admitted
<1> QED
  BY <1>6, <1>7, <1>8

(* A resumed destination: the heads only ask to be forwarded.              *)
LEMMA ResumedCall ==
    ASSUME RelayInv, NEW d, DestinationResumeSucceeded(d)
    PROVE  LET heads == {a \in out' : a.forward.mode = "ordered"}
           IN  Rest(heads) /\ \A a \in heads : \A key : ~Tells(a, key)
<1>1. ASSUME NEW a \in out'
      PROVE  a.localState = None /\ a.signal = None
  BY DEF DestinationResumeSucceeded, NoActions
<1>2. None # "remoteAcknowledged"
  BY NoneAssumption DEF LocalStates
<1> QED
  BY <1>1, <1>2 DEF Rest, Tells

(* An admission tells at most the source of the operation, and then leaves *)
(* the table alone; it claims a delivery only to ask for it.               *)
AdmitSays(op, a) ==
    /\ a \in RelayActions
    /\ \A key : Tells(a, key) => key = Key(op) /\ UNCHANGED operations
    /\ a.signal # None /\ a.signal.status = "deliveryAck" => a.deliver = op
    /\ a.localState = "remoteAcknowledged" => a.deliver = op /\ op.source = Coordinator

(* What an admission returns: it is about this operation, and no other     *)
(* relay is created.                                                       *)
LEMMA AdmitCall ==
    ASSUME TableTypeOK, NEW op \in Operations, NEW committed, NEW ready,
           Admit(op, committed, ready)
    PROVE  /\ \A a \in out' : AdmitSays(op, a)
           /\ \A key \in Keys : operations'[key] # None => Admitted(key) \/ key = Key(op)
<1>1. out' \in SUBSET RelayActions
  BY AdmitOut
<1>2. None # "remoteAcknowledged" /\ "failed" # "remoteAcknowledged"
  BY NoneAssumption DEF LocalStates
<1>3. ASSUME NEW a \in out', NEW status \in FailureStatuses, NEW ack,
             a = RouteFailure(op, status, ack, None), UNCHANGED operations
      PROVE  AdmitSays(op, a)
  <2>1. /\ a.localState # "remoteAcknowledged"
        /\ a.signal # None => a.signal.status # "deliveryAck"
        /\ \A key : Tells(a, key) => key = Key(op)
    BY <1>3, FailureSays
  <2> QED
    BY <1>1, <1>3, <2>1 DEF AdmitSays, Tells
<1>4. ASSUME NEW a \in out', a.signal = None, a.localState = None
      PROVE  AdmitSays(op, a)
  BY <1>1, <1>2, <1>4 DEF AdmitSays, Tells
<1>5. UNCHANGED tableVars
        => UNCHANGED operations /\ \A key \in Keys : operations'[key] # None => Admitted(key)
  BY DEF tableVars, Admitted
<1>6. CASE AdmitThrows(op, committed, ready)
  BY <1>5, <1>6 DEF AdmitThrows
<1>7. CASE AdmitNotInGroup(op, committed)
  <2>1. PICK ack, a : a = RouteFailure(op, "destinationNotInGroup", ack, None) /\ out' = {a}
    BY <1>7 DEF AdmitNotInGroup
  <2> QED
    BY <1>3, <1>5, <1>7, <2>1 DEF AdmitNotInGroup, FailureStatuses
<1>8. CASE AdmitUnavailable(op, committed, ready)
  <2>1. PICK ack, a : a = RouteFailure(op, "destinationUnavailable", ack, None) /\ out' = {a}
    BY <1>8 DEF AdmitUnavailable
  <2> QED
    BY <1>3, <1>5, <1>8, <2>1 DEF AdmitUnavailable, FailureStatuses
<1>9. CASE AdmitQueueFull(op, committed, ready)
  <2>1. PICK ack, a : a = RouteFailure(op, "relayQueueFull", ack, None) /\ out' = {a}
    BY <1>9 DEF AdmitQueueFull
  <2> QED
    BY <1>3, <1>5, <1>9, <2>1 DEF AdmitQueueFull, FailureStatuses
<1>10. CASE AdmitLocal(op, committed)
  <2>1. PICK ack, r, a : /\ r = RouteSuccess(op, None)
                         /\ a = [r EXCEPT !.genericAck = ack, !.deliver = op] /\ out' = {a}
    BY <1>10 DEF AdmitLocal
  <2>2. r \in RelayActions
    BY <2>1, RouteSuccessType
  <2>3. a.signal = r.signal /\ a.localState = r.localState /\ a.deliver = op
    BY <2>1, <2>2 DEF RelayActions
  <2>4. \A key : Tells(r, key) => key = Key(op)
    BY <2>1, SuccessSays
  <2>5. \A key : Tells(a, key) => key = Key(op)
    BY <2>3, <2>4 DEF Tells
  <2>6. a.localState = "remoteAcknowledged" => op.source = Coordinator
    BY <1>2, <2>1, <2>3 DEF RouteSuccess, NoActions
  <2>7. AdmitSays(op, a)
    BY <1>1, <1>5, <1>10, <2>1, <2>3, <2>5, <2>6 DEF AdmitSays, AdmitLocal
  <2> QED
    BY <1>5, <1>10, <2>1, <2>7 DEF AdmitLocal
<1>11. CASE AdmitDuplicate(op, committed, ready)
  BY <1>4, <1>5, <1>11 DEF AdmitDuplicate, NoActions
<1>12. CASE AdmitForward(op, committed, ready)
  <2>1. operations' = [operations EXCEPT ![Key(op)] = op]
    BY <1>12 DEF AdmitForward
  <2>2. \A a \in out' : a.signal = None /\ a.localState = None
    BY <1>12 DEF AdmitForward, NoActions
  <2>3. \A key \in Keys : operations'[key] # None => Admitted(key) \/ key = Key(op)
    BY <2>1 DEF TableTypeOK, Admitted
  <2> QED
    BY <1>4, <2>2, <2>3
<1> QED
  BY <1>6, <1>7, <1>8, <1>9, <1>10, <1>11, <1>12 DEF Admit

-----------------------------------------------------------------------------
(* The state a step leaves                                                 *)

StepOK == [RelayNext]_relayVars /\ Shape' /\ TasksOK' /\ Honest'

(* Every report of a delivery is older than the step or founded in it.     *)
LEMMA HonestKept ==
    ASSUME Shape, Honest, UNCHANGED scenario, Grows(delivered, delivered'),
           \A hop \in acks' : hop \in acks \/ Reached(hop[1], Workload, delivered'),
           \A key \in Keys : "deliveryAck" \in told'[key]
                => "deliveryAck" \in told[key] \/ Reached(key, Workload, delivered'),
           \A key \in Keys : handle'[key] = "remoteAcknowledged"
                => handle[key] = "remoteAcknowledged" \/ Reached(key, Workload, delivered')
    PROVE  Honest'
<1>1. Workload' = Workload /\ Workload \in SUBSET Operations
  BY WorkloadIs DEF Workload, Shape
<1>2. \A key : Reached(key, Workload, delivered) => Reached(key, Workload, delivered')
  BY <1>1, ReachedKept
<1>3. \A hop \in acks' : Reached(hop[1], Workload, delivered')
  BY <1>2 DEF Honest
<1>4. \A key \in Keys :
        "deliveryAck" \in told'[key] \/ handle'[key] = "remoteAcknowledged"
            => Reached(key, Workload, delivered')
  BY <1>2 DEF Honest
<1> QED
  BY <1>1, <1>3, <1>4 DEF Honest

(* A step of one handler, or of a new one, that reports nothing.           *)
LEMMA OneHandler ==
    ASSUME RuntimeInv, [RelayNext]_relayVars, Shape',
           UNCHANGED <<scenario, delivered, told>>, acks' \subseteq acks,
           \A key \in Keys : handle'[key] = "remoteAcknowledged"
                => handle[key] = "remoteAcknowledged",
           NEW t \in TaskIds, NEW task, tasks' = [tasks EXCEPT ![t] = task],
           task # None => TaskOK(task, Workload, delivered)
    PROVE  StepOK
<1>1. Grows(delivered, delivered') /\ delivered' = delivered
  BY SameGrows
<1>2. TasksOK'
  BY <1>1, OneTask DEF RuntimeInv, Shape
<1>3. Honest'
  BY <1>1, HonestKept DEF RuntimeInv
<1> QED
  BY <1>2, <1>3 DEF StepOK

(* Or that no handler takes.                                               *)
LEMMA NoHandler ==
    ASSUME RuntimeInv, [RelayNext]_relayVars, Shape',
           UNCHANGED <<scenario, delivered, told, tasks>>, acks' \subseteq acks,
           \A key \in Keys : handle'[key] = "remoteAcknowledged"
                => handle[key] = "remoteAcknowledged"
    PROVE  StepOK
<1>1. Grows(delivered, delivered') /\ delivered' = delivered
  BY SameGrows
<1>2. Workload' = Workload
  BY DEF Workload
<1>3. TasksOK'
  BY <1>1, <1>2 DEF RuntimeInv, TasksOK
<1>4. Honest'
  BY <1>1, HonestKept DEF RuntimeInv
<1> QED
  BY <1>3, <1>4 DEF StepOK

(* The step leaves the inductive invariant.                                *)
LEMMA StepKeeps ==
    ASSUME RuntimeInv, StepOK
    PROVE  RuntimeInv'
BY RelayStep DEF RuntimeInv, StepOK

(* Appending a hop to the wire, or changing an entry, keeps the shape.     *)
LEMMA WireAppend ==
    ASSUME wire \in [Remotes -> Seq(AnyHops)], NEW d, NEW hop \in AnyHops
    PROVE  [wire EXCEPT ![d] = Append(@, hop)] \in [Remotes -> Seq(AnyHops)]
<1>1. d \in Remotes => Append(wire[d], hop) \in Seq(AnyHops)
  BY AppendProperties
<1> QED
  BY <1>1

(* The deadline of a hop starts without touching its retries.              *)
LEMMA DeadlineStartedIs ==
    ASSUME retained \in [Hops -> Entries \cup {None}], NEW hop
    PROVE  /\ DeadlineStarted(hop) \in [Hops -> Entries \cup {None}]
           /\ \A h \in Hops : retained[h] # None /\ DeadlineStarted(hop)[h] # None
                => DeadlineStarted(hop)[h].tries = retained[h].tries
<1>1. CASE retained[hop] = None
  BY <1>1 DEF DeadlineStarted
<1>2. CASE retained[hop] # None
  <2>1. DeadlineStarted(hop) = [retained EXCEPT ![hop] = [@ EXCEPT !.state = "awaiting"]]
    BY <1>2 DEF DeadlineStarted
  <2>2. hop \in Hops => /\ [retained[hop] EXCEPT !.state = "awaiting"] \in Entries
                        /\ [retained[hop] EXCEPT !.state = "awaiting"].tries = retained[hop].tries
    BY <1>2 DEF Entries
  <2> QED
    BY <2>1, <2>2
<1> QED
  BY <1>1, <1>2

(* The MessageId of a hop is well formed.                                  *)
LEMMA HopOfType ==
    ASSUME Shape, NEW op \in Operations
    PROVE  HopOf(op) \in AnyHops
<1> DEFINE S == {i \in DOMAIN admissions : admissions[i] = Key(op)}
<1>1. Len(admissions) \in Nat /\ DOMAIN admissions = 1..Len(admissions)
  BY DEF Shape
<1>2. IsFiniteSet(1..Len(admissions)) /\ S \in SUBSET (1..Len(admissions))
  BY <1>1, FS_Interval
<1>3. Cardinality(S) \in Nat
  BY <1>2, FS_Subset, FS_CardinalityType
<1> QED
  BY <1>3, KeyTypes DEF HopOf, AnyHops

(* A fresh handler is well formed.                                         *)
LEMMA TaskIs ==
    ASSUME NEW pc \in TaskPcs, NEW act \in RelayActions, NEW local \in Keys \cup {None},
           NEW rest \in SUBSET RelayActions
    PROVE  /\ Task(pc, act, local, rest) \in TaskRecords
           /\ Task(pc, act, local, rest).pc = pc
           /\ Task(pc, act, local, rest).act = act
           /\ Task(pc, act, local, rest).local = local
           /\ Task(pc, act, local, rest).rest = rest
BY DEF Task, TaskRecords

(* So is one that starts by applying well-founded actions.                 *)
LEMMA ApplierOK ==
    ASSUME NEW task \in TaskRecords, task.pc \in {"acking", "apply"}, task.rest = {},
           NEW work, NEW received, Founded(task.act, task.local, work, received)
    PROVE  TaskOK(task, work, received)
<1>1. Rest({})
  BY DEF Rest
<1> QED
  BY <1>1 DEF TaskOK, HopPcs

(* The handle of a send is completed at most with the given state.         *)
LEMMA CompletedIs ==
    ASSUME handle \in [Keys -> HandleStates], NEW key, NEW state \in HandleStates
    PROVE  /\ Completed(key, state) \in [Keys -> HandleStates]
           /\ \A k \in Keys : \/ Completed(key, state)[k] = handle[k]
                              \/ k = key /\ Completed(key, state)[k] = state
BY DEF Completed

-----------------------------------------------------------------------------
(* Admissions                                                              *)

(* An admission is a call of the table and leaves the admission log well   *)
(* formed.                                                                 *)
LEMMA AdmissionStep ==
    ASSUME RuntimeInv, NEW op \in Workload, NEW ready \in BOOLEAN,
           Admit(op, members, ready), RecordAdmission(op)
    PROVE  /\ op \in Operations /\ Key(op) \in Keys /\ op # None
           /\ [RelayNext]_relayVars
           /\ \A a \in out' : AdmitSays(op, a)
           /\ \A key \in Keys : operations'[key] # None => Admitted(key) \/ key = Key(op)
           /\ arrivals' \in [Keys -> Nat] /\ admissions' \in Seq(Keys)
           /\ UNCHANGED scenario
<1>1. op \in Operations /\ Key(op) \in Keys /\ op # None
  BY WorkloadIs, NoneAssumption DEF RuntimeInv, Shape
<1>2. [RelayNext]_relayVars
  BY <1>1 DEF RelayNext, RuntimeInv, Shape
<1>3. /\ \A a \in out' : AdmitSays(op, a)
      /\ \A key \in Keys : operations'[key] # None => Admitted(key) \/ key = Key(op)
  BY <1>1, AdmitCall DEF RuntimeInv, RelayInv, TableInv
<1>4. arrivals' \in [Keys -> Nat]
  BY <1>1 DEF RecordAdmission, RuntimeInv, Shape
<1>5. admissions' \in Seq(Keys)
  BY <1>1, AppendProperties DEF RecordAdmission, RuntimeInv, Shape
<1> QED
  BY <1>1, <1>2, <1>3, <1>4, <1>5 DEF RecordAdmission

(* What an admission claims is founded: it delivers the operation itself.  *)
LEMMA AdmitFounded ==
    ASSUME NEW op \in Operations, NEW a, AdmitSays(op, a), NEW work, NEW received,
           NEW local, op.source # Coordinator \/ local = Key(op)
    PROVE  Founded(a, local, work, received)
<1> SUFFICES ASSUME NEW key \in Keys, Claims(a, local, key)
             PROVE  a.deliver # None /\ Key(a.deliver) = key
  BY DEF Founded
<1>1. op # None
  BY NoneAssumption
<1>2. CASE Tells(a, key) /\ a.signal.status = "deliveryAck"
  BY <1>1, <1>2 DEF AdmitSays, Tells
<1>3. CASE a.localState = "remoteAcknowledged" /\ local = key
  BY <1>1, <1>3 DEF AdmitSays
<1> QED
  BY <1>2, <1>3 DEF Claims

(* StepOK for the arrival of a source hop.                                 *)
LEMMA SourceHopStep ==
    ASSUME RuntimeInv, NEW op \in Workload, SourceHop(op)
    PROVE  StepOK
<1> DEFINE ready == op.destination = Coordinator \/ Ready(op.destination)
<1>1. ready \in BOOLEAN
  OBVIOUS
<1>2. /\ CanStart /\ op.source # Coordinator /\ RecordAdmission(op)
      /\ Admit(op, members, ready)
      /\ UNCHANGED <<sessionVars, retentionVars, airVars, resultVars>>
  BY DEF SourceHop
<1> HIDE DEF ready
<1>3. /\ op \in Operations /\ Key(op) \in Keys /\ op # None
      /\ [RelayNext]_relayVars
      /\ \A a \in out' : AdmitSays(op, a)
      /\ arrivals' \in [Keys -> Nat] /\ admissions' \in Seq(Keys)
      /\ UNCHANGED scenario
  BY <1>1, <1>2, AdmissionStep
<1>4. Shape'
  BY <1>2, <1>3 DEF Shape, RuntimeInv, sessionVars, retentionVars, airVars, resultVars
<1>5. UNCHANGED <<delivered, told, handle, acks>>
  BY <1>2 DEF resultVars, airVars
<1>6. PICK act \in out' : UNCHANGED tasks \/ \E pc \in {"acking", "apply"} :
            Spawn([Task(pc, act, None, {}) EXCEPT !.from = op.source])
  BY DEF SourceHop
<1>7. CASE UNCHANGED tasks
  BY <1>3, <1>4, <1>5, <1>7, NoHandler
<1>8. ASSUME NEW pc \in {"acking", "apply"},
             Spawn([Task(pc, act, None, {}) EXCEPT !.from = op.source])
      PROVE  StepOK
  <2> DEFINE task == [Task(pc, act, None, {}) EXCEPT !.from = op.source]
  <2>1. act \in RelayActions /\ Founded(act, None, Workload, delivered) /\ op.source \in Peers
    BY <1>2, <1>3, AdmitFounded DEF AdmitSays, Operations
  <2>2. tasks' = [tasks EXCEPT ![NewTask] = task] /\ NewTask \in TaskIds
    BY <1>2, <1>8, NewTaskIs DEF Spawn
  <2>3. task \in TaskRecords
    BY <2>1 DEF Task, TaskRecords, TaskPcs, ImmediatePcs
  <2>4. TaskOK(task, Workload, delivered)
    BY <2>1, <2>3, ApplierOK DEF Task
  <2> HIDE DEF task
  <2> QED
    BY <1>3, <1>4, <1>5, <2>2, <2>4, OneHandler
<1> QED
  BY <1>6, <1>7, <1>8

(* StepOK for a send by the coordinator.                                   *)
LEMMA LocalSendStep ==
    ASSUME RuntimeInv, NEW op \in Workload, LocalSend(op)
    PROVE  StepOK
<1> DEFINE ready == Ready(op.destination)
<1>1. ready \in BOOLEAN
  BY DEF Ready
<1>2. /\ CanStart /\ op.source = Coordinator /\ RecordAdmission(op)
      /\ Admit(op, members, ready)
      /\ handle' = [handle EXCEPT ![Key(op)] = "pending"]
      /\ UNCHANGED <<sessionVars, retentionVars, airVars, delivered, told>>
  BY DEF LocalSend
<1> HIDE DEF ready
<1>3. /\ op \in Operations /\ Key(op) \in Keys /\ op # None
      /\ [RelayNext]_relayVars
      /\ \A a \in out' : AdmitSays(op, a)
      /\ arrivals' \in [Keys -> Nat] /\ admissions' \in Seq(Keys)
      /\ UNCHANGED scenario
  BY <1>1, <1>2, AdmissionStep
<1>4. /\ handle' \in [Keys -> HandleStates]
      /\ \A key \in Keys : handle'[key] = "remoteAcknowledged"
            => handle[key] = "remoteAcknowledged"
  BY <1>2, <1>3 DEF RuntimeInv, Shape, HandleStates
<1>5. Shape'
  BY <1>2, <1>3, <1>4 DEF Shape, RuntimeInv, sessionVars, retentionVars, airVars
<1>6. UNCHANGED <<delivered, told, acks>>
  BY <1>2 DEF airVars
<1>7. PICK act \in out' : Spawn([Task("apply", act, Key(op), {}) EXCEPT !.own = Key(op)])
  BY DEF LocalSend
<1> DEFINE task == [Task("apply", act, Key(op), {}) EXCEPT !.own = Key(op)]
<1>8. act \in RelayActions /\ Founded(act, Key(op), Workload, delivered)
  BY <1>3, AdmitFounded DEF AdmitSays
<1>9. tasks' = [tasks EXCEPT ![NewTask] = task] /\ NewTask \in TaskIds
  BY <1>2, <1>7, NewTaskIs DEF Spawn
<1>10. task \in TaskRecords
  BY <1>3, <1>8 DEF Task, TaskRecords, TaskPcs, ImmediatePcs
<1>11. TaskOK(task, Workload, delivered)
  BY <1>8, <1>10, ApplierOK DEF Task
<1> HIDE DEF task
<1> QED
  BY <1>3, <1>4, <1>5, <1>6, <1>9, <1>11, OneHandler

-----------------------------------------------------------------------------
(* Applying actions                                                        *)

(* A handler that goes on at another program counter stays well formed.    *)
LEMMA GotoOK ==
    ASSUME NEW work, NEW received, NEW task, TaskOK(task, work, received),
           NEW pc \in {"apply", "signalling", "forward", "next", "replay"},
           pc = "apply" => task.pc = "acking",
           pc = "replay" => task.pc = "replaying"
    PROVE  TaskOK([task EXCEPT !.pc = pc], work, received)
<1> DEFINE new == [task EXCEPT !.pc = pc]
<1>1. task \in TaskRecords
  BY DEF TaskOK
<1>2. new \in TaskRecords
  BY <1>1 DEF TaskRecords, TaskPcs, ImmediatePcs
<1>3. /\ new.pc = pc /\ new.act = task.act /\ new.local = task.local
      /\ new.rest = task.rest /\ new.peer = task.peer
  BY <1>1 DEF TaskRecords
<1> HIDE DEF new
<1> QED
  BY <1>2, <1>3 DEF TaskOK, HopPcs, new

(* It goes on without changing anything else.                              *)
LEMMA GotoStep ==
    ASSUME RuntimeInv, [RelayNext]_relayVars, Shape',
           UNCHANGED <<scenario, delivered, told, handle>>, acks' \subseteq acks,
           NEW pcs, NEW t \in Running(pcs),
           NEW pc \in {"apply", "signalling", "forward", "next", "replay"},
           pc = "apply" => pcs = {"acking"}, pc = "replay" => pcs = {"replaying"},
           Goto(t, pc)
    PROVE  StepOK
<1>1. t \in TaskIds /\ tasks[t].pc \in pcs /\ TaskOK(tasks[t], Workload, delivered)
  BY RunningIs DEF RuntimeInv
<1>2. TaskOK([tasks[t] EXCEPT !.pc = pc], Workload, delivered)
  BY <1>1, GotoOK
<1>3. tasks' = [tasks EXCEPT ![t] = [tasks[t] EXCEPT !.pc = pc]]
  BY DEF Goto
<1> QED
  BY <1>1, <1>2, <1>3, OneHandler

(* StepOK for the write of an ACK.                                         *)
LEMMA AckWrittenStep ==
    ASSUME RuntimeInv, NEW t \in TaskIds, AckWritten(t)
    PROVE  StepOK
<1>1. UNCHANGED <<relayVars, sessionVars, arrivalVars, retentionVars, airVars, resultVars>>
  BY DEF AckWritten
<1>2. Shape' /\ [RelayNext]_relayVars /\ UNCHANGED <<scenario, delivered, told, handle, acks>>
  BY <1>1 DEF RuntimeInv, Shape, sessionVars, arrivalVars, retentionVars, airVars, resultVars
<1> QED
  BY <1>2, GotoStep DEF AckWritten

(* StepOK for the write of an outcome.                                     *)
LEMMA SignalWrittenStep ==
    ASSUME RuntimeInv, NEW t \in TaskIds, SignalWritten(t)
    PROVE  StepOK
<1>1. UNCHANGED <<relayVars, sessionVars, arrivalVars, retentionVars, airVars, resultVars>>
  BY DEF SignalWritten
<1>2. Shape' /\ [RelayNext]_relayVars /\ UNCHANGED <<scenario, delivered, told, handle, acks>>
  BY <1>1 DEF RuntimeInv, Shape, sessionVars, arrivalVars, retentionVars, airVars, resultVars
<1> QED
  BY <1>2, GotoStep DEF SignalWritten

(* Applying actions reports only what happened, or happens with it.        *)
LEMMA ApplyStep ==
    ASSUME RuntimeInv, NEW t \in TaskIds, Apply(t)
    PROVE  StepOK
<1> DEFINE act == tasks[t].act
           local == tasks[t].local
           mine == <<act.signal.source, act.signal.id>>
<1>1. /\ t \in Running({"apply"})
      /\ UNCHANGED <<relayVars, sessionVars, arrivalVars, retentionVars, airVars>>
  BY DEF Apply
<1>2. /\ tasks[t].pc = "apply" /\ TaskOK(tasks[t], Workload, delivered)
  BY <1>1, RunningIs DEF RuntimeInv
<1>3. act \in RelayActions /\ Founded(act, local, Workload, delivered)
  BY <1>2 DEF TaskOK, TaskRecords
<1>4. /\ IF act.deliver # None THEN Deliver(Key(act.deliver)) ELSE UNCHANGED delivered
      /\ handle' = IF act.localState # None THEN Completed(local, act.localState) ELSE handle
      /\ \/ /\ act.signal # None
            /\ told' = [told EXCEPT ![mine] = @ \cup {act.signal.status}]
            /\ Goto(t, "signalling")
         \/ Goto(t, "forward") /\ UNCHANGED told
  BY DEF Apply
<1>5. /\ delivered' \in [Peers -> Seq(Keys)] /\ Grows(delivered, delivered')
      /\ act.deliver # None => Reached(Key(act.deliver), Workload, delivered')
  <2>1. CASE act.deliver # None
    <3>1. Key(act.deliver) \in Keys
      BY <1>3, <2>1, KeyTypes DEF RelayActions
    <3> QED
      BY <1>4, <2>1, <3>1, DeliverEffect DEF RuntimeInv
  <2>2. CASE act.deliver = None
    BY <1>4, <2>2, SameGrows DEF RuntimeInv, Shape
  <2> QED
    BY <2>1, <2>2
<1> HIDE DEF act, local
<1>6. ASSUME NEW key \in Keys, Claims(act, local, key)
      PROVE  Reached(key, Workload, delivered')
  <2>1. CASE Reached(key, Workload, delivered)
    <3>1. Workload \in SUBSET Operations
      BY WorkloadIs DEF RuntimeInv, Shape
    <3> QED
      BY <1>5, <2>1, <3>1, ReachedKept
  <2>2. CASE act.deliver # None /\ Key(act.deliver) = key
    BY <1>5, <2>2
  <2> QED
    BY <1>3, <1>6, <2>1, <2>2 DEF Founded
<1>7. /\ handle' \in [Keys -> HandleStates]
      /\ \A key \in Keys : handle'[key] = "remoteAcknowledged"
            => handle[key] = "remoteAcknowledged" \/ Claims(act, local, key)
  <2>1. handle \in [Keys -> HandleStates]
    BY DEF RuntimeInv, Shape
  <2>2. CASE act.localState # None
    <3>1. act.localState \in HandleStates
      BY <1>3, <2>2 DEF RelayActions, HandleStates
    <3> QED
      BY <1>4, <2>1, <2>2, <3>1, CompletedIs DEF Claims
  <2>3. CASE act.localState = None
    BY <1>4, <2>1, <2>3
  <2> QED
    BY <2>2, <2>3
<1>8. /\ told' \in [Keys -> SUBSET SignalStatuses]
      /\ \A key \in Keys : "deliveryAck" \in told'[key]
            => "deliveryAck" \in told[key] \/ Claims(act, local, key)
  <2>1. told \in [Keys -> SUBSET SignalStatuses]
    BY DEF RuntimeInv, Shape
  <2>2. CASE act.signal # None /\ told' = [told EXCEPT ![mine] = @ \cup {act.signal.status}]
    <3>1. mine \in Keys /\ act.signal.status \in SignalStatuses
      BY <1>3, <2>2 DEF RelayActions, Signals, Keys
    <3>2. told' \in [Keys -> SUBSET SignalStatuses]
      BY <2>1, <2>2, <3>1
    <3>3. \A key \in Keys : "deliveryAck" \in told'[key] /\ "deliveryAck" \notin told[key]
            => key = mine /\ act.signal.status = "deliveryAck"
      BY <2>1, <2>2
    <3>4. \A key \in Keys : key = mine => Tells(act, key)
      BY <2>2 DEF Tells
    <3> QED
      BY <3>2, <3>3, <3>4 DEF Claims
  <2> QED
    BY <1>4, <2>1, <2>2
<1>9. Shape'
  BY <1>1, <1>5, <1>7, <1>8
     DEF RuntimeInv, Shape, sessionVars, arrivalVars, retentionVars, airVars
<1>10. UNCHANGED <<scenario, acks>> /\ [RelayNext]_relayVars
  BY <1>1 DEF arrivalVars, airVars
<1>11. Honest'
  BY <1>5, <1>6, <1>7, <1>8, <1>10, HonestKept DEF RuntimeInv
<1>12. PICK pc \in {"signalling", "forward"} : Goto(t, pc)
  BY <1>4
<1>13. TaskOK([tasks[t] EXCEPT !.pc = pc], Workload, delivered')
  <2>1. TaskOK([tasks[t] EXCEPT !.pc = pc], Workload, delivered)
    BY <1>2, GotoOK
  <2>2. Workload \in SUBSET Operations
    BY WorkloadIs DEF RuntimeInv, Shape
  <2> QED
    BY <1>5, <2>1, <2>2, TaskKept
<1>14. tasks' = [tasks EXCEPT ![t] = [tasks[t] EXCEPT !.pc = pc]]
  BY <1>12 DEF Goto
<1>15. TasksOK'
  BY <1>5, <1>10, <1>13, <1>14, OneTask DEF RuntimeInv, Shape
<1> QED
  BY <1>9, <1>10, <1>11, <1>15 DEF StepOK

-----------------------------------------------------------------------------
(* Completions                                                             *)

(* What claims nothing is founded.                                         *)
LEMMA NoClaimFounded ==
    ASSUME NEW a, NEW local, \A key : ~Claims(a, local, key), NEW work, NEW received
    PROVE  Founded(a, local, work, received)
BY DEF Founded

(* The handler goes on with well-founded actions of a further call.        *)
LEMMA ApplyNextStep ==
    ASSUME RuntimeInv, [RelayNext]_relayVars, Shape',
           UNCHANGED <<scenario, delivered, told, handle, acks>>,
           NEW pcs, NEW t \in Running(pcs), NEW a \in RelayActions, out' = {a},
           NEW local \in Keys \cup {None}, Founded(a, local, Workload, delivered),
           ApplyNext(t, out', local)
    PROVE  StepOK
<1>1. t \in TaskIds /\ TaskOK(tasks[t], Workload, delivered)
  BY RunningIs DEF RuntimeInv
<1> DEFINE task == [tasks[t] EXCEPT !.pc = "apply", !.act = a, !.local = local]
<1>2. tasks' = [tasks EXCEPT ![t] = task]
  <2>1. (CHOOSE b \in out' : TRUE) = a
    OBVIOUS
  <2> QED
    BY <2>1 DEF ApplyNext
<1>3. tasks[t] \in TaskRecords /\ Rest(tasks[t].rest)
  BY <1>1 DEF TaskOK
<1>4. task \in TaskRecords
  BY <1>3 DEF TaskRecords, TaskPcs, ImmediatePcs
<1>5. task.pc = "apply" /\ task.act = a /\ task.local = local /\ task.rest = tasks[t].rest
  BY <1>3 DEF TaskRecords
<1> HIDE DEF task
<1>6. TaskOK(task, Workload, delivered)
  BY <1>3, <1>4, <1>5 DEF TaskOK, HopPcs
<1> QED
  BY <1>1, <1>2, <1>6, OneHandler

(* A new handler starts with them.                                         *)
LEMMA SpawnApplyStep ==
    ASSUME RuntimeInv, [RelayNext]_relayVars, Shape', CanStart,
           UNCHANGED <<scenario, delivered, told, handle>>, acks' \subseteq acks,
           NEW a \in RelayActions, out' = {a},
           NEW local \in Keys, Founded(a, local, Workload, delivered),
           \E act \in out' : Spawn(Task("apply", act, local, {}))
    PROVE  StepOK
<1> DEFINE task == Task("apply", a, local, {})
<1>1. tasks' = [tasks EXCEPT ![NewTask] = task] /\ NewTask \in TaskIds
  BY NewTaskIs DEF Spawn
<1>2. task \in TaskRecords /\ task.pc = "apply" /\ task.act = a /\ task.local = local
        /\ task.rest = {}
  BY TaskIs DEF TaskPcs, ImmediatePcs
<1> HIDE DEF task
<1>3. TaskOK(task, Workload, delivered)
  BY <1>2, ApplierOK
<1> QED
  BY <1>1, <1>3, OneHandler

(* A handler that ends.                                                    *)
LEMMA FinishStep ==
    ASSUME RuntimeInv, [RelayNext]_relayVars, Shape',
           UNCHANGED <<scenario, delivered, told>>, acks' \subseteq acks,
           \A key \in Keys : handle'[key] = "remoteAcknowledged"
                => handle[key] = "remoteAcknowledged",
           NEW t \in TaskIds, Finish(t)
    PROVE  StepOK
BY OneHandler DEF Finish

(* Failing a handle reports no delivery.                                   *)
LEMMA ThrowStep ==
    ASSUME RuntimeInv, NEW t \in TaskIds, Throw(t)
    PROVE  /\ handle' \in [Keys -> HandleStates]
           /\ \A key \in Keys : handle'[key] = "remoteAcknowledged"
                => handle[key] = "remoteAcknowledged"
           /\ Finish(t)
BY CompletedIs DEF Throw, RuntimeInv, Shape, HandleStates, LocalStates

(* StepOK for the end of a first submission.                               *)
LEMMA HopSubmittedStep ==
    ASSUME RuntimeInv, NEW t \in TaskIds, HopSubmitted(t)
    PROVE  StepOK
<1> DEFINE hop == tasks[t].hop
           op == tasks[t].act.forward
<1>1. t \in Running({"submitting"})
  BY DEF HopSubmitted
<1>2. /\ tasks[t].pc = "submitting" /\ TaskOK(tasks[t], Workload, delivered)
  BY <1>1, RunningIs DEF RuntimeInv
<1>3. hop \in AnyHops /\ op \in Operations /\ Key(op) \in Keys
  BY <1>2, KeyTypes DEF TaskOK, HopPcs
<1>4. /\ wire \in [Remotes -> Seq(AnyHops)] /\ retained \in [Hops -> Entries \cup {None}]
      /\ liveHops \subseteq AnyHops /\ handle \in [Keys -> HandleStates]
  BY DEF RuntimeInv, Shape
<1>5. /\ wire' = wire \/ wire' = [wire EXCEPT ![op.destination] = Append(@, hop)]
      /\ UNCHANGED <<sessionVars, arrivalVars, acks, delivered, told>>
      /\ \/ /\ retained' = DeadlineStarted(hop)
            /\ liveHops' = liveHops \cup {hop}
            /\ Goto(t, "next")
            /\ UNCHANGED <<relayVars, handle>>
         \/ /\ FinalHopSubmitted(Key(op))
            /\ ApplyNext(t, out', None)
            /\ UNCHANGED <<retentionVars, handle>>
         \/ /\ Throw(t)
            /\ UNCHANGED <<relayVars, retentionVars>>
  BY DEF HopSubmitted
<1> HIDE DEF hop, op
<1>6. wire' \in [Remotes -> Seq(AnyHops)]
  <2>1. PICK d : d = op.destination
    OBVIOUS
  <2>2. [wire EXCEPT ![d] = Append(@, hop)] \in [Remotes -> Seq(AnyHops)]
    BY <1>3, <1>4, WireAppend
  <2> QED
    BY <1>4, <1>5, <2>1, <2>2
<1>7. UNCHANGED <<scenario, members, arrivals, admissions, acks, delivered, told>>
  BY <1>5 DEF sessionVars, arrivalVars
<1>8. CASE /\ retained' = DeadlineStarted(hop)
           /\ liveHops' = liveHops \cup {hop}
           /\ Goto(t, "next")
           /\ UNCHANGED <<relayVars, handle>>
  <2>1. retained' \in [Hops -> Entries \cup {None}] /\ liveHops' \subseteq AnyHops
    BY <1>3, <1>4, <1>8, DeadlineStartedIs
  <2>2. Shape'
    BY <1>6, <1>7, <1>8, <2>1 DEF RuntimeInv, Shape
  <2> QED
    BY <1>1, <1>7, <1>8, <2>2, GotoStep
<1>9. CASE /\ FinalHopSubmitted(Key(op))
           /\ ApplyNext(t, out', None)
           /\ UNCHANGED <<retentionVars, handle>>
  <2>1. [RelayNext]_relayVars
    BY <1>3, <1>9 DEF RelayNext
  <2>2. PICK a : Settles(Key(op), a) /\ \A local, key : ~Claims(a, local, key)
    <3>1. "destinationUnavailable" \in HopFailures
      BY DEF HopFailures
    <3> QED
      BY <1>3, <1>9, <2>1, <3>1, FinalCall DEF RuntimeInv
  <2>3. Founded(a, None, Workload, delivered)
    BY <2>2, NoClaimFounded
  <2>4. Shape'
    BY <1>6, <1>7, <1>9 DEF RuntimeInv, Shape, retentionVars
  <2> QED
    BY <1>1, <1>7, <1>9, <2>1, <2>2, <2>3, <2>4, ApplyNextStep DEF Settles
<1>10. CASE Throw(t) /\ UNCHANGED <<relayVars, retentionVars>>
  <2>1. /\ handle' \in [Keys -> HandleStates] /\ Finish(t)
        /\ \A key \in Keys : handle'[key] = "remoteAcknowledged"
                => handle[key] = "remoteAcknowledged"
    BY <1>10, ThrowStep
  <2>2. Shape'
    BY <1>6, <1>7, <1>10, <2>1 DEF RuntimeInv, Shape, retentionVars
  <2> QED
    BY <1>7, <1>10, <2>1, <2>2, FinishStep
<1> QED
  BY <1>5, <1>8, <1>9, <1>10

(* StepOK for the end of a repeated submission.                            *)
LEMMA HopResubmittedStep ==
    ASSUME RuntimeInv, NEW t \in TaskIds, HopResubmitted(t)
    PROVE  StepOK
<1> DEFINE hop == tasks[t].hop
<1>1. /\ t \in Running({"resubmitting", "replaying"})
      /\ wire' = [wire EXCEPT ![tasks[t].peer] = Append(@, hop)]
      /\ retained' = DeadlineStarted(hop)
      /\ IF tasks[t].pc = "resubmitting" THEN Finish(t) ELSE Goto(t, "replay")
      /\ UNCHANGED <<relayVars, sessionVars, arrivalVars, liveHops, acks, resultVars>>
  BY DEF HopResubmitted
<1>2. /\ tasks[t].pc \in {"resubmitting", "replaying"}
      /\ TaskOK(tasks[t], Workload, delivered) /\ tasks[t] # None
  BY <1>1, RunningIs DEF RuntimeInv
<1>3. hop \in AnyHops
  BY <1>2 DEF TaskOK, HopPcs
<1> HIDE DEF hop
<1>4. wire' \in [Remotes -> Seq(AnyHops)]
  BY <1>1, <1>3, WireAppend DEF RuntimeInv, Shape
<1>5. retained' \in [Hops -> Entries \cup {None}]
  BY <1>1, DeadlineStartedIs DEF RuntimeInv, Shape
<1>6. Shape' /\ [RelayNext]_relayVars /\ UNCHANGED <<scenario, delivered, told, handle, acks>>
  BY <1>1, <1>4, <1>5 DEF RuntimeInv, Shape, sessionVars, arrivalVars, resultVars
<1>7. CASE tasks[t].pc = "resubmitting"
  BY <1>1, <1>6, <1>7, FinishStep
<1>8. CASE tasks[t].pc = "replaying"
  <2>1. t \in Running({"replaying"}) /\ Goto(t, "replay")
    BY <1>1, <1>2, <1>8 DEF Running
  <2> QED
    BY <1>6, <2>1, GotoStep
<1> QED
  BY <1>2, <1>7, <1>8

-----------------------------------------------------------------------------
(* Replay                                                                  *)

LEMMA InfoWrittenStep ==
    ASSUME RuntimeInv, NEW t \in TaskIds, InfoWritten(t)
    PROVE  StepOK
<1> DEFINE task == [tasks[t] EXCEPT !.pc = "replay",
                        !.hops = {hop \in liveHops : HopPeer(hop) = tasks[t].peer}]
<1>1. /\ t \in Running({"info"}) /\ tasks' = [tasks EXCEPT ![t] = task]
      /\ UNCHANGED <<relayVars, sessionVars, arrivalVars, retentionVars, airVars, resultVars>>
  BY DEF InfoWritten
<1>2. Shape' /\ [RelayNext]_relayVars /\ UNCHANGED <<scenario, delivered, told, handle, acks>>
  BY <1>1 DEF RuntimeInv, Shape, sessionVars, arrivalVars, retentionVars, airVars, resultVars
<1>3. tasks[t].pc = "info" /\ TaskOK(tasks[t], Workload, delivered)
  BY <1>1, RunningIs DEF RuntimeInv
<1>4. tasks[t] \in TaskRecords
  BY <1>3 DEF TaskOK
<1>5. task \in TaskRecords
  BY <1>4 DEF RuntimeInv, Shape, TaskRecords, TaskPcs, ImmediatePcs
<1>6. task.pc = "replay" /\ task.peer = tasks[t].peer /\ task.rest = tasks[t].rest
  BY <1>4 DEF TaskRecords
<1> HIDE DEF task
<1>7. TaskOK(task, Workload, delivered)
  BY <1>3, <1>5, <1>6 DEF TaskOK, HopPcs
<1> QED
  BY <1>1, <1>2, <1>7, OneHandler

(* StepOK for the replay of a retained hop.                                *)
LEMMA ReplayHopStep ==
    ASSUME RuntimeInv, NEW t \in TaskIds, NEW hop \in Hops, ReplayHop(t, hop)
    PROVE  StepOK
<1> DEFINE done == [tasks[t] EXCEPT !.hops = @ \ {hop}]
           sent == [done EXCEPT !.pc = "replaying", !.hop = hop]
<1>1. /\ t \in Running({"replay"}) /\ hop \in tasks[t].hops
      /\ UNCHANGED <<relayVars, sessionVars, arrivalVars, airVars, resultVars>>
  BY DEF ReplayHop
<1>2. /\ tasks[t].pc = "replay" /\ TaskOK(tasks[t], Workload, delivered)
  BY <1>1, RunningIs DEF RuntimeInv
<1>3. tasks[t] \in TaskRecords /\ hop \in AnyHops
  BY <1>1, <1>2 DEF TaskOK, TaskRecords
<1>4. PICK task \in {done, sent, None} : tasks' = [tasks EXCEPT ![t] = task]
  BY DEF ReplayHop, Finish
<1>5. done \in TaskRecords /\ done.pc = "replay" /\ done.peer = tasks[t].peer
        /\ done.rest = tasks[t].rest
  BY <1>2, <1>3 DEF TaskRecords
<1>6. sent \in TaskRecords /\ sent.pc = "replaying" /\ sent.peer = tasks[t].peer
        /\ sent.rest = tasks[t].rest /\ sent.hop = hop
  BY <1>3, <1>5 DEF TaskRecords, TaskPcs, HopPcs
<1>7. retained' \in [Hops -> Entries \cup {None}] /\ liveHops' \subseteq AnyHops
  <2>1. retained \in [Hops -> Entries \cup {None}] /\ liveHops \subseteq AnyHops
    BY DEF RuntimeInv, Shape
  <2>2. retained[hop] # None => [state |-> "pending", tries |-> retained[hop].tries + 1] \in Entries
    BY <2>1 DEF Entries
  <2>3. PICK e \in Entries \cup {None} : retained' = [retained EXCEPT ![hop] = e] \/ retained' = retained
    BY <2>2 DEF ReplayHop, retentionVars
  <2>4. liveHops' \subseteq liveHops
    BY DEF ReplayHop, retentionVars
  <2> QED
    BY <2>1, <2>3, <2>4
<1>8. Shape' /\ [RelayNext]_relayVars /\ UNCHANGED <<scenario, delivered, told, handle, acks>>
  BY <1>1, <1>7 DEF RuntimeInv, Shape, sessionVars, arrivalVars, airVars, resultVars
<1> HIDE DEF done, sent
<1>9. TaskOK(done, Workload, delivered)
  BY <1>2, <1>5 DEF TaskOK, HopPcs
<1>10. TaskOK(sent, Workload, delivered)
  BY <1>2, <1>3, <1>6 DEF TaskOK, HopPcs
<1> QED
  BY <1>4, <1>8, <1>9, <1>10, OneHandler

(* A new handler with nothing but a loop to run.                           *)
LEMMA LooperOK ==
    ASSUME NEW acts \in SUBSET RelayActions, Rest(acts), NEW work, NEW received
    PROVE  TaskOK(Task("next", NoActions, None, acts), work, received)
<1> DEFINE task == Task("next", NoActions, None, acts)
<1>1. task \in TaskRecords /\ task.pc = "next" /\ task.rest = acts
  BY NoActionsType, TaskIs DEF TaskPcs, ImmediatePcs
<1> HIDE DEF task
<1>2. TaskOK(task, work, received)
  BY <1>1 DEF TaskOK, HopPcs
<1> QED
  BY <1>2 DEF task

(* StepOK for the resumption of ordered heads.                             *)
LEMMA ReplayOrderedStep ==
    ASSUME RuntimeInv, NEW t \in TaskIds, ReplayOrdered(t)
    PROVE  StepOK
<1>1. /\ t \in Running({"replay"})
      /\ UNCHANGED <<sessionVars, arrivalVars, retentionVars, airVars, resultVars>>
  BY DEF ReplayOrdered
<1>2. Shape' /\ UNCHANGED <<scenario, delivered, told, handle, acks>>
  BY <1>1 DEF RuntimeInv, Shape, sessionVars, arrivalVars, retentionVars, airVars, resultVars
<1>3. tasks[t].pc = "replay" /\ TaskOK(tasks[t], Workload, delivered)
  BY <1>1, RunningIs DEF RuntimeInv
<1> DEFINE heads == {a \in out' : a.forward.mode = "ordered"}
           task == Task("next", NoActions, None, heads)
<1>4. ASSUME DestinationResumeSucceeded(tasks[t].peer), tasks' = [tasks EXCEPT ![t] = task]
      PROVE  StepOK
  <2>1. tasks[t].peer \in Peers
    BY <1>3 DEF TaskOK
  <2>2. [RelayNext]_relayVars
    BY <1>4, <2>1 DEF RelayNext
  <2>3. Rest(heads)
    BY <1>4, <2>1, ResumedCall DEF RuntimeInv
  <2>4. heads \in SUBSET RelayActions
    BY <2>2, RelayStep DEF RuntimeInv, RelayInv
  <2> HIDE DEF heads
  <2>5. TaskOK(task, Workload, delivered)
    BY <2>3, <2>4, LooperOK
  <2> HIDE DEF task
  <2> QED
    BY <1>2, <1>4, <2>2, <2>5, OneHandler
<1>5. ASSUME Finish(t), UNCHANGED relayVars
      PROVE  StepOK
  BY <1>2, <1>5, FinishStep
<1> QED
  BY <1>4, <1>5 DEF ReplayOrdered

(* StepOK for a link that resumes.                                         *)
LEMMA LinkResumedStep ==
    ASSUME RuntimeInv, NEW peer \in Remotes, LinkResumed(peer)
    PROVE  StepOK
<1> DEFINE task == [Task("info", NoActions, None, {}) EXCEPT !.peer = peer]
<1>1. /\ CanStart /\ tasks' = [tasks EXCEPT ![NewTask] = task]
      /\ UNCHANGED <<relayVars, members, arrivalVars, retentionVars, airVars, resultVars>>
  BY DEF LinkResumed, Spawn
<1>2. Shape' /\ [RelayNext]_relayVars /\ UNCHANGED <<scenario, delivered, told, handle, acks>>
  BY <1>1 DEF RuntimeInv, Shape, arrivalVars, retentionVars, airVars, resultVars
<1>3. NewTask \in TaskIds
  BY <1>1, NewTaskIs
<1>4. task \in TaskRecords
  BY NoActionsType DEF Task, TaskRecords, TaskPcs, Remotes
<1>5. task.pc = "info" /\ task.peer = peer /\ task.rest = {} /\ peer \in Peers
  BY DEF Task, Remotes
<1>6. Rest({})
  BY DEF Rest
<1> HIDE DEF task
<1>7. TaskOK(task, Workload, delivered)
  BY <1>4, <1>5, <1>6 DEF TaskOK, HopPcs
<1> QED
  BY <1>1, <1>2, <1>3, <1>7, OneHandler

-----------------------------------------------------------------------------
(* Forwarding                                                              *)

(* A part of a loop is a loop.                                             *)
LEMMA RestPart ==
    ASSUME NEW acts, Rest(acts), NEW part \in SUBSET acts
    PROVE  Rest(part)
BY DEF Rest

(* A hop that is submitted leaves every other hop alone.                   *)
LEMMA BeginHopStep ==
    ASSUME RuntimeInv, NEW pcs, NEW t \in Running(pcs), NEW op \in Operations,
           NEW rest \in SUBSET RelayActions, Rest(rest), BeginHop(t, op, rest),
           UNCHANGED <<relayVars, scenario, members, arrivals, admissions, liveHops, acks,
                       delivered, told, handle>>
    PROVE  /\ StepOK
           /\ \A h \in Hops : retained'[h] # retained[h] => op.mode = "acked" /\ h = HopOf(op)
<1> DEFINE act == [NoActions EXCEPT !.forward = op]
           task == [tasks[t] EXCEPT !.pc = "submitting", !.act = act, !.rest = rest,
                        !.hop = HopOf(op), !.peer = op.destination]
<1>1. /\ tasks' = [tasks EXCEPT ![t] = task]
      /\ \/ wire' = [wire EXCEPT ![op.destination] = Append(@, HopOf(op))]
         \/ wire' = wire
      /\ \/ /\ op.mode = "acked"
            /\ retained' = [retained EXCEPT ![HopOf(op)] = [state |-> "pending", tries |-> 0]]
         \/ retained' = retained
  BY DEF BeginHop
<1>2. t \in TaskIds /\ TaskOK(tasks[t], Workload, delivered)
  BY RunningIs DEF RuntimeInv
<1>3. /\ wire \in [Remotes -> Seq(AnyHops)] /\ retained \in [Hops -> Entries \cup {None}]
      /\ HopOf(op) \in AnyHops
  BY HopOfType DEF RuntimeInv, Shape
<1>4. PICK hop, d : hop = HopOf(op) /\ d = op.destination
  OBVIOUS
<1>5. wire' \in [Remotes -> Seq(AnyHops)]
  <2>1. [wire EXCEPT ![d] = Append(@, hop)] \in [Remotes -> Seq(AnyHops)]
    BY <1>3, <1>4, WireAppend
  <2> QED
    BY <1>1, <1>3, <1>4, <2>1
<1>6. /\ retained' \in [Hops -> Entries \cup {None}]
      /\ \A h \in Hops : retained'[h] # retained[h] => op.mode = "acked" /\ h = hop
  <2>1. [state |-> "pending", tries |-> 0] \in Entries
    BY DEF Entries
  <2> QED
    BY <1>1, <1>3, <1>4, <2>1
<1>7. Shape'
  BY <1>5, <1>6 DEF RuntimeInv, Shape
<1>8. tasks[t] \in TaskRecords
  BY <1>2 DEF TaskOK
<1>9. act \in RelayActions /\ act.forward = op /\ d \in Peers
  BY <1>4, KeyTypes, NoActionsType DEF RelayActions
<1>10. task \in TaskRecords
  BY <1>3, <1>4, <1>8, <1>9 DEF TaskRecords, TaskPcs, HopPcs
<1>11. task.pc = "submitting" /\ task.act = act /\ task.rest = rest /\ task.hop = hop
  BY <1>4, <1>8 DEF TaskRecords
<1> HIDE DEF task, act
<1>12. TaskOK(task, Workload, delivered)
  BY <1>3, <1>4, <1>9, <1>10, <1>11 DEF TaskOK
<1>13. StepOK
  BY <1>1, <1>2, <1>7, <1>12, OneHandler
<1> QED
  BY <1>4, <1>6, <1>13

(* StepOK for the next action of a loop.                                   *)
LEMMA NextInLoopStep ==
    ASSUME RuntimeInv, NEW t \in TaskIds, NextInLoop(t)
    PROVE  StepOK
<1>1. /\ t \in Running({"next"})
      /\ UNCHANGED <<relayVars, sessionVars, arrivalVars, liveHops, acks, resultVars>>
  BY DEF NextInLoop
<1>2. /\ UNCHANGED <<scenario, members, arrivals, admissions, liveHops, acks, delivered,
                     told, handle>>
      /\ [RelayNext]_relayVars
  BY <1>1 DEF sessionVars, arrivalVars, resultVars
<1>3. TaskOK(tasks[t], Workload, delivered) /\ tasks[t] \in TaskRecords
  BY <1>1, RunningIs DEF RuntimeInv, TaskOK
<1>4. Rest(tasks[t].rest) /\ tasks[t].rest \in SUBSET RelayActions
  BY <1>3 DEF TaskOK, TaskRecords
<1>5. UNCHANGED <<retained, wire>> => Shape'
  BY <1>2 DEF RuntimeInv, Shape
<1>6. ASSUME Finish(t), UNCHANGED <<retained, wire>>
      PROVE  StepOK
  BY <1>2, <1>5, <1>6, FinishStep
<1>7. ASSUME NEW act \in tasks[t].rest, UNCHANGED <<retained, wire>>,
             tasks' = [tasks EXCEPT ![t] = [tasks[t] EXCEPT !.pc = "apply",
                    !.act = act, !.local = None, !.rest = @ \ {act}]]
      PROVE  StepOK
  <2> DEFINE task == [tasks[t] EXCEPT !.pc = "apply", !.act = act, !.local = None,
                          !.rest = @ \ {act}]
  <2>1. tasks' = [tasks EXCEPT ![t] = task]
    BY <1>7
  <2>2. task \in TaskRecords
    BY <1>3, <1>4 DEF TaskRecords, TaskPcs, ImmediatePcs
  <2>3. task.pc = "apply" /\ task.act = act /\ task.rest = tasks[t].rest \ {act}
    BY <1>3 DEF TaskRecords
  <2>4. Rest(task.rest)
    BY <1>4, <2>3, RestPart
  <2> HIDE DEF task
  <2>5. Founded(act, task.local, Workload, delivered)
    BY <1>4, <1>7 DEF Rest, Founded, Claims, Tells
  <2>6. TaskOK(task, Workload, delivered)
    BY <2>2, <2>3, <2>4, <2>5 DEF TaskOK, HopPcs
  <2> QED
    BY <1>2, <1>5, <1>7, <2>1, <2>6, OneHandler
<1>8. ASSUME NEW act \in tasks[t].rest, act.forward # None,
             BeginHop(t, act.forward, tasks[t].rest \ {act})
      PROVE  StepOK
  <2>1. act.forward \in Operations
    BY <1>4, <1>8 DEF RelayActions
  <2>2. Rest(tasks[t].rest \ {act}) /\ tasks[t].rest \ {act} \in SUBSET RelayActions
    BY <1>4, RestPart
  <2> QED
    BY <1>1, <1>2, <1>8, <2>1, <2>2, BeginHopStep
<1> QED
  BY <1>6, <1>7, <1>8 DEF NextInLoop

-----------------------------------------------------------------------------
(* The loss of a transport                                                 *)

(* Handlers end, or a replay goes on; nobody is told anything, and no      *)
(* retry is given back.                                                    *)
LEMMA DropStep ==
    ASSUME RuntimeInv, NEW peer, NEW state, NEW finished, NEW thrown,
           finished \subseteq Running({"replaying"}),
           DropTransport(peer, state, finished, thrown),
           UNCHANGED <<relayVars, scenario, members, arrivals, admissions, liveHops,
                       delivered, told>>
    PROVE  /\ StepOK
           /\ \A t \in TaskIds : tasks'[t] \in {tasks[t], None} \/ t \in finished
           /\ \A t \in finished : tasks'[t] = [tasks[t] EXCEPT !.pc = "replay"]
           /\ \A h \in Hops : retained[h] # None => retained'[h].tries = retained[h].tries
<1>1. \E ended :
      /\ tasks' = [t \in TaskIds |->
            IF t \in finished THEN [tasks[t] EXCEPT !.pc = "replay"]
            ELSE IF t \in ended THEN None ELSE tasks[t]]
      /\ handle' = [key \in Keys |->
            IF \E t \in ended : tasks[t].own = key
            THEN Completed(key, "failed")[key] ELSE handle[key]]
  BY DEF DropTransport
<1>2. PICK ended :
      /\ tasks' = [t \in TaskIds |->
            IF t \in finished THEN [tasks[t] EXCEPT !.pc = "replay"]
            ELSE IF t \in ended THEN None ELSE tasks[t]]
      /\ handle' = [key \in Keys |->
            IF \E t \in ended : tasks[t].own = key
            THEN Completed(key, "failed")[key] ELSE handle[key]]
  BY <1>1
<1>3. /\ retained' = [hop \in Hops |->
            IF retained[hop] = None \/ HopPeer(hop) # peer THEN retained[hop]
            ELSE [retained[hop] EXCEPT !.state =
                    IF \E t \in finished : tasks[t].hop = hop
                    THEN "awaiting" ELSE "pending"]]
      /\ wire' = [wire EXCEPT ![peer] = <<>>]
      /\ acks' \subseteq acks
  BY DEF DropTransport
<1>4. /\ wire \in [Remotes -> Seq(AnyHops)] /\ retained \in [Hops -> Entries \cup {None}]
      /\ handle \in [Keys -> HandleStates]
  BY DEF RuntimeInv, Shape
<1>5. /\ retained' \in [Hops -> Entries \cup {None}]
      /\ \A h \in Hops : retained[h] # None => retained'[h].tries = retained[h].tries
  <2>1. ASSUME NEW h \in Hops, retained[h] # None, NEW s \in {"awaiting", "pending"}
        PROVE  /\ [retained[h] EXCEPT !.state = s] \in Entries
               /\ [retained[h] EXCEPT !.state = s].tries = retained[h].tries
    BY <1>4, <2>1 DEF Entries
  <2> QED
    BY <1>3, <1>4, <2>1
<1>6. wire' \in [Remotes -> Seq(AnyHops)]
  <2>1. <<>> \in Seq(AnyHops)
    OBVIOUS
  <2> QED
    BY <1>3, <1>4, <2>1
<1>7. /\ handle' \in [Keys -> HandleStates]
      /\ \A key \in Keys : handle'[key] = "remoteAcknowledged"
            => handle[key] = "remoteAcknowledged"
  <2>1. "failed" \in HandleStates
    BY DEF HandleStates, LocalStates
  <2>2. \A key \in Keys : /\ Completed(key, "failed") \in [Keys -> HandleStates]
                          /\ Completed(key, "failed")[key] \in {handle[key], "failed"}
    BY <1>4, <2>1, CompletedIs
  <2> QED
    BY <1>2, <1>4, <2>2
<1>8. Shape'
  BY <1>3, <1>5, <1>6, <1>7 DEF RuntimeInv, Shape
<1>9. Grows(delivered, delivered') /\ delivered' = delivered /\ Workload' = Workload
  BY SameGrows DEF Workload
<1>10. Honest'
  BY <1>3, <1>7, <1>9, HonestKept DEF RuntimeInv
<1>11. \A t \in finished : /\ t \in TaskIds /\ tasks'[t] = [tasks[t] EXCEPT !.pc = "replay"]
                           /\ tasks[t].pc = "replaying" /\ TaskOK(tasks[t], Workload, delivered)
  BY <1>2, RunningIs DEF RuntimeInv
<1>12. \A t \in TaskIds : tasks'[t] \in {tasks[t], None} \/ t \in finished
  BY <1>2
<1>13. ASSUME NEW t \in TaskIds, tasks'[t] # None
       PROVE  TaskOK(tasks'[t], Workload, delivered)
  <2>1. CASE t \in finished
    <3>1. TaskOK([tasks[t] EXCEPT !.pc = "replay"], Workload, delivered)
      BY <1>11, <2>1, GotoOK
    <3> QED
      BY <1>11, <2>1, <3>1
  <2>2. CASE t \notin finished
    BY <1>12, <1>13, <2>2 DEF RuntimeInv, TasksOK
  <2> QED
    BY <2>1, <2>2
<1>14. TasksOK'
  BY <1>2, <1>9, <1>13 DEF TasksOK
<1> QED
  BY <1>5, <1>8, <1>10, <1>11, <1>12, <1>14 DEF StepOK

(* _submitForward, whatever became of the destination or the hop.          *)
LEMMA ForwardStep ==
    ASSUME RuntimeInv, NEW t \in TaskIds, Forward(t)
    PROVE  StepOK
<1> DEFINE op == tasks[t].act.forward
           rest == tasks[t].rest
<1>1. /\ t \in Running({"forward"})
      /\ UNCHANGED <<members, authority, losses, arrivalVars, liveHops, delivered, told>>
      /\ \/ /\ Goto(t, "next")
            /\ UNCHANGED <<relayVars, link, retained, airVars, handle>>
         \/ /\ op # None /\ BeginHop(t, op, rest)
            /\ UNCHANGED <<relayVars, link, acks, handle>>
         \/ Collide(t) /\ UNCHANGED relayVars
         \/ /\ op # None
            /\ FinalHopFailed(Key(op), "destinationUnavailable")
            /\ ApplyNext(t, out', Key(op))
            /\ UNCHANGED <<link, retained, airVars, handle>>
         \/ Throw(t) /\ UNCHANGED <<relayVars, link, retained, airVars>>
  BY DEF Forward
<1>2. /\ UNCHANGED <<scenario, members, arrivals, admissions, liveHops, delivered, told>>
      /\ UNCHANGED <<relayVars>> => [RelayNext]_relayVars
  BY <1>1 DEF arrivalVars
<1>3. TaskOK(tasks[t], Workload, delivered) /\ tasks[t] \in TaskRecords
  BY <1>1, RunningIs DEF RuntimeInv, TaskOK
<1>4. /\ op # None => op \in Operations /\ Key(op) \in Keys
      /\ Rest(rest) /\ rest \in SUBSET RelayActions
  BY <1>3, KeyTypes DEF TaskOK, TaskRecords, RelayActions
<1> HIDE DEF op, rest
<1>5. ASSUME UNCHANGED <<retained, airVars>>, handle' \in [Keys -> HandleStates]
      PROVE  Shape'
  BY <1>2, <1>5 DEF RuntimeInv, Shape, airVars
<1>6. CASE Goto(t, "next") /\ UNCHANGED <<relayVars, link, retained, airVars, handle>>
  <2>1. handle' \in [Keys -> HandleStates]
    BY <1>6 DEF RuntimeInv, Shape
  <2> QED
    BY <1>1, <1>2, <1>5, <1>6, <2>1, GotoStep DEF airVars
<1>7. CASE op # None /\ BeginHop(t, op, rest) /\ UNCHANGED <<relayVars, link, acks, handle>>
  BY <1>1, <1>2, <1>4, <1>7, BeginHopStep
<1>8. ASSUME Throw(t), UNCHANGED <<relayVars, retained, airVars>>
      PROVE  StepOK
  BY <1>2, <1>5, <1>8, ThrowStep, FinishStep DEF airVars
<1>9. CASE Collide(t) /\ UNCHANGED relayVars
  <2>1. CASE DropTransport(tasks[t].from, "closing", {}, {t})
    <3>1. {} \subseteq Running({"replaying"})
      OBVIOUS
    <3> QED
      BY <1>2, <1>9, <2>1, <3>1, DropStep
  <2>2. CASE Throw(t) /\ UNCHANGED <<link, retained, wire, acks>>
    BY <1>8, <1>9, <2>2 DEF airVars
  <2> QED
    BY <1>9, <2>1, <2>2 DEF Collide
<1>10. CASE /\ op # None
            /\ FinalHopFailed(Key(op), "destinationUnavailable")
            /\ ApplyNext(t, out', Key(op))
            /\ UNCHANGED <<link, retained, airVars, handle>>
  <2>1. "destinationUnavailable" \in HopFailures
    BY DEF HopFailures
  <2>2. [RelayNext]_relayVars
    BY <1>4, <1>10, <2>1 DEF RelayNext
  <2>3. PICK a : Settles(Key(op), a) /\ \A local, key : ~Claims(a, local, key)
    BY <1>4, <1>10, <2>1, <2>2, FinalCall DEF RuntimeInv
  <2>4. Founded(a, Key(op), Workload, delivered)
    BY <2>3, NoClaimFounded
  <2>5. Shape' /\ UNCHANGED acks
    BY <1>5, <1>10 DEF RuntimeInv, Shape, airVars
  <2> QED
    BY <1>1, <1>2, <1>4, <1>10, <2>2, <2>3, <2>4, <2>5, ApplyNextStep DEF Settles
<1> QED
  BY <1>1, <1>6, <1>7, <1>8, <1>9, <1>10

(* StepOK for a link that is lost.                                         *)
LEMMA LinkLostStep ==
    ASSUME RuntimeInv, NEW peer \in Remotes, NEW finished, LinkLost(peer, finished)
    PROVE  StepOK
<1>1. /\ finished \subseteq Running({"replaying"})
      /\ DropTransport(peer, "reconnecting", finished, {})
      /\ UNCHANGED <<relayVars, scenario, members, arrivals, admissions, liveHops,
                     delivered, told>>
  BY DEF LinkLost, arrivalVars
<1> QED
  BY <1>1, DropStep

-----------------------------------------------------------------------------
(* Destinations that end, and the other events                             *)

(* A new handler goes over the failures of a destination.                  *)
LEMMA TerminatedStep ==
    ASSUME RuntimeInv, NEW peer \in Peers, NEW status \in FailureStatuses,
           DestinationTerminated(peer, status), [RelayNext]_relayVars, Shape',
           UNCHANGED <<scenario, delivered, told, handle, acks>>,
           CanStart, Spawn(Task("next", NoActions, None, out'))
    PROVE  StepOK
<1> DEFINE task == Task("next", NoActions, None, out')
<1>1. out' \in SUBSET RelayActions
  BY RelayStep DEF RuntimeInv, RelayInv
<1>2. Rest(out')
  BY TerminatedCall DEF RuntimeInv
<1>3. TaskOK(task, Workload, delivered)
  BY <1>1, <1>2, LooperOK
<1>4. tasks' = [tasks EXCEPT ![NewTask] = task] /\ NewTask \in TaskIds
  BY NewTaskIs DEF Spawn
<1> HIDE DEF task
<1> QED
  BY <1>3, <1>4, OneHandler

(* StepOK for a link that is closed for good.                              *)
LEMMA LinkClosedStep ==
    ASSUME RuntimeInv, NEW peer \in Remotes, LinkClosed(peer)
    PROVE  StepOK
<1>1. /\ CanStart
      /\ \/ /\ DestinationResumeFailed(peer)
            /\ Spawn(Task("next", NoActions, None, out'))
         \/ UNCHANGED <<relayVars, tasks>>
      /\ UNCHANGED <<members, authority, losses, arrivalVars, retentionVars, airVars,
                     resultVars>>
  BY DEF LinkClosed
<1>2. Shape' /\ UNCHANGED <<scenario, delivered, told, handle, acks>>
  BY <1>1 DEF RuntimeInv, Shape, arrivalVars, retentionVars, airVars, resultVars
<1>3. peer \in Peers /\ "destinationUnavailable" \in FailureStatuses
  BY DEF Remotes, FailureStatuses
<1>4. CASE DestinationResumeFailed(peer) /\ Spawn(Task("next", NoActions, None, out'))
  <2>1. [RelayNext]_relayVars
    BY <1>3, <1>4 DEF RelayNext
  <2> QED
    BY <1>1, <1>2, <1>3, <1>4, <2>1, TerminatedStep DEF DestinationResumeFailed
<1>5. CASE UNCHANGED <<relayVars, tasks>>
  BY <1>2, <1>5, NoHandler
<1> QED
  BY <1>1, <1>4, <1>5

(* StepOK for the removal of a member.                                     *)
LEMMA MemberLeftStep ==
    ASSUME RuntimeInv, NEW peer \in Remotes, MemberLeft(peer)
    PROVE  StepOK
<1>1. /\ CanStart /\ members' = members \ {peer}
      /\ DestinationRemoved(peer) /\ Spawn(Task("next", NoActions, None, out'))
      /\ UNCHANGED <<arrivalVars, retentionVars, airVars, resultVars>>
  BY DEF MemberLeft
<1>2. peer \in Peers /\ peer # Coordinator /\ "destinationNotInGroup" \in FailureStatuses
  BY DEF Remotes, FailureStatuses
<1>3. members' \in Memberships
  BY <1>1, <1>2 DEF RuntimeInv, Shape, Memberships
<1>4. Shape' /\ UNCHANGED <<scenario, delivered, told, handle, acks>>
  BY <1>1, <1>3 DEF RuntimeInv, Shape, arrivalVars, retentionVars, airVars, resultVars
<1>5. [RelayNext]_relayVars
  BY <1>1, <1>2 DEF RelayNext
<1> QED
  BY <1>1, <1>2, <1>4, <1>5, TerminatedStep DEF DestinationRemoved

(* StepOK for the loss of coordinator authority.                           *)
LEMMA AuthorityLostStep ==
    ASSUME RuntimeInv, AuthorityLost
    PROVE  StepOK
<1>1. /\ CoordinatorAuthorityLost
      /\ UNCHANGED <<members, arrivalVars, tasks, retentionVars, airVars, resultVars>>
  BY DEF AuthorityLost
<1>2. Shape' /\ UNCHANGED <<scenario, delivered, told, handle, tasks, acks>>
  BY <1>1 DEF RuntimeInv, Shape, arrivalVars, retentionVars, airVars, resultVars
<1>3. [RelayNext]_relayVars
  BY <1>1 DEF RelayNext
<1> QED
  BY <1>2, <1>3, NoHandler

(* StepOK for the cancellation of a local handle.                          *)
LEMMA CancelLocalStep ==
    ASSUME RuntimeInv, NEW key \in Keys, CancelLocal(key)
    PROVE  StepOK
<1>1. /\ handle' = [handle EXCEPT ![key] = "cancelled"]
      /\ liveHops' \subseteq liveHops
      /\ retained' = [hop \in Hops |->
            IF hop \in liveHops /\ hop[1] = key THEN None ELSE retained[hop]]
      /\ UNCHANGED <<relayVars, sessionVars, arrivalVars, tasks, airVars, delivered, told>>
  BY DEF CancelLocal
<1>2. /\ handle' \in [Keys -> HandleStates]
      /\ \A k \in Keys : handle'[k] = "remoteAcknowledged" => handle[k] = "remoteAcknowledged"
  BY <1>1 DEF RuntimeInv, Shape, HandleStates
<1>3. retained' \in [Hops -> Entries \cup {None}]
  BY <1>1 DEF RuntimeInv, Shape
<1>4. /\ Shape' /\ UNCHANGED <<scenario, delivered, told, tasks, acks>>
      /\ [RelayNext]_relayVars
  BY <1>1, <1>2, <1>3 DEF RuntimeInv, Shape, sessionVars, arrivalVars, airVars
<1> QED
  BY <1>2, <1>4, NoHandler

(* A destination receives before its ACK is on the air.                    *)
LEMMA DestinationReceivesStep ==
    ASSUME RuntimeInv, NEW peer \in Remotes, DestinationReceives(peer)
    PROVE  StepOK
<1> DEFINE hop == Head(wire[peer])
<1>1. /\ wire[peer] # <<>> /\ wire' = [wire EXCEPT ![peer] = Tail(@)]
      /\ Deliver(hop[1])
      /\ acks' \subseteq acks \cup {hop}
      /\ UNCHANGED <<relayVars, sessionVars, arrivalVars, tasks, retentionVars, handle, told>>
  BY DEF DestinationReceives
<1>2. /\ wire[peer] \in Seq(AnyHops) /\ acks \subseteq AnyHops
      /\ wire \in [Remotes -> Seq(AnyHops)]
  BY DEF RuntimeInv, Shape
<1>3. hop \in AnyHops /\ Tail(wire[peer]) \in Seq(AnyHops)
  BY <1>1, <1>2, HeadTailProperties
<1> HIDE DEF hop
<1>4. hop[1] \in Keys
  BY <1>3 DEF AnyHops
<1>5. /\ delivered' \in [Peers -> Seq(Keys)] /\ Grows(delivered, delivered')
      /\ Reached(hop[1], Workload, delivered')
  BY <1>1, <1>4, DeliverEffect DEF RuntimeInv
<1>6. wire' \in [Remotes -> Seq(AnyHops)]
  BY <1>1, <1>2, <1>3
<1>7. acks' \subseteq AnyHops
  BY <1>1, <1>2, <1>3
<1>8. UNCHANGED <<scenario, handle, told, tasks>> /\ [RelayNext]_relayVars
  BY <1>1 DEF arrivalVars
<1>9. Shape'
  BY <1>1, <1>5, <1>6, <1>7
     DEF RuntimeInv, Shape, sessionVars, arrivalVars, retentionVars
<1>10. Honest'
  BY <1>1, <1>5, <1>8, HonestKept DEF RuntimeInv
<1>11. TasksOK'
  <2>1. Workload' = Workload /\ Workload \in SUBSET Operations
    BY <1>8, WorkloadIs DEF RuntimeInv, Shape, Workload
  <2>2. \A t \in TaskIds : tasks[t] # None => TaskOK(tasks[t], Workload, delivered')
    BY <1>5, <2>1, TaskKept DEF RuntimeInv, TasksOK
  <2> QED
    BY <1>8, <2>1, <2>2 DEF RuntimeInv, TasksOK
<1> QED
  BY <1>8, <1>9, <1>10, <1>11 DEF StepOK

(* Only the ACK of a delivered hop completes its relay.                    *)
LEMMA GenericAckArrivesStep ==
    ASSUME RuntimeInv, NEW hop \in Hops, GenericAckArrives(hop)
    PROVE  StepOK
<1>1. /\ CanStart /\ hop \in acks /\ acks' \subseteq acks
      /\ retained' = [retained EXCEPT ![hop] = None]
      /\ liveHops' \subseteq liveHops
      /\ \/ /\ FinalHopAcknowledged(hop[1])
            /\ \E act \in out' : Spawn(Task("apply", act, hop[1], {}))
         \/ UNCHANGED <<relayVars, tasks>>
      /\ UNCHANGED <<sessionVars, arrivalVars, wire, resultVars>>
  BY DEF GenericAckArrives
<1>2. retained' \in [Hops -> Entries \cup {None}]
  BY <1>1 DEF RuntimeInv, Shape
<1>3. /\ Shape' /\ UNCHANGED <<scenario, delivered, told, handle>>
      /\ hop[1] \in Keys /\ Reached(hop[1], Workload, delivered)
  BY <1>1, <1>2
     DEF RuntimeInv, Shape, Honest, AnyHops, Hops, sessionVars, arrivalVars, resultVars
<1>4. CASE /\ FinalHopAcknowledged(hop[1])
           /\ \E act \in out' : Spawn(Task("apply", act, hop[1], {}))
  <2>1. PICK k \in Keys : k = hop[1]
    BY <1>3
  <2>2. [RelayNext]_relayVars
    BY <1>4, <2>1 DEF RelayNext
  <2>3. "destinationUnavailable" \in HopFailures
    BY DEF HopFailures
  <2>4. PICK a : Settles(k, a) /\ \A key : Claims(a, k, key) => key = k
    BY <1>4, <2>1, <2>2, <2>3, FinalCall DEF RuntimeInv
  <2>5. Founded(a, k, Workload, delivered)
    BY <1>3, <2>1, <2>4 DEF Founded
  <2> QED
    BY <1>1, <1>3, <1>4, <2>1, <2>2, <2>4, <2>5, SpawnApplyStep DEF Settles
<1>5. CASE UNCHANGED <<relayVars, tasks>>
  BY <1>1, <1>3, <1>5, NoHandler
<1> QED
  BY <1>1, <1>4, <1>5

(* A timeout claims no delivery.                                           *)
LEMMA AckTimeoutStep ==
    ASSUME RuntimeInv, NEW hop \in Hops, AckTimeout(hop)
    PROVE  StepOK
<1> DEFINE task == [Task("resubmitting", NoActions, None, {}) EXCEPT
                        !.hop = hop, !.peer = HopPeer(hop)]
<1>1. /\ CanStart /\ hop \in liveHops /\ retained[hop] # None
      /\ \/ retained' = [retained EXCEPT ![hop] = None]
         \/ retained' = [retained EXCEPT ![hop] =
                [state |-> "pending", tries |-> retained[hop].tries + 1]]
      /\ liveHops' \subseteq liveHops
      /\ \/ /\ Spawn(task)
            /\ UNCHANGED relayVars
         \/ /\ FinalHopFailed(hop[1], "destinationAckTimeout")
            /\ \E act \in out' : Spawn(Task("apply", act, hop[1], {}))
         \/ UNCHANGED <<relayVars, tasks>>
      /\ UNCHANGED <<sessionVars, arrivalVars, airVars, resultVars>>
  BY DEF AckTimeout
<1>2. retained' \in [Hops -> Entries \cup {None}]
  <2>1. retained \in [Hops -> Entries \cup {None}]
    BY DEF RuntimeInv, Shape
  <2>2. [state |-> "pending", tries |-> retained[hop].tries + 1] \in Entries
    BY <1>1, <2>1 DEF Entries
  <2> QED
    BY <1>1, <2>1, <2>2
<1>3. /\ Shape' /\ UNCHANGED <<scenario, delivered, told, handle, acks>>
      /\ hop[1] \in Keys /\ hop \in AnyHops
  BY <1>1, <1>2
     DEF RuntimeInv, Shape, AnyHops, Hops, sessionVars, arrivalVars, airVars, resultVars
<1>4. CASE Spawn(task) /\ UNCHANGED relayVars
  <2>1. tasks' = [tasks EXCEPT ![NewTask] = task] /\ NewTask \in TaskIds
    BY <1>1, <1>4, NewTaskIs DEF Spawn
  <2>2. HopPeer(hop) \in Destinations
    <3> DEFINE At(s, key) == (CHOOSE op \in s.workload : Key(op) = key).destination
    <3>1. HopPeer(hop) = At(scenario, hop[1])
      BY DEF HopPeer, OpOf, Workload
    <3>2. Destinations = {At(s, key) : s \in Scenarios, key \in Keys}
      BY DEF Destinations
    <3> HIDE DEF At
    <3> QED
      BY <1>3, <3>1, <3>2 DEF RuntimeInv, Shape
  <2>3. task \in TaskRecords
    BY <1>3, <2>2, NoActionsType DEF Task, TaskRecords, TaskPcs, HopPcs
  <2>4. task.pc = "resubmitting" /\ task.rest = {} /\ task.hop = hop
    BY DEF Task
  <2>5. Rest({})
    BY DEF Rest
  <2> HIDE DEF task
  <2>6. TaskOK(task, Workload, delivered)
    BY <1>3, <2>3, <2>4, <2>5 DEF TaskOK
  <2> QED
    BY <1>3, <1>4, <2>1, <2>6, OneHandler
<1>5. CASE /\ FinalHopFailed(hop[1], "destinationAckTimeout")
           /\ \E act \in out' : Spawn(Task("apply", act, hop[1], {}))
  <2>1. PICK k \in Keys : k = hop[1]
    BY <1>3
  <2>2. "destinationAckTimeout" \in HopFailures
    BY DEF HopFailures
  <2>3. [RelayNext]_relayVars
    BY <1>5, <2>1, <2>2 DEF RelayNext
  <2>4. PICK a : Settles(k, a) /\ \A local, key : ~Claims(a, local, key)
    BY <1>5, <2>1, <2>2, <2>3, FinalCall DEF RuntimeInv
  <2>5. Founded(a, k, Workload, delivered)
    BY <2>4, NoClaimFounded
  <2> QED
    BY <1>1, <1>3, <1>5, <2>1, <2>3, <2>4, <2>5, SpawnApplyStep DEF Settles
<1>6. CASE UNCHANGED <<relayVars, tasks>>
  BY <1>1, <1>3, <1>6, NoHandler
<1> QED
  BY <1>1, <1>4, <1>5, <1>6

-----------------------------------------------------------------------------
(* The inductive invariant, and what follows from it                       *)

(* Every step of the runtime leaves what the next one needs.               *)
LEMMA RuntimeStep ==
    ASSUME RuntimeInv, [Next]_vars
    PROVE  StepOK
<1>1. CASE UNCHANGED vars
  <2>1. /\ UNCHANGED <<relayVars, scenario, members, arrivals, admissions, retained,
                       liveHops, wire>>
        /\ UNCHANGED <<delivered, handle, told, tasks, acks>>
    BY <1>1 DEF vars, runtimeVars, sessionVars, arrivalVars, retentionVars, airVars,
                resultVars
  <2>2. Shape'
    BY <2>1 DEF RuntimeInv, Shape
  <2> QED
    BY <2>1, <2>2, NoHandler
<1>2. ASSUME NEW t \in TaskIds, TaskStep(t)
      PROVE  StepOK
  BY <1>2, AckWrittenStep, ApplyStep, SignalWrittenStep, ForwardStep, NextInLoopStep,
     HopSubmittedStep, HopResubmittedStep, InfoWrittenStep, ReplayOrderedStep,
     ReplayHopStep DEF TaskStep
<1>3. ASSUME NEW peer \in Remotes,
             \/ DestinationReceives(peer)
             \/ \E finished \in SUBSET TaskIds : LinkLost(peer, finished)
             \/ LinkResumed(peer) \/ LinkClosed(peer) \/ MemberLeft(peer)
      PROVE  StepOK
  BY <1>3, DestinationReceivesStep, LinkLostStep, LinkResumedStep, LinkClosedStep,
     MemberLeftStep
<1> QED
  BY <1>1, <1>2, <1>3, SourceHopStep, LocalSendStep, GenericAckArrivesStep,
     AckTimeoutStep, AuthorityLostStep, CancelLocalStep DEF Next

(* The runtime keeps the inductive invariant, whatever the environment of  *)
(* its scenario does.                                                      *)
THEOREM RuntimeInvariant == Spec => []RuntimeInv
<1>1. Init => RuntimeInv
  <2> SUFFICES ASSUME Init PROVE RuntimeInv
    OBVIOUS
  <2>1. RelayInv
    BY EmptyTable DEF Init, RelayInit, RelayInv, TableEmpty
  <2>2. Shape
    <3>1. /\ scenario \in Scenarios /\ members \in Memberships
          /\ arrivals \in [Keys -> Nat] /\ admissions \in Seq(Keys)
      BY CoordinatorAssumption DEF Init, Memberships
    <3>2. /\ retained \in [Hops -> Entries \cup {None}]
          /\ liveHops \subseteq AnyHops /\ acks \subseteq AnyHops
          /\ handle \in [Keys -> HandleStates] /\ told \in [Keys -> SUBSET SignalStatuses]
      BY DEF Init, HandleStates
    <3>3. wire \in [Remotes -> Seq(AnyHops)]
      BY DEF Init
    <3>4. delivered \in [Peers -> Seq(Keys)]
      BY DEF Init
    <3> QED
      BY <3>1, <3>2, <3>3, <3>4 DEF Shape
  <2>3. TasksOK
    BY DEF Init, TasksOK
  <2>4. Honest
    BY DEF Init, Honest
  <2> QED
    BY <2>1, <2>2, <2>3, <2>4 DEF RuntimeInv
<1>2. RuntimeInv /\ [Next]_vars => RuntimeInv'
  BY RuntimeStep, StepKeeps
<1> QED
  BY <1>1, <1>2, PTL DEF Spec

(* _RuntimeGroupRouteTransport uses the relay table as CoordinatorRelay    *)
(* says a caller does, so all that is proved of the table is true of it in *)
(* the running program.                                                    *)
THEOREM RuntimeImplementsRelay == Spec => RelaySpec
<1>1. Init => RelayInit
  BY DEF Init
<1>2. RuntimeInv /\ [Next]_vars => [RelayNext]_relayVars
  BY RuntimeStep DEF StepOK
<1> QED
  BY <1>1, <1>2, RuntimeInvariant, PTL DEF Spec, RelaySpec

(* GROUP_DELIVERY_ACK and REMOTE_ACKNOWLEDGED are never reported of an     *)
(* operation that its destination has not received.                        *)
THEOREM RuntimeAckOnlyAfterDelivery == Spec => []AckOnlyAfterDelivery
<1>1. RuntimeInv => AckOnlyAfterDelivery
  BY WorkloadIs DEF RuntimeInv, Shape, Honest, Reached, AckOnlyAfterDelivery
<1> QED
  BY <1>1, RuntimeInvariant, PTL

-----------------------------------------------------------------------------
(* Retries                                                                 *)

TriesKept ==
    \A hop \in Hops : retained[hop] # None /\ retained'[hop] # None
        => retained'[hop].tries >= retained[hop].tries

(* What is retained has a number of tries.                                 *)
LEMMA TriesAre ==
    ASSUME RuntimeInv, NEW hop \in Hops, retained[hop] # None
    PROVE  retained[hop].tries \in Nat
BY DEF RuntimeInv, Shape, Entries

(* A step that leaves the tries of every entry alone keeps them.           *)
LEMMA SameTries ==
    ASSUME RuntimeInv,
           \A hop \in Hops : retained[hop] # None /\ retained'[hop] # None
                => retained'[hop].tries = retained[hop].tries
    PROVE  TriesKept
BY TriesAre DEF TriesKept

(* The first submission of a hop takes no retained entry over, because     *)
(* retain() throws instead; an ordered one has no entry.                   *)
LEMMA ForwardTries ==
    ASSUME RuntimeInv, NEW t \in TaskIds, Forward(t)
    PROVE  TriesKept
<1>1. t \in Running({"forward"})
  BY DEF Forward
<1>2. TaskOK(tasks[t], Workload, delivered) /\ tasks[t] \in TaskRecords
  BY <1>1, RunningIs DEF RuntimeInv, TaskOK
<1>3. CASE UNCHANGED retained
  BY <1>3, SameTries
<1>4. ASSUME NEW op, op # None, op = tasks[t].act.forward, ~HopCollides(op),
             BeginHop(t, op, tasks[t].rest), UNCHANGED <<relayVars, acks, handle>>
      PROVE  TriesKept
  <2>1. op \in Operations
    BY <1>2, <1>4 DEF TaskRecords, RelayActions
  <2>2. Rest(tasks[t].rest) /\ tasks[t].rest \in SUBSET RelayActions
    BY <1>2 DEF TaskOK, TaskRecords
  <2>3. UNCHANGED <<scenario, members, arrivals, admissions, liveHops, delivered, told>>
    BY DEF Forward, arrivalVars
  <2>4. \A h \in Hops : retained'[h] # retained[h] => op.mode = "acked" /\ h = HopOf(op)
    BY <1>1, <1>4, <2>1, <2>2, <2>3, BeginHopStep
  <2>5. \A h \in Hops : retained'[h] # retained[h] => retained[h] = None
    BY <1>4, <2>4 DEF HopCollides
  <2> QED
    BY <2>5, SameTries
<1>5. ASSUME Collide(t), UNCHANGED relayVars
      PROVE  TriesKept
  <2>1. CASE DropTransport(tasks[t].from, "closing", {}, {t})
    <3>1. {} \subseteq Running({"replaying"})
      OBVIOUS
    <3>2. UNCHANGED <<scenario, members, arrivals, admissions, liveHops, delivered, told>>
      BY DEF Forward, arrivalVars
    <3>3. \A h \in Hops : retained[h] # None => retained'[h].tries = retained[h].tries
      BY <1>5, <2>1, <3>1, <3>2, DropStep
    <3> QED
      BY <3>3, SameTries
  <2> QED
    BY <1>3, <1>5, <2>1 DEF Collide
<1> QED
  BY <1>3, <1>4, <1>5 DEF Forward

(* The next action of a loop submits an ordered hop only, which has no     *)
(* entry.                                                                  *)
LEMMA NextInLoopTries ==
    ASSUME RuntimeInv, NEW t \in TaskIds, NextInLoop(t)
    PROVE  TriesKept
<1>1. TaskOK(tasks[t], Workload, delivered)
  BY RunningIs DEF RuntimeInv, NextInLoop
<1>2. ASSUME NEW act \in tasks[t].rest, act.forward # None,
             BeginHop(t, act.forward, tasks[t].rest \ {act})
      PROVE  UNCHANGED retained
  <2>1. act.forward.mode = "ordered"
    BY <1>1, <1>2 DEF TaskOK, Rest
  <2> QED
    BY <1>2, <2>1 DEF BeginHop
<1>3. UNCHANGED retained
  BY <1>2 DEF NextInLoop
<1> QED
  BY <1>3, SameTries

(* A timeout and a replay consume a retry each.                            *)
LEMMA AckTimeoutTries ==
    ASSUME RuntimeInv, NEW hop \in Hops, AckTimeout(hop) \/ \E t : ReplayHop(t, hop)
    PROVE  TriesKept
<1>1. \/ retained' = [retained EXCEPT ![hop] = None]
      \/ UNCHANGED retained
      \/ /\ retained[hop] # None
         /\ retained' = [retained EXCEPT ![hop] =
                [state |-> "pending", tries |-> retained[hop].tries + 1]]
  BY DEF AckTimeout, ReplayHop, retentionVars
<1>2. retained \in [Hops -> Entries \cup {None}]
  BY DEF RuntimeInv, Shape
<1>3. CASE retained' = [retained EXCEPT ![hop] = None]
  <2>1. \A h \in Hops : retained'[h] \in {retained[h], None}
    BY <1>2, <1>3
  <2> QED
    BY <2>1, SameTries
<1>4. CASE UNCHANGED retained
  BY <1>4, SameTries
<1>5. CASE /\ retained[hop] # None
           /\ retained' = [retained EXCEPT ![hop] =
                [state |-> "pending", tries |-> retained[hop].tries + 1]]
  <2>1. ASSUME NEW h \in Hops, retained[h] # None
        PROVE  retained'[h].tries >= retained[h].tries
    <3>1. retained[h].tries \in Nat
      BY <2>1, TriesAre
    <3>2. CASE h = hop
      BY <1>2, <1>5, <3>1, <3>2
    <3>3. CASE h # hop
      BY <1>2, <1>5, <3>1, <3>3
    <3> QED
      BY <3>2, <3>3
  <2> QED
    BY <2>1 DEF TriesKept
<1> QED
  BY <1>1, <1>3, <1>4, <1>5

(* The retries of a retained hop are never given back.                     *)
LEMMA RetryStep ==
    ASSUME RuntimeInv, [Next]_vars
    PROVE  TriesKept
<1> USE DEF sessionVars, arrivalVars, retentionVars, airVars, resultVars
<1>1. CASE UNCHANGED retained
  BY <1>1, SameTries
<1>2. ASSUME NEW t \in TaskIds, TaskStep(t)
      PROVE  TriesKept
  <2>1. CASE AckWritten(t) \/ Apply(t) \/ SignalWritten(t) \/ InfoWritten(t) \/ ReplayOrdered(t)
    BY <1>1, <2>1 DEF AckWritten, Apply, SignalWritten, InfoWritten, ReplayOrdered
  <2>2. ASSUME NEW hop, retained' = DeadlineStarted(hop)
        PROVE  TriesKept
    BY <2>2, DeadlineStartedIs, SameTries DEF RuntimeInv, Shape
  <2>3. CASE HopSubmitted(t)
    BY <1>1, <2>2, <2>3 DEF HopSubmitted
  <2>4. CASE HopResubmitted(t)
    BY <2>2, <2>4 DEF HopResubmitted
  <2> QED
    BY <1>2, <2>1, <2>3, <2>4, ForwardTries, NextInLoopTries, AckTimeoutTries DEF TaskStep
<1>3. ASSUME NEW peer \in Remotes, NEW finished, LinkLost(peer, finished)
      PROVE  TriesKept
  <2>1. /\ finished \subseteq Running({"replaying"})
        /\ DropTransport(peer, "reconnecting", finished, {})
        /\ UNCHANGED <<relayVars, scenario, members, arrivals, admissions, liveHops,
                       delivered, told>>
    BY <1>3 DEF LinkLost
  <2>2. \A h \in Hops : retained[h] # None => retained'[h].tries = retained[h].tries
    BY <2>1, DropStep
  <2> QED
    BY <2>2, SameTries
<1>4. ASSUME \/ \E op \in Workload : SourceHop(op) \/ LocalSend(op)
             \/ AuthorityLost
             \/ \E peer \in Remotes : \/ DestinationReceives(peer) \/ LinkResumed(peer)
                                      \/ LinkClosed(peer) \/ MemberLeft(peer)
      PROVE  TriesKept
  BY <1>1, <1>4 DEF SourceHop, LocalSend, AuthorityLost, DestinationReceives, LinkResumed,
                LinkClosed, MemberLeft
<1>5. ASSUME NEW gone, retained' = [hop \in Hops |-> IF hop \in gone THEN None ELSE retained[hop]]
      PROVE  TriesKept
  BY <1>5, SameTries
<1>6. ASSUME NEW hop \in Hops, GenericAckArrives(hop)
      PROVE  TriesKept
  <2>1. retained' = [retained EXCEPT ![hop] = None]
    BY <1>6 DEF GenericAckArrives
  <2>2. retained' = [h \in Hops |-> IF h \in {hop} THEN None ELSE retained[h]]
    BY <2>1 DEF RuntimeInv, Shape
  <2> QED
    BY <1>5, <2>2
<1>7. ASSUME NEW key \in Keys, CancelLocal(key)
      PROVE  TriesKept
  <2> DEFINE gone == {hop \in liveHops : hop[1] = key}
  <2>1. retained' = [hop \in Hops |-> IF hop \in gone THEN None ELSE retained[hop]]
    BY <1>7 DEF CancelLocal
  <2> QED
    BY <1>5, <2>1
<1>8. CASE UNCHANGED vars
  BY <1>1, <1>8 DEF vars, runtimeVars
<1> QED
  BY <1>2, <1>3, <1>4, <1>6, <1>7, <1>8, AckTimeoutTries DEF Next

(* Timeouts and resumes together retransmit a retained hop a bounded       *)
(* number of times.                                                        *)
THEOREM RuntimeRetriesNeverRefilled == Spec => RetriesNeverRefilled
<1>1. RuntimeInv /\ [Next]_vars =>
        [\A hop \in Hops : retained[hop] # None /\ retained'[hop] # None
            => retained'[hop].tries >= retained[hop].tries]_vars
  BY RetryStep DEF TriesKept
<1> QED
  BY <1>1, RuntimeInvariant, PTL DEF Spec, RetriesNeverRefilled

-----------------------------------------------------------------------------
(* One outcome per arrival                                                 *)

Balanced(key) ==
    Cardinality(told[key]) + Cardinality(Owed(key, tasks))
        + (IF Admitted(key) THEN 1 ELSE 0) =< arrivals[key]

(* A finite set changes its size with its members.                         *)
LEMMA Sizes ==
    ASSUME NEW S, IsFiniteSet(S), NEW T
    PROVE  /\ Cardinality(S) \in Nat
           /\ T \subseteq S => Cardinality(T) \in Nat /\ Cardinality(T) =< Cardinality(S)
           /\ \A w : T \subseteq S \cup {w}
                => Cardinality(T) \in Nat /\ Cardinality(T) =< Cardinality(S) + 1
           /\ \A w \in S : T \subseteq S \ {w}
                => Cardinality(T) \in Nat /\ Cardinality(T) + 1 =< Cardinality(S)
           /\ \A w \in S : \A v : T \subseteq (S \ {w}) \cup {v}
                => Cardinality(T) \in Nat /\ Cardinality(T) =< Cardinality(S)
<1>1. Cardinality(S) \in Nat
  BY FS_CardinalityType
<1>2. ASSUME NEW U, IsFiniteSet(U), T \in SUBSET U
      PROVE  Cardinality(T) \in Nat /\ Cardinality(T) =< Cardinality(U)
  BY <1>2, FS_Subset, FS_CardinalityType
<1>3. ASSUME NEW U, IsFiniteSet(U), NEW w
      PROVE  IsFiniteSet(U \cup {w}) /\ Cardinality(U \cup {w}) =< Cardinality(U) + 1
  <2>1. /\ IsFiniteSet(U \cup {w})
        /\ Cardinality(U \cup {w}) = IF w \in U THEN Cardinality(U) ELSE Cardinality(U) + 1
    BY <1>3, FS_AddElement
  <2>2. Cardinality(U) \in Nat
    BY <1>3, FS_CardinalityType
  <2> QED
    BY <2>1, <2>2
<1>4. ASSUME NEW w \in S
      PROVE  IsFiniteSet(S \ {w}) /\ Cardinality(S \ {w}) + 1 = Cardinality(S)
  <2>1. IsFiniteSet(S \ {w}) /\ Cardinality(S \ {w}) = Cardinality(S) - 1
    BY FS_RemoveElement
  <2> QED
    BY <1>1, <2>1
<1>5. ASSUME T \subseteq S
      PROVE  Cardinality(T) \in Nat /\ Cardinality(T) =< Cardinality(S)
  BY <1>2, <1>5
<1>6. ASSUME NEW w, T \subseteq S \cup {w}
      PROVE  Cardinality(T) \in Nat /\ Cardinality(T) =< Cardinality(S) + 1
  <2>1. IsFiniteSet(S \cup {w}) /\ Cardinality(S \cup {w}) =< Cardinality(S) + 1
    BY <1>3
  <2>2. Cardinality(T) \in Nat /\ Cardinality(T) =< Cardinality(S \cup {w})
    BY <1>2, <1>6, <2>1
  <2>3. Cardinality(S \cup {w}) \in Nat
    BY <2>1, FS_CardinalityType
  <2> QED
    BY <1>1, <2>1, <2>2, <2>3
<1>7. ASSUME NEW w \in S, T \subseteq S \ {w}
      PROVE  Cardinality(T) \in Nat /\ Cardinality(T) + 1 =< Cardinality(S)
  <2>1. IsFiniteSet(S \ {w}) /\ Cardinality(S \ {w}) + 1 = Cardinality(S)
    BY <1>4
  <2>2. Cardinality(T) \in Nat /\ Cardinality(T) =< Cardinality(S \ {w})
    BY <1>2, <1>7, <2>1
  <2>3. Cardinality(S \ {w}) \in Nat
    BY <2>1, FS_CardinalityType
  <2> QED
    BY <1>1, <2>1, <2>2, <2>3
<1>8. ASSUME NEW w \in S, NEW v, T \subseteq (S \ {w}) \cup {v}
      PROVE  Cardinality(T) \in Nat /\ Cardinality(T) =< Cardinality(S)
  <2> DEFINE U == S \ {w}
  <2>1. IsFiniteSet(U) /\ Cardinality(U) + 1 = Cardinality(S)
    BY <1>4
  <2> HIDE DEF U
  <2>2. IsFiniteSet(U \cup {v}) /\ Cardinality(U \cup {v}) =< Cardinality(U) + 1
    BY <1>3, <2>1
  <2>3. T \in SUBSET (U \cup {v})
    BY <1>8 DEF U
  <2>4. Cardinality(T) \in Nat /\ Cardinality(T) =< Cardinality(U \cup {v})
    BY <1>2, <2>2, <2>3
  <2>5. Cardinality(U) \in Nat /\ Cardinality(U \cup {v}) \in Nat
    BY <2>1, <2>2, FS_CardinalityType
  <2> QED
    BY <1>1, <2>1, <2>2, <2>4, <2>5
<1> QED
  BY <1>1, <1>5, <1>6, <1>7, <1>8

(* The outcomes told and owed are finitely many.                           *)
LEMMA LedgerFinite ==
    ASSUME Shape, NEW key \in Keys
    PROVE  IsFiniteSet(told[key]) /\ \A running : IsFiniteSet(Owed(key, running))
<1>1. told[key] \in SUBSET SignalStatuses
  BY DEF Shape
<1>2. IsFiniteSet(SignalStatuses)
  <2>1. \A S, x : IsFiniteSet(S) => IsFiniteSet(S \cup {x})
    BY FS_AddElement
  <2>2. SignalStatuses = ((((({} \cup {"destinationNotInGroup"})
            \cup {"destinationUnavailable"}) \cup {"destinationAckTimeout"})
            \cup {"relayQueueFull"}) \cup {"deliveryAck"}) \cup {"sentToDestinationTransport"}
    BY DEF SignalStatuses, FailureStatuses
  <2>3. IsFiniteSet({})
    BY FS_EmptySet
  <2> QED
    BY <2>1, <2>2, <2>3, Zenon
<1>3. IsFiniteSet(told[key])
  BY <1>1, <1>2, FS_Subset
<1>4. IsFiniteSet(TaskIds \X {"act", "rest"})
  <2>1. IsFiniteSet({"act"} \cup {"rest"})
    BY FS_Singleton, FS_AddElement
  <2>2. {"act", "rest"} = {"act"} \cup {"rest"}
    OBVIOUS
  <2>3. IsFiniteSet({"act", "rest"})
    BY <2>1, <2>2
  <2> QED
    BY <2>3, TaskIdsFinite, FS_Product
<1>5. \A running : Owed(key, running) \in SUBSET (TaskIds \X {"act", "rest"})
  BY DEF Owed
<1> QED
  BY <1>3, <1>4, <1>5, FS_Subset

(* The ways in which the account of one key may move in a step.            *)
Idle(key) ==
    /\ told'[key] \subseteq told[key]
    /\ Owed(key, tasks') \subseteq Owed(key, tasks)
    /\ operations'[key] # None => Admitted(key)
    /\ arrivals'[key] = arrivals[key]
Incurred(key) ==    \* the released relay's outcome is owed by a handler
    /\ told'[key] \subseteq told[key]
    /\ \E w : Owed(key, tasks') \subseteq Owed(key, tasks) \cup {w}
    /\ Admitted(key) /\ operations'[key] = None
    /\ arrivals'[key] = arrivals[key]
Arrived(key) ==     \* the arrival is answered, or its relay admitted
    /\ told'[key] \subseteq told[key]
    /\ \/ Owed(key, tasks') \subseteq Owed(key, tasks)
       \/ /\ \E w : Owed(key, tasks') \subseteq Owed(key, tasks) \cup {w}
          /\ operations'[key] # None => Admitted(key)
    /\ arrivals'[key] = arrivals[key] + 1
Discharged(key) ==  \* the outcome a handler owed is told
    /\ \E x : told'[key] \subseteq told[key] \cup {x}
    /\ \E w \in Owed(key, tasks) : Owed(key, tasks') \subseteq Owed(key, tasks) \ {w}
    /\ operations'[key] # None => Admitted(key)
    /\ arrivals'[key] = arrivals[key]
Moved(key) ==       \* the loop of a handler reaches the outcome it owes
    /\ told'[key] \subseteq told[key]
    /\ \E w \in Owed(key, tasks) : \E v :
            Owed(key, tasks') \subseteq (Owed(key, tasks) \ {w}) \cup {v}
    /\ operations'[key] # None => Admitted(key)
    /\ arrivals'[key] = arrivals[key]

(* None of them overdraws it.                                              *)
LEMMA AccountMoves ==
    ASSUME Shape, NEW key \in Keys, Balanced(key),
           Idle(key) \/ Incurred(key) \/ Arrived(key) \/ Discharged(key) \/ Moved(key)
    PROVE  Balanced(key)'
<1> DEFINE s == Cardinality(told[key])
           r == Cardinality(told'[key])
           o == Cardinality(Owed(key, tasks))
           p == Cardinality(Owed(key, tasks'))
           a == IF Admitted(key) THEN 1 ELSE 0
           b == IF operations'[key] # None THEN 1 ELSE 0
<1>1. IsFiniteSet(told[key]) /\ IsFiniteSet(Owed(key, tasks))
  BY LedgerFinite
<1>2. s \in Nat /\ o \in Nat
  BY <1>1, FS_CardinalityType
<1>3. told'[key] \subseteq told[key] => r \in Nat /\ r =< s
  BY <1>1, Sizes
<1>4. Owed(key, tasks') \subseteq Owed(key, tasks) => p \in Nat /\ p =< o
  BY <1>1, Sizes
<1>5. (\E w : Owed(key, tasks') \subseteq Owed(key, tasks) \cup {w}) => p \in Nat /\ p =< o + 1
  BY <1>1, Sizes
<1>6. (\E x : told'[key] \subseteq told[key] \cup {x}) => r \in Nat /\ r =< s + 1
  BY <1>1, Sizes
<1>7. (\E w \in Owed(key, tasks) : Owed(key, tasks') \subseteq Owed(key, tasks) \ {w})
        => p \in Nat /\ p + 1 =< o
  BY <1>1, Sizes
<1>8. (\E w \in Owed(key, tasks) : \E v :
            Owed(key, tasks') \subseteq (Owed(key, tasks) \ {w}) \cup {v})
        => p \in Nat /\ p =< o
  BY <1>1, Sizes
<1>9. s + o + a =< arrivals[key] /\ arrivals[key] \in Nat
  BY DEF Balanced, Shape
<1>10. a \in {0, 1} /\ b \in {0, 1} /\ (Admitted(key) => a = 1)
        /\ (operations'[key] = None => b = 0)
        /\ ((operations'[key] # None => Admitted(key)) => b =< a)
  OBVIOUS
<1>11. r + p + b =< arrivals'[key] => Balanced(key)'
  BY DEF Balanced, Admitted
<1> HIDE DEF s, r, o, p, a, b
<1>12. CASE Idle(key)
  BY <1>2, <1>3, <1>4, <1>9, <1>10, <1>11, <1>12 DEF Idle
<1>13. CASE Incurred(key)
  <2>1. r \in Nat /\ r =< s /\ p \in Nat /\ p =< o + 1
    BY <1>3, <1>5, <1>13 DEF Incurred
  <2>2. a = 1 /\ b = 0 /\ arrivals'[key] = arrivals[key]
    BY <1>10, <1>13 DEF Incurred
  <2>3. r + p + b =< arrivals'[key]
    BY <1>2, <1>9, <2>1, <2>2
  <2> QED
    BY <1>11, <2>3
<1>14. CASE Arrived(key)
  BY <1>2, <1>3, <1>4, <1>5, <1>9, <1>10, <1>11, <1>14 DEF Arrived
<1>15. CASE Discharged(key)
  BY <1>2, <1>6, <1>7, <1>9, <1>10, <1>11, <1>15 DEF Discharged
<1>16. CASE Moved(key)
  BY <1>2, <1>3, <1>8, <1>9, <1>10, <1>11, <1>16 DEF Moved
<1> QED
  BY <1>12, <1>13, <1>14, <1>15, <1>16

AccountOK ==
    \A key \in Keys :
        Idle(key) \/ Incurred(key) \/ Arrived(key) \/ Discharged(key) \/ Moved(key)

(* What a changed handler owes.                                            *)
LEMMA OwedOne ==
    ASSUME TasksOK, NEW t \in TaskIds, NEW task, tasks' = [tasks EXCEPT ![t] = task],
           NEW key, NEW w
    PROVE  w \in Owed(key, tasks') <=>
            /\ w \in TaskIds \X {"act", "rest"}
            /\ IF w[1] = t
               THEN IF w[2] = "act" THEN OwesAct(task, key) ELSE OwesRest(task, key)
               ELSE w \in Owed(key, tasks)
<1>1. \A u \in TaskIds : tasks'[u] = IF u = t THEN task ELSE tasks[u]
  BY DEF TasksOK
<1>2. \A u \in TaskIds :
        /\ OwesAct(tasks'[u], key) <=> IF u = t THEN OwesAct(task, key) ELSE OwesAct(tasks[u], key)
        /\ OwesRest(tasks'[u], key)
                <=> IF u = t THEN OwesRest(task, key) ELSE OwesRest(tasks[u], key)
  BY <1>1
<1>3. \A running : w \in Owed(key, running) <=>
        /\ w \in TaskIds \X {"act", "rest"}
        /\ IF w[2] = "act" THEN OwesAct(running[w[1]], key) ELSE OwesRest(running[w[1]], key)
  BY DEF Owed
<1>4. w \in TaskIds \X {"act", "rest"} => w[1] \in TaskIds
  OBVIOUS
<1> QED
  BY <1>2, <1>3, <1>4

(* A handler that owes no more than before.                                *)
LEMMA OwedLess ==
    ASSUME TasksOK, NEW t \in TaskIds, NEW task, tasks' = [tasks EXCEPT ![t] = task], NEW key,
           OwesAct(task, key) => OwesAct(tasks[t], key),
           OwesRest(task, key) => OwesRest(tasks[t], key)
    PROVE  Owed(key, tasks') \subseteq Owed(key, tasks)
<1> SUFFICES ASSUME NEW w \in Owed(key, tasks') PROVE w \in Owed(key, tasks)
  OBVIOUS
<1>1. w \in TaskIds \X {"act", "rest"}
      /\ IF w[1] = t THEN IF w[2] = "act" THEN OwesAct(task, key) ELSE OwesRest(task, key)
         ELSE w \in Owed(key, tasks)
  BY OwedOne
<1> QED
  BY <1>1 DEF Owed

(* A handler that owes one outcome more.                                   *)
LEMMA OwedMore ==
    ASSUME TasksOK, NEW t \in TaskIds, NEW task, tasks' = [tasks EXCEPT ![t] = task], NEW key,
           \/ OwesRest(task, key) => OwesRest(tasks[t], key)
           \/ OwesAct(task, key) => OwesAct(tasks[t], key)
    PROVE  \E w : Owed(key, tasks') \subseteq Owed(key, tasks) \cup {w}
<1>1. ASSUME NEW w \in Owed(key, tasks')
      PROVE  /\ w \in TaskIds \X {"act", "rest"}
             /\ IF w[1] = t THEN IF w[2] = "act" THEN OwesAct(task, key) ELSE OwesRest(task, key)
                ELSE w \in Owed(key, tasks)
  BY OwedOne
<1>2. CASE OwesRest(task, key) => OwesRest(tasks[t], key)
  <2>1. Owed(key, tasks') \subseteq Owed(key, tasks) \cup {<<t, "act">>}
    BY <1>1, <1>2 DEF Owed
  <2> QED
    BY <2>1
<1>3. CASE OwesAct(task, key) => OwesAct(tasks[t], key)
  <2>1. Owed(key, tasks') \subseteq Owed(key, tasks) \cup {<<t, "rest">>}
    BY <1>1, <1>3 DEF Owed
  <2> QED
    BY <2>1
<1> QED
  BY <1>2, <1>3

(* A step of one handler that neither owes more nor tells anything.        *)
LEMMA QuietAccounts ==
    ASSUME TasksOK, UNCHANGED <<told, arrivals>>,
           \A key \in Keys : operations'[key] # None => Admitted(key),
           NEW t \in TaskIds, NEW task, tasks' = [tasks EXCEPT ![t] = task],
           \A key \in Keys : OwesAct(task, key) => OwesAct(tasks[t], key),
           \A key \in Keys : OwesRest(task, key) => OwesRest(tasks[t], key)
    PROVE  AccountOK
<1>1. ASSUME NEW key \in Keys
      PROVE  Owed(key, tasks') \subseteq Owed(key, tasks)
  BY OwedLess
<1> QED
  BY <1>1 DEF AccountOK, Idle

(* One of no handler, which may release relays without an outcome.         *)
LEMMA StillAccounts ==
    ASSUME UNCHANGED <<told, arrivals, tasks>>,
           \A key \in Keys : operations'[key] # None => Admitted(key)
    PROVE  AccountOK
BY DEF AccountOK, Idle

(* A handler that has nothing to apply owes nothing with its actions.      *)
LEMMA NoAct ==
    ASSUME NEW task, task.pc \notin {"acking", "apply"}
    PROVE  \A key : ~OwesAct(task, key)
BY DEF OwesAct

(* Ending and going on owe nothing new.                                    *)
LEMMA GotoAccounts ==
    ASSUME TasksOK, UNCHANGED <<told, arrivals>>,
           \A key \in Keys : operations'[key] # None => Admitted(key),
           NEW pcs, NEW t \in Running(pcs),
           \/ Finish(t)
           \/ \E pc \in {"apply", "signalling", "forward", "next", "replay"} :
                /\ Goto(t, pc)
                /\ pc = "apply" => pcs = {"acking"}
    PROVE  AccountOK
<1>1. t \in TaskIds /\ tasks[t] # None /\ tasks[t].pc \in pcs /\ tasks[t] \in TaskRecords
  BY RunningIs DEF TaskOK
<1>2. CASE Finish(t)
  <2>1. tasks' = [tasks EXCEPT ![t] = None]
    BY <1>2 DEF Finish
  <2>2. \A key \in Keys : ~OwesAct(None, key) /\ ~OwesRest(None, key)
    BY DEF OwesAct, OwesRest
  <2> QED
    BY <1>1, <2>1, <2>2, QuietAccounts
<1>3. ASSUME NEW pc \in {"apply", "signalling", "forward", "next", "replay"},
             Goto(t, pc), pc = "apply" => pcs = {"acking"}
      PROVE  AccountOK
  <2> DEFINE task == [tasks[t] EXCEPT !.pc = pc]
  <2>1. tasks' = [tasks EXCEPT ![t] = task]
    BY <1>3 DEF Goto
  <2>2. task.pc = pc /\ task.act = tasks[t].act /\ task.rest = tasks[t].rest
    BY <1>1 DEF TaskRecords
  <2> HIDE DEF task
  <2>3. \A key \in Keys : OwesAct(task, key) => OwesAct(tasks[t], key)
    BY <1>1, <1>3, <2>2 DEF OwesAct
  <2>4. \A key \in Keys : OwesRest(task, key) => OwesRest(tasks[t], key)
    BY <1>1, <2>2 DEF OwesRest
  <2> QED
    BY <1>1, <2>1, <2>3, <2>4, QuietAccounts
<1> QED
  BY <1>2, <1>3

(* A handler that takes over the outcome of a relay it released.           *)
LEMMA SettlesAccounts ==
    ASSUME TasksOK, UNCHANGED <<told, arrivals>>, NEW k \in Keys, NEW a, Settles(k, a),
           NEW t \in TaskIds, NEW task, tasks' = [tasks EXCEPT ![t] = task], task.act = a,
           \A key \in Keys : OwesRest(task, key) => OwesRest(tasks[t], key)
    PROVE  AccountOK
<1> SUFFICES ASSUME NEW key \in Keys
             PROVE  Idle(key) \/ Incurred(key)
  BY DEF AccountOK
<1>1. operations'[key] # None => Admitted(key)
  BY DEF Settles
<1>2. CASE Tells(a, key)
  <2>1. Admitted(key) /\ operations'[key] = None
    BY <1>2 DEF Settles
  <2>2. \E w : Owed(key, tasks') \subseteq Owed(key, tasks) \cup {w}
    BY OwedMore
  <2> QED
    BY <2>1, <2>2 DEF Incurred
<1>3. CASE ~Tells(a, key)
  <2>1. OwesAct(task, key) => OwesAct(tasks[t], key)
    BY <1>3 DEF OwesAct
  <2>2. Owed(key, tasks') \subseteq Owed(key, tasks)
    BY <2>1, OwedLess
  <2> QED
    BY <1>1, <2>2 DEF Idle
<1> QED
  BY <1>2, <1>3

(* A new handler that goes over the failures of a destination.             *)
LEMMA TerminatedAccounts ==
    ASSUME RuntimeInv, UNCHANGED <<told, arrivals>>, NEW d \in Peers,
           NEW status \in FailureStatuses, DestinationTerminated(d, status),
           CanStart, Spawn(Task("next", NoActions, None, out'))
    PROVE  AccountOK
<1> SUFFICES ASSUME NEW key \in Keys
             PROVE  Idle(key) \/ Incurred(key)
  BY DEF AccountOK
<1> DEFINE task == Task("next", NoActions, None, out')
<1>1. tasks' = [tasks EXCEPT ![NewTask] = task] /\ NewTask \in TaskIds
  BY NewTaskIs DEF Spawn
<1>2. task.pc = "next" /\ task.rest = out'
  BY DEF Task
<1> HIDE DEF task
<1>3. ~OwesAct(task, key)
  BY <1>2, NoAct
<1>4. /\ \A a \in out' : Tells(a, key) => Admitted(key) /\ operations'[key] = None
      /\ operations'[key] # None => Admitted(key)
  BY TerminatedCall DEF RuntimeInv
<1>5. CASE OwesRest(task, key)
  <2>1. Admitted(key) /\ operations'[key] = None
    BY <1>2, <1>4, <1>5 DEF OwesRest
  <2>2. \E w : Owed(key, tasks') \subseteq Owed(key, tasks) \cup {w}
    BY <1>1, <1>3, OwedMore DEF RuntimeInv
  <2> QED
    BY <2>1, <2>2 DEF Incurred
<1>6. CASE ~OwesRest(task, key)
  <2>1. Owed(key, tasks') \subseteq Owed(key, tasks)
    BY <1>1, <1>3, <1>6, OwedLess DEF RuntimeInv
  <2> QED
    BY <1>4, <2>1 DEF Idle
<1> QED
  BY <1>5, <1>6

(* An admission: the arrival pays for its outcome, or for its relay.       *)
LEMMA AdmissionAccounts ==
    ASSUME RuntimeInv, NEW op \in Workload, NEW ready \in BOOLEAN,
           Admit(op, members, ready), RecordAdmission(op), UNCHANGED told,
           \/ UNCHANGED tasks
           \/ \E act \in out' : \E task : \E t \in TaskIds :
                /\ tasks' = [tasks EXCEPT ![t] = task]
                /\ task.act = act /\ task.rest = {}
    PROVE  AccountOK
<1> SUFFICES ASSUME NEW key \in Keys
             PROVE  Idle(key) \/ Arrived(key)
  BY DEF AccountOK
<1>1. /\ Key(op) \in Keys
      /\ \A a \in out' : AdmitSays(op, a)
      /\ \A k \in Keys : operations'[k] # None => Admitted(k) \/ k = Key(op)
  BY AdmissionStep
<1>2. arrivals'[key] = IF key = Key(op) THEN arrivals[key] + 1 ELSE arrivals[key]
  BY DEF RecordAdmission, RuntimeInv, Shape
<1>3. CASE UNCHANGED tasks
  BY <1>1, <1>2, <1>3 DEF Idle, Arrived
<1>4. ASSUME NEW act \in out', NEW task, NEW t \in TaskIds,
             tasks' = [tasks EXCEPT ![t] = task], task.act = act, task.rest = {}
      PROVE  Idle(key) \/ Arrived(key)
  <2>1. ~OwesRest(task, key)
    BY <1>4 DEF OwesRest
  <2>2. CASE Tells(act, key)
    <3>1. key = Key(op) /\ UNCHANGED operations
      BY <1>1, <1>4, <2>2 DEF AdmitSays
    <3>2. \E w : Owed(key, tasks') \subseteq Owed(key, tasks) \cup {w}
      BY <1>4, <2>1, OwedMore DEF RuntimeInv
    <3> QED
      BY <1>2, <3>1, <3>2 DEF Arrived, Admitted
  <2>3. CASE ~Tells(act, key)
    <3>1. ~OwesAct(task, key)
      BY <1>4, <2>3 DEF OwesAct
    <3>2. Owed(key, tasks') \subseteq Owed(key, tasks)
      BY <1>4, <2>1, <3>1, OwedLess DEF RuntimeInv
    <3> QED
      BY <1>1, <1>2, <3>2 DEF Idle, Arrived
  <2> QED
    BY <2>2, <2>3
<1> QED
  BY <1>3, <1>4

(* Accounts balance after the arrival of a source hop.                     *)
LEMMA SourceHopAccounts ==
    ASSUME RuntimeInv, NEW op \in Workload, SourceHop(op)
    PROVE  AccountOK
<1> DEFINE ready == op.destination = Coordinator \/ Ready(op.destination)
<1>1. ready \in BOOLEAN
  OBVIOUS
<1>2. /\ CanStart /\ RecordAdmission(op) /\ Admit(op, members, ready) /\ UNCHANGED told
  BY DEF SourceHop, resultVars
<1> HIDE DEF ready
<1>3. PICK act \in out' : UNCHANGED tasks \/ \E pc \in {"acking", "apply"} :
            Spawn([Task(pc, act, None, {}) EXCEPT !.from = op.source])
  BY DEF SourceHop
<1>4. ASSUME NEW pc \in {"acking", "apply"},
             Spawn([Task(pc, act, None, {}) EXCEPT !.from = op.source])
      PROVE  AccountOK
  <2> DEFINE task == [Task(pc, act, None, {}) EXCEPT !.from = op.source]
  <2>1. tasks' = [tasks EXCEPT ![NewTask] = task] /\ NewTask \in TaskIds
    BY <1>2, <1>4, NewTaskIs DEF Spawn
  <2>2. task.act = act /\ task.rest = {}
    BY DEF Task
  <2> HIDE DEF task
  <2>3. \E t \in TaskIds : tasks' = [tasks EXCEPT ![t] = task]
    BY <2>1
  <2> QED
    BY <1>1, <1>2, <2>2, <2>3, AdmissionAccounts
<1> QED
  BY <1>1, <1>2, <1>3, <1>4, AdmissionAccounts

(* Accounts balance after a send by the coordinator.                       *)
LEMMA LocalSendAccounts ==
    ASSUME RuntimeInv, NEW op \in Workload, LocalSend(op)
    PROVE  AccountOK
<1> DEFINE ready == Ready(op.destination)
<1>1. ready \in BOOLEAN
  BY DEF Ready
<1>2. /\ CanStart /\ RecordAdmission(op) /\ Admit(op, members, ready) /\ UNCHANGED told
  BY DEF LocalSend
<1> HIDE DEF ready
<1>3. PICK act \in out' : Spawn([Task("apply", act, Key(op), {}) EXCEPT !.own = Key(op)])
  BY DEF LocalSend
<1> DEFINE task == [Task("apply", act, Key(op), {}) EXCEPT !.own = Key(op)]
<1>4. tasks' = [tasks EXCEPT ![NewTask] = task] /\ NewTask \in TaskIds
  BY <1>2, <1>3, NewTaskIs DEF Spawn
<1>5. task.act = act /\ task.rest = {}
  BY DEF Task
<1> HIDE DEF task
<1>6. \E t \in TaskIds : tasks' = [tasks EXCEPT ![t] = task]
  BY <1>4
<1> QED
  BY <1>1, <1>2, <1>5, <1>6, AdmissionAccounts

(* What is told was owed.                                                  *)
LEMMA ApplyAccounts ==
    ASSUME RuntimeInv, NEW t \in TaskIds, Apply(t)
    PROVE  AccountOK
<1> DEFINE act == tasks[t].act
           mine == <<act.signal.source, act.signal.id>>
<1>1. /\ t \in Running({"apply"})
      /\ UNCHANGED <<relayVars, arrivalVars>>
      /\ \/ /\ act.signal # None
            /\ told' = [told EXCEPT ![mine] = @ \cup {act.signal.status}]
            /\ Goto(t, "signalling")
         \/ Goto(t, "forward") /\ UNCHANGED told
  BY DEF Apply
<1>2. tasks[t] # None /\ tasks[t].pc = "apply" /\ tasks[t] \in TaskRecords
  BY <1>1, RunningIs DEF RuntimeInv, TaskOK
<1>3. UNCHANGED arrivals /\ \A key \in Keys : operations'[key] # None => Admitted(key)
  BY <1>1 DEF arrivalVars, relayVars, Admitted
<1>4. CASE Goto(t, "forward") /\ UNCHANGED told
  BY <1>1, <1>3, <1>4, GotoAccounts DEF RuntimeInv
<1>5. CASE /\ act.signal # None
           /\ told' = [told EXCEPT ![mine] = @ \cup {act.signal.status}]
           /\ Goto(t, "signalling")
  <2> SUFFICES ASSUME NEW key \in Keys
               PROVE  Idle(key) \/ Discharged(key)
    BY DEF AccountOK
  <2> DEFINE task == [tasks[t] EXCEPT !.pc = "signalling"]
  <2>1. tasks' = [tasks EXCEPT ![t] = task]
    BY <1>5 DEF Goto
  <2>2. task.pc = "signalling" /\ task.rest = tasks[t].rest
    BY <1>2 DEF TaskRecords
  <2> HIDE DEF task
  <2>3. ~OwesAct(task, key) /\ (OwesRest(task, key) => OwesRest(tasks[t], key))
    BY <1>2, <2>2, NoAct DEF OwesRest
  <2>4. Owed(key, tasks') \subseteq Owed(key, tasks)
    BY <2>1, <2>3, OwedLess DEF RuntimeInv
  <2>5. told \in [Keys -> SUBSET SignalStatuses]
    BY DEF RuntimeInv, Shape
  <2>6. CASE Tells(act, key)
    <3>1. OwesAct(tasks[t], key)
      BY <1>2, <2>6 DEF OwesAct
    <3>2. <<t, "act">> \in Owed(key, tasks)
      BY <3>1 DEF Owed
    <3>3. <<t, "act">> \notin Owed(key, tasks')
      <4> DEFINE w == <<t, "act">>
      <4>1. w[1] = t /\ w[2] = "act"
        OBVIOUS
      <4> HIDE DEF w
      <4>2. w \notin Owed(key, tasks')
        BY <2>1, <2>3, <4>1, OwedOne DEF RuntimeInv
      <4> QED
        BY <4>2 DEF w
    <3>4. told'[key] \subseteq told[key] \cup {act.signal.status}
      BY <1>5, <2>5
    <3> QED
      BY <1>3, <2>4, <3>2, <3>3, <3>4 DEF Discharged
  <2>7. CASE ~Tells(act, key)
    <3>1. key # mine
      BY <1>5, <2>7 DEF Tells
    <3>2. told'[key] = told[key]
      BY <1>5, <2>5, <3>1
    <3> QED
      BY <1>3, <2>4, <3>2 DEF Idle
  <2> QED
    BY <2>6, <2>7
<1> QED
  BY <1>1, <1>4, <1>5

(* A handler that starts to submit a hop has applied its actions.          *)
LEMMA BeginHopAccounts ==
    ASSUME RuntimeInv, UNCHANGED <<told, arrivals>>,
           \A key \in Keys : operations'[key] # None => Admitted(key),
           NEW pcs, NEW t \in Running(pcs), NEW op, NEW rest \in SUBSET tasks[t].rest,
           BeginHop(t, op, rest)
    PROVE  AccountOK
<1> DEFINE task == [tasks[t] EXCEPT !.pc = "submitting",
                        !.act = [NoActions EXCEPT !.forward = op], !.rest = rest,
                        !.hop = HopOf(op), !.peer = op.destination]
<1>1. t \in TaskIds /\ tasks[t] # None /\ tasks[t] \in TaskRecords
  BY RunningIs DEF RuntimeInv, TaskOK
<1>2. tasks' = [tasks EXCEPT ![t] = task]
  BY DEF BeginHop
<1>3. task.pc = "submitting" /\ task.rest = rest
  BY <1>1 DEF TaskRecords
<1> HIDE DEF task
<1>4. \A key \in Keys : ~OwesAct(task, key)
  BY <1>3, NoAct
<1>5. \A key \in Keys : OwesRest(task, key) => OwesRest(tasks[t], key)
  BY <1>1, <1>3 DEF OwesRest
<1> QED
  BY <1>1, <1>2, <1>4, <1>5, QuietAccounts DEF RuntimeInv

(* The loop hands the outcomes it owes over one by one.                    *)
LEMMA NextInLoopAccounts ==
    ASSUME RuntimeInv, NEW t \in TaskIds, NextInLoop(t)
    PROVE  AccountOK
<1>1. t \in Running({"next"}) /\ UNCHANGED <<relayVars, arrivalVars, resultVars>>
  BY DEF NextInLoop
<1>2. tasks[t] # None /\ tasks[t].pc = "next" /\ tasks[t] \in TaskRecords
        /\ Rest(tasks[t].rest)
  BY <1>1, RunningIs DEF RuntimeInv, TaskOK
<1>3. UNCHANGED <<told, arrivals>> /\ \A key \in Keys : operations'[key] # None => Admitted(key)
  BY <1>1 DEF arrivalVars, resultVars, relayVars, Admitted
<1>4. ASSUME Finish(t) PROVE AccountOK
  BY <1>1, <1>3, <1>4, GotoAccounts DEF RuntimeInv
<1>5. ASSUME NEW act \in tasks[t].rest, NEW task, tasks' = [tasks EXCEPT ![t] = task],
             task.act = act, task.rest = tasks[t].rest \ {act}
      PROVE  AccountOK
  <2> SUFFICES ASSUME NEW key \in Keys
               PROVE  Idle(key) \/ Moved(key)
    BY DEF AccountOK
  <2>1. OwesRest(task, key) => OwesRest(tasks[t], key)
    BY <1>2, <1>5 DEF OwesRest
  <2>2. CASE ~Tells(act, key)
    <3>1. ~OwesAct(task, key)
      BY <1>5, <2>2 DEF OwesAct
    <3>2. Owed(key, tasks') \subseteq Owed(key, tasks)
      BY <1>5, <2>1, <3>1, OwedLess DEF RuntimeInv
    <3> QED
      BY <1>3, <3>2 DEF Idle
  <2>3. CASE Tells(act, key)
    <3>1. OwesRest(tasks[t], key)
      BY <1>2, <1>5, <2>3 DEF OwesRest
    <3>2. <<t, "rest">> \in Owed(key, tasks)
      BY <3>1 DEF Owed
    <3>3. ~OwesRest(task, key)
      BY <1>2, <1>5, <2>3 DEF OwesRest, Rest
    <3>4. ASSUME NEW w \in Owed(key, tasks')
          PROVE  w = <<t, "act">> \/ (w \in Owed(key, tasks) /\ w # <<t, "rest">>)
      <4>1. w \in TaskIds \X {"act", "rest"}
            /\ IF w[1] = t
               THEN IF w[2] = "act" THEN OwesAct(task, key) ELSE OwesRest(task, key)
               ELSE w \in Owed(key, tasks)
        BY <1>5, OwedOne DEF RuntimeInv
      <4> QED
        BY <3>3, <4>1
    <3>5. Owed(key, tasks') \subseteq (Owed(key, tasks) \ {<<t, "rest">>}) \cup {<<t, "act">>}
      BY <3>4
    <3> QED
      BY <1>3, <3>2, <3>5 DEF Moved
  <2> QED
    BY <2>2, <2>3
<1>6. ASSUME NEW act \in tasks[t].rest, 
             tasks' = [tasks EXCEPT ![t] = [tasks[t] EXCEPT !.pc = "apply",
                    !.act = act, !.local = None, !.rest = @ \ {act}]]
      PROVE  AccountOK
  <2> DEFINE task == [tasks[t] EXCEPT !.pc = "apply", !.act = act, !.local = None,
                          !.rest = @ \ {act}]
  <2>1. tasks' = [tasks EXCEPT ![t] = task]
    BY <1>6
  <2>2. task.act = act /\ task.rest = tasks[t].rest \ {act}
    BY <1>2 DEF TaskRecords
  <2> HIDE DEF task
  <2> QED
    BY <1>5, <2>1, <2>2
<1>7. ASSUME NEW op, NEW rest \in SUBSET tasks[t].rest, BeginHop(t, op, rest)
      PROVE  AccountOK
  BY <1>1, <1>3, <1>7, BeginHopAccounts
<1> QED
  BY <1>4, <1>6, <1>7 DEF NextInLoop

(* A lost transport ends handlers and what they owe.                       *)
LEMMA DropAccounts ==
    ASSUME RuntimeInv, NEW peer, NEW state, NEW finished, NEW thrown,
           finished \subseteq Running({"replaying"}),
           DropTransport(peer, state, finished, thrown),
           UNCHANGED <<relayVars, scenario, members, arrivals, admissions, liveHops,
                       delivered, told>>
    PROVE  AccountOK
<1>1. /\ \A t \in TaskIds : tasks'[t] \in {tasks[t], None} \/ t \in finished
      /\ \A t \in finished : tasks'[t] = [tasks[t] EXCEPT !.pc = "replay"]
  BY DropStep
<1>2. ASSUME NEW t \in TaskIds, NEW key
      PROVE  /\ OwesAct(tasks'[t], key) => OwesAct(tasks[t], key)
             /\ OwesRest(tasks'[t], key) => OwesRest(tasks[t], key)
  <2>1. CASE t \in finished
    <3>1. tasks[t] \in TaskRecords /\ tasks[t] # None
      BY <2>1, RunningIs DEF RuntimeInv, TaskOK
    <3>2. tasks'[t].pc = "replay" /\ tasks'[t].rest = tasks[t].rest
      BY <1>1, <2>1, <3>1 DEF TaskRecords
    <3> QED
      BY <3>1, <3>2 DEF OwesAct, OwesRest
  <2>2. CASE tasks'[t] = None
    BY <2>2 DEF OwesAct, OwesRest
  <2> QED
    BY <1>1, <2>1, <2>2
<1>3. \A key : Owed(key, tasks') \subseteq Owed(key, tasks)
  BY <1>2 DEF Owed
<1> QED
  BY <1>3 DEF AccountOK, Idle, relayVars, Admitted

(* A handler that goes on with the outcome of a further call.              *)
LEMMA ApplyNextAccounts ==
    ASSUME RuntimeInv, UNCHANGED <<told, arrivals>>, NEW pcs, NEW t \in Running(pcs),
           NEW k \in Keys, NEW a, Settles(k, a), NEW local, ApplyNext(t, out', local)
    PROVE  AccountOK
<1> DEFINE task == [tasks[t] EXCEPT !.pc = "apply", !.act = a, !.local = local]
<1>1. t \in TaskIds /\ tasks[t] # None /\ tasks[t] \in TaskRecords
  BY RunningIs DEF RuntimeInv, TaskOK
<1>2. tasks' = [tasks EXCEPT ![t] = task]
  <2>1. (CHOOSE b \in out' : TRUE) = a
    BY DEF Settles
  <2> QED
    BY <2>1 DEF ApplyNext
<1>3. task.act = a /\ task.rest = tasks[t].rest
  BY <1>1 DEF TaskRecords
<1> HIDE DEF task
<1>4. \A key \in Keys : OwesRest(task, key) => OwesRest(tasks[t], key)
  BY <1>1, <1>3 DEF OwesRest
<1> QED
  BY <1>1, <1>2, <1>3, <1>4, SettlesAccounts DEF RuntimeInv

(* A new handler that starts with it.                                      *)
LEMMA SpawnAccounts ==
    ASSUME RuntimeInv, UNCHANGED <<told, arrivals>>, CanStart,
           NEW k \in Keys, NEW a, Settles(k, a), NEW local,
           \E act \in out' : Spawn(Task("apply", act, local, {}))
    PROVE  AccountOK
<1> DEFINE task == Task("apply", a, local, {})
<1>1. tasks' = [tasks EXCEPT ![NewTask] = task] /\ NewTask \in TaskIds
  BY NewTaskIs DEF Spawn, Settles
<1>2. task.act = a /\ task.rest = {}
  BY DEF Task
<1> HIDE DEF task
<1>3. \A key \in Keys : ~OwesRest(task, key)
  BY <1>2 DEF OwesRest
<1> QED
  BY <1>1, <1>2, <1>3, SettlesAccounts DEF RuntimeInv

(* Accounts balance after a first submission.                              *)
LEMMA ForwardAccounts ==
    ASSUME RuntimeInv, NEW t \in TaskIds, Forward(t)
    PROVE  AccountOK
<1> DEFINE op == tasks[t].act.forward
<1>1. /\ t \in Running({"forward"})
      /\ UNCHANGED <<members, authority, losses, arrivalVars, liveHops, delivered, told>>
      /\ \/ Goto(t, "next") /\ UNCHANGED relayVars
         \/ op # None /\ BeginHop(t, op, tasks[t].rest) /\ UNCHANGED relayVars
         \/ Collide(t) /\ UNCHANGED relayVars
         \/ /\ op # None
            /\ FinalHopFailed(Key(op), "destinationUnavailable")
            /\ ApplyNext(t, out', Key(op))
         \/ Throw(t) /\ UNCHANGED relayVars
  BY DEF Forward
<1>2. UNCHANGED <<told, arrivals, scenario, members, admissions, liveHops, delivered>>
  BY <1>1 DEF arrivalVars
<1>3. tasks[t] \in TaskRecords
  BY <1>1, RunningIs DEF RuntimeInv, TaskOK
<1>4. op # None => Key(op) \in Keys
  BY <1>3, KeyTypes DEF TaskRecords, RelayActions
<1> HIDE DEF op
<1>5. UNCHANGED relayVars => \A key \in Keys : operations'[key] # None => Admitted(key)
  BY DEF relayVars, Admitted
<1>6. ASSUME Goto(t, "next") \/ Finish(t), UNCHANGED relayVars
      PROVE  AccountOK
  BY <1>1, <1>2, <1>5, <1>6, GotoAccounts DEF RuntimeInv
<1>7. CASE op # None /\ BeginHop(t, op, tasks[t].rest) /\ UNCHANGED relayVars
  BY <1>1, <1>2, <1>5, <1>7, BeginHopAccounts
<1>8. CASE Collide(t) /\ UNCHANGED relayVars
  <2>1. CASE DropTransport(tasks[t].from, "closing", {}, {t})
    <3>1. {} \subseteq Running({"replaying"})
      OBVIOUS
    <3> QED
      BY <1>2, <1>8, <2>1, <3>1, DropAccounts
  <2> QED
    BY <1>6, <1>8, <2>1 DEF Collide, Throw
<1>9. CASE /\ op # None
           /\ FinalHopFailed(Key(op), "destinationUnavailable")
           /\ ApplyNext(t, out', Key(op))
  <2>1. "destinationUnavailable" \in HopFailures
    BY DEF HopFailures
  <2>2. [RelayNext]_relayVars
    BY <1>4, <1>9, <2>1 DEF RelayNext
  <2>3. PICK a : Settles(Key(op), a)
    BY <1>4, <1>9, <2>1, <2>2, FinalCall DEF RuntimeInv
  <2> QED
    BY <1>1, <1>2, <1>4, <1>9, <2>3, ApplyNextAccounts
<1> QED
  BY <1>1, <1>6, <1>7, <1>8, <1>9 DEF Throw

(* Accounts balance after the end of a first submission.                   *)
LEMMA HopSubmittedAccounts ==
    ASSUME RuntimeInv, NEW t \in TaskIds, HopSubmitted(t)
    PROVE  AccountOK
<1> DEFINE op == tasks[t].act.forward
<1>1. /\ t \in Running({"submitting"})
      /\ UNCHANGED <<arrivalVars, told>>
      /\ \/ Goto(t, "next") /\ UNCHANGED relayVars
         \/ FinalHopSubmitted(Key(op)) /\ ApplyNext(t, out', None)
         \/ Throw(t) /\ UNCHANGED relayVars
  BY DEF HopSubmitted
<1>2. UNCHANGED <<told, arrivals>>
  BY <1>1 DEF arrivalVars
<1>3. Key(op) \in Keys
  BY <1>1, RunningIs, KeyTypes DEF RuntimeInv, TaskOK
<1> HIDE DEF op
<1>4. UNCHANGED relayVars => \A key \in Keys : operations'[key] # None => Admitted(key)
  BY DEF relayVars, Admitted
<1>5. CASE (Goto(t, "next") \/ Throw(t)) /\ UNCHANGED relayVars
  BY <1>1, <1>2, <1>4, <1>5, GotoAccounts DEF RuntimeInv, Throw
<1>6. CASE FinalHopSubmitted(Key(op)) /\ ApplyNext(t, out', None)
  <2>1. "destinationUnavailable" \in HopFailures
    BY DEF HopFailures
  <2>2. [RelayNext]_relayVars
    BY <1>3, <1>6 DEF RelayNext
  <2>3. PICK a : Settles(Key(op), a)
    BY <1>3, <1>6, <2>1, <2>2, FinalCall DEF RuntimeInv
  <2> QED
    BY <1>1, <1>2, <1>3, <1>6, <2>3, ApplyNextAccounts
<1> QED
  BY <1>1, <1>5, <1>6

(* Accounts balance after the end of a repeated submission.                *)
LEMMA HopResubmittedAccounts ==
    ASSUME RuntimeInv, NEW t \in TaskIds, HopResubmitted(t)
    PROVE  AccountOK
<1>1. /\ t \in Running({"resubmitting", "replaying"})
      /\ Finish(t) \/ Goto(t, "replay")
      /\ UNCHANGED <<relayVars, arrivalVars, resultVars>>
  BY DEF HopResubmitted
<1> QED
  BY <1>1, GotoAccounts DEF RuntimeInv, relayVars, arrivalVars, resultVars, Admitted

(* Accounts balance after a replay.                                        *)
LEMMA ReplayAccounts ==
    ASSUME RuntimeInv, NEW t \in TaskIds,
           InfoWritten(t) \/ ReplayOrdered(t) \/ \E hop \in Hops : ReplayHop(t, hop)
    PROVE  AccountOK
<1>1. \E pcs : t \in Running(pcs) /\ pcs \subseteq {"info", "replay"}
  BY DEF InfoWritten, ReplayOrdered, ReplayHop
<1>2. tasks[t] # None /\ tasks[t] \in TaskRecords
  BY <1>1, RunningIs DEF RuntimeInv, TaskOK
<1>3. UNCHANGED <<told, arrivals>>
  BY DEF InfoWritten, ReplayOrdered, ReplayHop, arrivalVars, resultVars
<1>4. \A key \in Keys : operations'[key] # None => Admitted(key)
  BY DEF InfoWritten, ReplayOrdered, ReplayHop, DestinationResumeSucceeded, relayVars,
         tableVars, Admitted
<1>5. ASSUME NEW task, tasks' = [tasks EXCEPT ![t] = task], task.pc \notin {"acking", "apply"},
             task.rest = tasks[t].rest \/ \A a \in task.rest : \A key : ~Tells(a, key)
      PROVE  AccountOK
  <2>1. \A key \in Keys : ~OwesAct(task, key)
    BY <1>5, NoAct
  <2>2. \A key \in Keys : OwesRest(task, key) => OwesRest(tasks[t], key)
    BY <1>2, <1>5 DEF OwesRest
  <2> QED
    BY <1>3, <1>4, <1>5, <2>1, <2>2, QuietAccounts DEF RuntimeInv
<1>6. ASSUME Finish(t) PROVE AccountOK
  BY <1>1, <1>3, <1>4, <1>6, GotoAccounts DEF RuntimeInv
<1>7. CASE InfoWritten(t)
  <2> DEFINE task == [tasks[t] EXCEPT !.pc = "replay",
                          !.hops = {hop \in liveHops : HopPeer(hop) = tasks[t].peer}]
  <2>1. tasks' = [tasks EXCEPT ![t] = task]
    BY <1>7 DEF InfoWritten
  <2>2. task.pc = "replay" /\ task.rest = tasks[t].rest
    BY <1>2 DEF TaskRecords
  <2> HIDE DEF task
  <2> QED
    BY <1>5, <2>1, <2>2
<1>8. CASE ReplayOrdered(t)
  <2> DEFINE heads == {a \in out' : a.forward.mode = "ordered"}
             task == Task("next", NoActions, None, heads)
  <2>1. CASE DestinationResumeSucceeded(tasks[t].peer) /\ tasks' = [tasks EXCEPT ![t] = task]
    <3>1. \A a \in heads : \A key : ~Tells(a, key)
      BY <2>1, ResumedCall DEF RuntimeInv
    <3>2. task.pc = "next" /\ task.rest = heads
      BY DEF Task
    <3> HIDE DEF task, heads
    <3> QED
      BY <1>5, <2>1, <3>1, <3>2
  <2> QED
    BY <1>6, <1>8, <2>1 DEF ReplayOrdered
<1>9. ASSUME NEW hop \in Hops, ReplayHop(t, hop)
      PROVE  AccountOK
  <2> DEFINE done == [tasks[t] EXCEPT !.hops = @ \ {hop}]
             sent == [done EXCEPT !.pc = "replaying", !.hop = hop]
  <2>1. PICK task \in {done, sent, None} : tasks' = [tasks EXCEPT ![t] = task]
    BY <1>9 DEF ReplayHop, Finish
  <2>0. t \in Running({"replay"})
    BY <1>9 DEF ReplayHop
  <2>2. tasks[t].pc = "replay"
    BY <2>0, RunningIs DEF RuntimeInv
  <2>3. done.pc = "replay" /\ done.rest = tasks[t].rest
    BY <1>2, <2>2 DEF TaskRecords
  <2>4. sent.pc = "replaying" /\ sent.rest = tasks[t].rest
    BY <1>2 DEF TaskRecords
  <2> HIDE DEF done, sent
  <2> QED
    BY <1>5, <1>6, <2>1, <2>3, <2>4 DEF Finish
<1> QED
  BY <1>7, <1>8, <1>9

(* Accounts balance after a link that resumes.                             *)
LEMMA LinkResumedAccounts ==
    ASSUME RuntimeInv, NEW peer \in Remotes, LinkResumed(peer)
    PROVE  AccountOK
<1> DEFINE task == [Task("info", NoActions, None, {}) EXCEPT !.peer = peer]
<1>1. /\ tasks' = [tasks EXCEPT ![NewTask] = task] /\ NewTask \in TaskIds
      /\ UNCHANGED <<told, arrivals, operations>>
  BY NewTaskIs DEF LinkResumed, Spawn, relayVars, arrivalVars, resultVars
<1>2. task.pc = "info" /\ task.rest = {}
  BY DEF Task
<1> HIDE DEF task
<1>3. \A key \in Keys : ~OwesAct(task, key) /\ ~OwesRest(task, key)
  BY <1>2, NoAct DEF OwesRest
<1> QED
  BY <1>1, <1>3, QuietAccounts DEF RuntimeInv, Admitted

(* Accounts balance after a link that is closed for good.                  *)
LEMMA LinkClosedAccounts ==
    ASSUME RuntimeInv, NEW peer \in Remotes, LinkClosed(peer)
    PROVE  AccountOK
<1>1. /\ CanStart /\ UNCHANGED <<told, arrivals>>
      /\ \/ DestinationResumeFailed(peer) /\ Spawn(Task("next", NoActions, None, out'))
         \/ UNCHANGED <<relayVars, tasks>>
  BY DEF LinkClosed, arrivalVars, resultVars
<1>2. peer \in Peers /\ "destinationUnavailable" \in FailureStatuses
  BY DEF Remotes, FailureStatuses
<1>3. CASE DestinationResumeFailed(peer) /\ Spawn(Task("next", NoActions, None, out'))
  BY <1>1, <1>2, <1>3, TerminatedAccounts DEF DestinationResumeFailed
<1>4. CASE UNCHANGED <<relayVars, tasks>>
  BY <1>1, <1>4, StillAccounts DEF relayVars, Admitted
<1> QED
  BY <1>1, <1>3, <1>4

(* Accounts balance after the removal of a member.                         *)
LEMMA MemberLeftAccounts ==
    ASSUME RuntimeInv, NEW peer \in Remotes, MemberLeft(peer)
    PROVE  AccountOK
<1>1. /\ CanStart /\ UNCHANGED <<told, arrivals>>
      /\ DestinationRemoved(peer) /\ Spawn(Task("next", NoActions, None, out'))
  BY DEF MemberLeft, arrivalVars, resultVars
<1>2. peer \in Peers /\ "destinationNotInGroup" \in FailureStatuses
  BY DEF Remotes, FailureStatuses
<1> QED
  BY <1>1, <1>2, TerminatedAccounts DEF DestinationRemoved

(* Accounts balance after a generic ACK.                                   *)
LEMMA GenericAckArrivesAccounts ==
    ASSUME RuntimeInv, NEW hop \in Hops, GenericAckArrives(hop)
    PROVE  AccountOK
<1>1. /\ CanStart /\ UNCHANGED <<told, arrivals>>
      /\ \/ /\ FinalHopAcknowledged(hop[1])
            /\ \E act \in out' : Spawn(Task("apply", act, hop[1], {}))
         \/ UNCHANGED <<relayVars, tasks>>
  BY DEF GenericAckArrives, arrivalVars, resultVars
<1>2. PICK k \in Keys : k = hop[1]
  BY DEF Hops
<1>3. CASE UNCHANGED <<relayVars, tasks>>
  BY <1>1, <1>3, StillAccounts DEF relayVars, Admitted
<1>4. CASE /\ FinalHopAcknowledged(hop[1])
           /\ \E act \in out' : Spawn(Task("apply", act, hop[1], {}))
  <2>1. [RelayNext]_relayVars
    BY <1>2, <1>4 DEF RelayNext
  <2>2. "destinationUnavailable" \in HopFailures
    BY DEF HopFailures
  <2>3. PICK a : Settles(k, a)
    BY <1>2, <1>4, <2>1, <2>2, FinalCall DEF RuntimeInv
  <2> QED
    BY <1>1, <1>4, <2>3, SpawnAccounts
<1> QED
  BY <1>1, <1>3, <1>4

(* Accounts balance after a timeout of an ACK.                             *)
LEMMA AckTimeoutAccounts ==
    ASSUME RuntimeInv, NEW hop \in Hops, AckTimeout(hop)
    PROVE  AccountOK
<1> DEFINE task == [Task("resubmitting", NoActions, None, {}) EXCEPT
                        !.hop = hop, !.peer = HopPeer(hop)]
<1>1. /\ CanStart /\ UNCHANGED <<told, arrivals>>
      /\ \/ Spawn(task) /\ UNCHANGED relayVars
         \/ /\ FinalHopFailed(hop[1], "destinationAckTimeout")
            /\ \E act \in out' : Spawn(Task("apply", act, hop[1], {}))
         \/ UNCHANGED <<relayVars, tasks>>
  BY DEF AckTimeout, arrivalVars, resultVars
<1>2. PICK k \in Keys : k = hop[1]
  BY DEF Hops
<1>3. CASE UNCHANGED <<relayVars, tasks>>
  BY <1>1, <1>3, StillAccounts DEF relayVars, Admitted
<1>4. CASE /\ FinalHopFailed(hop[1], "destinationAckTimeout")
           /\ \E act \in out' : Spawn(Task("apply", act, hop[1], {}))
  <2>1. "destinationAckTimeout" \in HopFailures
    BY DEF HopFailures
  <2>2. [RelayNext]_relayVars
    BY <1>2, <1>4, <2>1 DEF RelayNext
  <2>3. PICK a : Settles(k, a)
    BY <1>2, <1>4, <2>1, <2>2, FinalCall DEF RuntimeInv
  <2> QED
    BY <1>1, <1>4, <2>3, SpawnAccounts
<1>5. CASE Spawn(task) /\ UNCHANGED relayVars
  <2>1. tasks' = [tasks EXCEPT ![NewTask] = task] /\ NewTask \in TaskIds
    BY <1>1, <1>5, NewTaskIs DEF Spawn
  <2>2. task.pc = "resubmitting" /\ task.rest = {}
    BY DEF Task
  <2> HIDE DEF task
  <2>3. \A key \in Keys : ~OwesAct(task, key) /\ ~OwesRest(task, key)
    BY <2>2, NoAct DEF OwesRest
  <2> QED
    BY <1>1, <1>5, <2>1, <2>3, QuietAccounts DEF RuntimeInv, relayVars, Admitted
<1> QED
  BY <1>1, <1>3, <1>4, <1>5

(* Every step moves every account in one of the five ways.                 *)
LEMMA AccountStep ==
    ASSUME RuntimeInv, [Next]_vars
    PROVE  AccountOK
<1>1. ASSUME NEW t \in TaskIds, TaskStep(t)
      PROVE  AccountOK
  <2>1. CASE AckWritten(t)
    BY <2>1, GotoAccounts
       DEF RuntimeInv, AckWritten, relayVars, arrivalVars, resultVars, Admitted
  <2>2. CASE SignalWritten(t)
    BY <2>2, GotoAccounts
       DEF RuntimeInv, SignalWritten, relayVars, arrivalVars, resultVars, Admitted
  <2> QED
    BY <1>1, <2>1, <2>2, ApplyAccounts, ForwardAccounts, NextInLoopAccounts,
       HopSubmittedAccounts, HopResubmittedAccounts, ReplayAccounts DEF TaskStep
<1>2. ASSUME NEW peer \in Remotes, DestinationReceives(peer)
      PROVE  AccountOK
  BY <1>2, StillAccounts DEF DestinationReceives, relayVars, arrivalVars, Admitted
<1>3. ASSUME NEW peer \in Remotes, NEW finished, LinkLost(peer, finished)
      PROVE  AccountOK
  <2>1. /\ finished \subseteq Running({"replaying"})
        /\ DropTransport(peer, "reconnecting", finished, {})
        /\ UNCHANGED <<relayVars, scenario, members, arrivals, admissions, liveHops,
                       delivered, told>>
    BY <1>3 DEF LinkLost, arrivalVars
  <2> QED
    BY <2>1, DropAccounts
<1>4. CASE AuthorityLost
  <2>1. \A key \in Keys : operations'[key] = None
    BY <1>4 DEF AuthorityLost, CoordinatorAuthorityLost
  <2> QED
    BY <1>4, <2>1, StillAccounts DEF AuthorityLost, arrivalVars, resultVars
<1>5. ASSUME NEW key \in Keys, CancelLocal(key)
      PROVE  AccountOK
  BY <1>5, StillAccounts DEF CancelLocal, relayVars, arrivalVars, Admitted
<1>6. CASE UNCHANGED vars
  BY <1>6, StillAccounts
     DEF vars, runtimeVars, relayVars, arrivalVars, resultVars, Admitted
<1> QED
  BY <1>1, <1>2, <1>3, <1>4, <1>5, <1>6, SourceHopAccounts, LocalSendAccounts,
     LinkResumedAccounts, LinkClosedAccounts, MemberLeftAccounts,
     GenericAckArrivesAccounts, AckTimeoutAccounts DEF Next

(* The outcomes told, owed and still to come from the table never exceed   *)
(* the arrivals, so racing completions, failures and removals of one relay *)
(* tell its source at most one outcome per source hop.                     *)
THEOREM RuntimeOneVerdictPerArrival == Spec => []OneVerdictPerArrival
<1>1. Accounted <=> \A key \in Keys : Balanced(key)
  BY DEF Accounted, Balanced
<1>2. Init => Accounted
  <2> SUFFICES ASSUME Init, NEW key \in Keys PROVE Balanced(key)
    BY <1>1
  <2>1. told[key] = {} /\ ~Admitted(key) /\ arrivals[key] = 0
    BY DEF Init, RelayInit, Admitted
  <2>2. Owed(key, tasks) = {}
    BY DEF Init, Owed, OwesAct, OwesRest
  <2> QED
    BY <2>1, <2>2, FS_EmptySet DEF Balanced
<1>3. RuntimeInv /\ Accounted /\ [Next]_vars => Accounted'
  <2> SUFFICES ASSUME RuntimeInv, Accounted, [Next]_vars PROVE Accounted'
    OBVIOUS
  <2>1. \A key \in Keys : Balanced(key)'
    BY <1>1, AccountStep, AccountMoves DEF RuntimeInv, AccountOK
  <2> QED
    BY <2>1 DEF Accounted, Balanced
<1>4. RuntimeInv /\ Accounted => OneVerdictPerArrival
  <2> SUFFICES ASSUME RuntimeInv, Accounted, NEW key \in Keys
               PROVE  Cardinality(told[key]) =< arrivals[key]
    BY DEF OneVerdictPerArrival
  <2>1. IsFiniteSet(told[key]) /\ IsFiniteSet(Owed(key, tasks))
    BY LedgerFinite DEF RuntimeInv
  <2>2. Cardinality(told[key]) \in Nat /\ Cardinality(Owed(key, tasks)) \in Nat
    BY <2>1, FS_CardinalityType
  <2>3. arrivals[key] \in Nat
    BY DEF RuntimeInv, Shape
  <2> QED
    BY <2>2, <2>3 DEF Accounted
<1> QED
  BY <1>2, <1>3, <1>4, RuntimeInvariant, PTL DEF Spec

-----------------------------------------------------------------------------
(* Where operations and hops go                                            *)

(* Actions ask to forward operations of the workload to other peers, and   *)
(* to deliver those for the coordinator itself.                            *)
Asks(a, work) ==
    /\ a.forward # None => a.forward \in work /\ a.forward.destination \in Remotes
    /\ a.deliver # None => a.deliver \in work /\ a.deliver.destination = Coordinator

(* A handler writes the hop of an operation to its destination; the hops a *)
(* replay goes over all travel to the resumed peer.                        *)
RoutedTask(task, work) ==
    /\ Asks(task.act, work)
    /\ \A a \in task.rest : Asks(a, work)
    /\ task.pc \in HopPcs =>
        \E op \in work :
            /\ op.destination \in Remotes /\ op.destination = task.peer
            /\ Key(op) = task.hop[1]
            /\ IF task.pc = "submitting" THEN op = task.act.forward ELSE op.mode = "acked"
    /\ task.pc \in {"replay", "replaying"} =>
        \A hop \in task.hops : \A op \in work :
            Key(op) = hop[1] => op.destination = task.peer

TableRouted ==
    \A key \in Keys : Admitted(key) =>
        operations[key] \in Workload /\ operations[key].destination \in Remotes
TasksRouted == \A t \in TaskIds : tasks[t] # None => RoutedTask(tasks[t], Workload)
KeptRouted ==
    \A hop \in Hops : retained[hop] # None =>
        \E op \in Workload :
            op.mode = "acked" /\ op.destination \in Remotes /\ Key(op) = hop[1]
WireRouted ==
    \A peer \in Remotes : \A i \in DOMAIN wire[peer] :
        \E op \in Workload : op.destination = peer /\ Key(op) = wire[peer][i][1]
ReceivedRouted ==
    \A peer \in Remotes : \A i \in DOMAIN delivered[peer] :
        \E op \in Workload : op.destination = peer /\ Key(op) = delivered[peer][i]
LinksOK == link \in [Remotes -> {"ready", "reconnecting", "closing", "closed"}]

Routed ==
    TableRouted /\ TasksRouted /\ KeptRouted /\ WireRouted /\ ReceivedRouted /\ LinksOK

(* The empty actions ask for nothing.                                      *)
LEMMA NothingAsks == \A work : Asks(NoActions, work)
BY DEF Asks, NoActions

(* An admission asks to forward or to deliver the operation itself.        *)
LEMMA AdmitAsks ==
    ASSUME scenario \in Scenarios, NEW op \in Workload, NEW committed, NEW ready,
           Admit(op, committed, ready)
    PROVE  \A a \in out' : Asks(a, Workload)
<1>1. op \in Operations
  BY WorkloadIs
<1>2. op.destination # Coordinator => op.destination \in Remotes
  BY <1>1 DEF Operations, Remotes
<1>3. ASSUME NEW status, NEW ack, out' = {RouteFailure(op, status, ack, None)}
      PROVE  \A a \in out' : Asks(a, Workload)
  BY <1>3 DEF RouteFailure, NoActions, Asks
<1>4. CASE AdmitLocal(op, committed)
  BY <1>4 DEF AdmitLocal, RouteSuccess, NoActions, Asks
<1>5. CASE AdmitForward(op, committed, ready)
  BY <1>2, <1>5 DEF AdmitForward, Routable, NoActions, Asks
<1>6. CASE AdmitDuplicate(op, committed, ready)
  BY <1>6 DEF AdmitDuplicate, NoActions, Asks
<1>7. CASE AdmitThrows(op, committed, ready)
  BY <1>7 DEF AdmitThrows
<1> QED
  BY <1>3, <1>4, <1>5, <1>6, <1>7 DEF Admit, AdmitNotInGroup, AdmitUnavailable, AdmitQueueFull

(* Only the relay that is admitted enters the table.                       *)
LEMMA AdmitTable ==
    ASSUME RelayInv, NEW op \in Operations, NEW committed, NEW ready,
           Admit(op, committed, ready)
    PROVE  \/ UNCHANGED tableVars /\ \A a \in out' : a.forward = None
           \/ AdmitForward(op, committed, ready)
<1>1. ASSUME NEW status, NEW ack, out' = {RouteFailure(op, status, ack, None)}
      PROVE  \A a \in out' : a.forward = None
  BY <1>1 DEF RouteFailure, NoActions
<1>2. CASE AdmitLocal(op, committed)
  BY <1>2 DEF AdmitLocal, RouteSuccess, NoActions
<1>3. CASE AdmitDuplicate(op, committed, ready)
  BY <1>3 DEF AdmitDuplicate, NoActions
<1>4. CASE AdmitThrows(op, committed, ready)
  BY <1>4 DEF AdmitThrows
<1> QED
  BY <1>1, <1>2, <1>3, <1>4 DEF Admit, AdmitNotInGroup, AdmitUnavailable, AdmitQueueFull

(* A completion hands the head of the order list over, which is in the     *)
(* table.                                                                  *)
NextIs(op, a) ==
    /\ operations' = [operations EXCEPT ![Key(op)] = None]
    /\ order' = [order EXCEPT ![Pair(op)] = RemoveFirst(@, Key(op))]
    /\ out' = {a} /\ a.deliver = None
    /\ a.forward = NextForward(operations', order'[Pair(op)])

(* A completion or failure either finds the relay released already or      *)
(* releases it.                                                            *)
LEMMA FinalReleases ==
    ASSUME RelayInv, NEW k \in Keys, NEW status,
           FinalHopFailed(k, status) \/ FinalHopSubmitted(k) \/ FinalHopAcknowledged(k)
    PROVE  \/ /\ ~Admitted(k) /\ out' = {NoActions}
              /\ UNCHANGED <<operations, order>>
           \/ /\ Admitted(k)
              /\ \E op, a : op = operations[k] /\ Key(op) = k /\ NextIs(op, a)
<1>1. CASE AlreadyReleased(k)
  BY <1>1 DEF AlreadyReleased, tableVars
<1>2. CASE ~AlreadyReleased(k)
  <2>1. Admitted(k) /\ Release(k)
    BY <1>2 DEF FinalHopFailed, FinalHopSubmitted, FinalHopAcknowledged, FinalHopSucceeded
  <2>2. PICK op : op = operations[k]
    OBVIOUS
  <2>3. Key(op) = k
    BY <2>1, <2>2 DEF RelayInv, TableInv, TableTypeOK
  <2>4. PICK next : next = NextForward(operations', order'[Pair(op)])
    OBVIOUS
  <2>5. \/ \E s, f : out' = {RouteFailure(op, s, f, next)}
        \/ out' = {RouteSuccess(op, next)}
    BY <1>2, <2>2, <2>4
       DEF FinalHopFailed, FinalHopSubmitted, FinalHopAcknowledged, FinalHopSucceeded
  <2>6. PICK a : out' = {a} /\ a.forward = next /\ a.deliver = None
    BY <2>5 DEF RouteFailure, RouteSuccess, NoActions
  <2> QED
    BY <2>1, <2>2, <2>3, <2>4, <2>6 DEF Release, NextIs
<1> QED
  BY <1>1, <1>2

-----------------------------------------------------------------------------
(* Where an operation is                                                   *)

(* A handler is about to submit the hop of an operation, or is writing it. *)
HandPcs == {"acking", "apply", "signalling", "forward"}
HoldsBy(task, key) ==
    /\ task # None /\ task.pc \in HandPcs
    /\ task.act.forward # None /\ Key(task.act.forward) = key
SendsBy(task, key) == task # None /\ task.pc \in HopPcs /\ task.hop[1] = key

(* A handler will submit the hop, or submits it for the first time.        *)
AboutBy(task, key) ==
    \/ HoldsBy(task, key)
    \/ SendsBy(task, key) /\ task.pc = "submitting"
    \/ task # None /\ \E a \in task.rest : a.forward # None /\ Key(a.forward) = key

Held(key) == \E t \in TaskIds : HoldsBy(tasks[t], key)
Sent(key) == \E t \in TaskIds : SendsBy(tasks[t], key)
About(key) == \E t \in TaskIds : AboutBy(tasks[t], key)
Kept(key) == \E hop \in Hops : hop[1] = key /\ retained[hop] # None
OnWire(op) == \E i \in DOMAIN wire[op.destination] : wire[op.destination][i][1] = Key(op)
Got(op) == \E i \in DOMAIN delivered[op.destination] : delivered[op.destination][i] = Key(op)
On(op) == OnWire(op) \/ Got(op)
Known(key) == \E i \in DOMAIN admissions : admissions[i] = key

(* The relay may still transmit the operation in its turn; it has started  *)
(* to.                                                                     *)
Active(op) == Held(Key(op)) \/ Kept(Key(op)) \/ (Sent(Key(op)) /\ ~On(op))
Moving(op) == Held(Key(op)) \/ Kept(Key(op)) \/ Sent(Key(op)) \/ On(op)

(* Every admission of op2 came before those of op1.                        *)
Older(op2, op1) == Known(Key(op1)) /\ ~AdmittedBefore(Key(op1), Key(op2))

(* No relay towards the peer is admitted any more.                         *)
Closed(peer) == ~authority \/ peer \notin members \/ link[peer] = "closed"
IsHead(op) == order[Pair(op)] # <<>> /\ Head(order[Pair(op)]) = Key(op)

(* The operations the property is about.                                   *)
Routes == {op \in Workload : op.destination \in Remotes}
Steady == {op \in Routes : OrderedOnce(Pair(op))}
Acked == {op \in Steady : op.mode = "acked"}

-----------------------------------------------------------------------------
(* One acknowledged operation                                              *)

(* At most one handler is about to submit it, and only while no hop of it  *)
(* is retained; at most one hop is.  Another handler still writes it, or a *)
(* deadline runs, only once it reached the destination.                    *)
OneOK(op) ==
    LET key == Key(op) IN
    /\ \A t1, t2 \in TaskIds :
            HoldsBy(tasks[t1], key) /\ HoldsBy(tasks[t2], key) => t1 = t2
    /\ \A h1, h2 \in Hops :
            h1[1] = key /\ h2[1] = key /\ retained[h1] # None /\ retained[h2] # None => h1 = h2
    /\ Held(key) => ~Kept(key)
    /\ Held(key) /\ Sent(key) => On(op)
    /\ \A hop \in Hops, t \in TaskIds :
            hop[1] = key /\ retained[hop] # None /\ SendsBy(tasks[t], key)
                /\ (retained[hop].state = "awaiting" \/ tasks[t].hop # hop) => On(op)
    /\ \A t \in TaskIds :
            "earlyAck" \in Faults /\ SendsBy(tasks[t], key) /\ tasks[t].pc = "submitting"
                => On(op)

(* What a handler does with key becomes less.                              *)
Softer(key, new, old) ==
    /\ HoldsBy(new, key) => HoldsBy(old, key)
    /\ SendsBy(new, key) => SendsBy(old, key) /\ new.hop = old.hop /\ new.pc = old.pc

(* So does what is retained of it.                                         *)
KeptLess(key) ==
    \A hop \in Hops : hop[1] = key /\ retained'[hop] # None => retained[hop] # None
NotAwaited(key) ==
    \A hop \in Hops : hop[1] = key /\ retained'[hop] # None /\ retained'[hop].state = "awaiting"
        => retained[hop].state = "awaiting"

(* The step only takes work on the operation away, or brings it to its     *)
(* destination.                                                            *)
Calm(op) ==
    /\ \A t \in TaskIds : Softer(Key(op), tasks'[t], tasks[t])
    /\ KeptLess(Key(op))
    /\ Sent(Key(op))' => On(op)' \/ (NotAwaited(Key(op)) /\ (On(op) => On(op)'))
    /\ On(op)' => Moving(op)

(* A retained hop is transmitted again.                                    *)
Starts(op) ==
    \E t \in TaskIds, hop \in Hops :
        /\ hop[1] = Key(op) /\ retained[hop] # None
        /\ \A u \in TaskIds \ {t} : Softer(Key(op), tasks'[u], tasks[u])
        /\ ~HoldsBy(tasks'[t], Key(op))
        /\ SendsBy(tasks'[t], Key(op)) => tasks'[t].hop = hop /\ tasks'[t].pc # "submitting"
        /\ KeptLess(Key(op)) /\ NotAwaited(Key(op))
        /\ retained'[hop] # None => retained'[hop].state # "awaiting"
        /\ On(op) <=> On(op)'

(* The handler that was about to submits the operation.                    *)
Begins(op) ==
    \E t \in TaskIds : \E hop :
        /\ HoldsBy(tasks[t], Key(op))
        /\ \A u \in TaskIds \ {t} : Softer(Key(op), tasks'[u], tasks[u])
        /\ ~HoldsBy(tasks'[t], Key(op))
        /\ SendsBy(tasks'[t], Key(op)) => tasks'[t].hop = hop
        /\ \A h \in Hops : h[1] = Key(op) /\ retained'[h] # None =>
            \/ retained[h] # None
            \/ h = hop /\ retained'[h].state # "awaiting"
        /\ On(op) => On(op)'
        /\ "earlyAck" \in Faults => On(op)'

(* A handler is given the operation to submit.                             *)
Handed(op) ==
    \E t \in TaskIds :
        /\ \A u \in TaskIds \ {t} : Softer(Key(op), tasks'[u], tasks[u])
        /\ ~SendsBy(tasks'[t], Key(op))
        /\ KeptLess(Key(op)) /\ NotAwaited(Key(op))
        /\ On(op) <=> On(op)'

(* A calm step keeps the one operation as it should be.                    *)
LEMMA CalmOne ==
    ASSUME NEW op, OneOK(op), Calm(op), UNCHANGED scenario
    PROVE  OneOK(op)' /\ (Active(op)' => Active(op)) /\ (Moving(op)' => Moving(op))
<1>1. PICK key : key = Key(op)
  OBVIOUS
<1>2. Faults' = Faults
  BY DEF Faults
<1>3. /\ Held(key)' => Held(key)
      /\ Kept(key)' => Kept(key)
      /\ Sent(key)' => Sent(key)
  BY <1>1 DEF Calm, Softer, KeptLess, Held, Kept, Sent
<1>4. (Active(op)' => Active(op)) /\ (Moving(op)' => Moving(op))
  BY <1>1, <1>3 DEF Calm, Active, Moving
<1>5. /\ \A t1, t2 \in TaskIds :
            HoldsBy(tasks'[t1], key) /\ HoldsBy(tasks'[t2], key) => t1 = t2
      /\ \A h1, h2 \in Hops :
            h1[1] = key /\ h2[1] = key /\ retained'[h1] # None /\ retained'[h2] # None => h1 = h2
      /\ Held(key)' => ~Kept(key)'
  BY <1>1, <1>3 DEF OneOK, Calm, Softer, KeptLess
<1>6. CASE On(op)'
  BY <1>1, <1>4, <1>5, <1>6 DEF OneOK
<1>7. CASE ~Sent(key)'
  <2>1. \A t \in TaskIds : ~SendsBy(tasks'[t], key)
    BY <1>7 DEF Sent
  <2> QED
    BY <1>1, <1>4, <1>5, <1>7, <2>1 DEF OneOK
<1>8. CASE ~On(op)' /\ Sent(key)'
  <2>1. ~On(op) /\ NotAwaited(key)
    BY <1>1, <1>8 DEF Calm
  <2>2. Held(key)' /\ Sent(key)' => On(op)'
    BY <1>1, <1>3, <2>1 DEF OneOK
  <2>3. \A hop \in Hops, t \in TaskIds :
            hop[1] = key /\ retained'[hop] # None /\ SendsBy(tasks'[t], key)
                /\ (retained'[hop].state = "awaiting" \/ tasks'[t].hop # hop) => On(op)'
    BY <1>1, <2>1 DEF OneOK, Calm, Softer, KeptLess, NotAwaited
  <2>4. \A t \in TaskIds :
            "earlyAck" \in Faults' /\ SendsBy(tasks'[t], key) /\ tasks'[t].pc = "submitting"
                => On(op)'
    BY <1>1, <1>2, <2>1 DEF OneOK, Calm, Softer
  <2> QED
    BY <1>1, <1>4, <1>5, <2>2, <2>3, <2>4 DEF OneOK
<1> QED
  BY <1>4, <1>6, <1>7, <1>8

(* So does a retransmission,                                               *)
LEMMA StartsOne ==
    ASSUME NEW op, OneOK(op), Starts(op), UNCHANGED scenario
    PROVE  OneOK(op)' /\ Active(op) /\ (Moving(op)' => Moving(op))
<1>1. PICK key : key = Key(op)
  OBVIOUS
<1>2. PICK t \in TaskIds, hop \in Hops :
        /\ hop[1] = key /\ retained[hop] # None
        /\ \A u \in TaskIds \ {t} : Softer(key, tasks'[u], tasks[u])
        /\ ~HoldsBy(tasks'[t], key)
        /\ SendsBy(tasks'[t], key) => tasks'[t].hop = hop /\ tasks'[t].pc # "submitting"
        /\ KeptLess(key) /\ NotAwaited(key)
        /\ retained'[hop] # None => retained'[hop].state # "awaiting"
        /\ On(op) <=> On(op)'
  BY <1>1 DEF Starts
<1>3. Faults' = Faults
  BY DEF Faults
<1>4. Kept(key) /\ ~Held(key)
  BY <1>1, <1>2 DEF Kept, OneOK
<1>5. ~Held(key)' /\ \A u \in TaskIds : ~HoldsBy(tasks'[u], key)
  BY <1>2, <1>4 DEF Held, Softer
<1>6. Active(op) /\ (Moving(op)' => Moving(op))
  BY <1>1, <1>4 DEF Active, Moving
<1>7. \A h1, h2 \in Hops :
        h1[1] = key /\ h2[1] = key /\ retained'[h1] # None /\ retained'[h2] # None => h1 = h2
  BY <1>1, <1>2 DEF OneOK, KeptLess
<1>8. ASSUME NEW h \in Hops, NEW u \in TaskIds,
             h[1] = key, retained'[h] # None, SendsBy(tasks'[u], key),
             retained'[h].state = "awaiting" \/ tasks'[u].hop # h
      PROVE  On(op)'
  <2>1. h = hop /\ retained[h] # None /\ retained'[h].state # "awaiting"
    BY <1>1, <1>2, <1>8 DEF OneOK, KeptLess
  <2>2. u # t
    BY <1>2, <1>8, <2>1
  <2>3. SendsBy(tasks[u], key) /\ tasks[u].hop # h
    BY <1>2, <1>8, <2>1, <2>2 DEF Softer
  <2> QED
    BY <1>1, <1>2, <1>8, <2>1, <2>3 DEF OneOK
<1>9. ASSUME NEW u \in TaskIds, "earlyAck" \in Faults', SendsBy(tasks'[u], key),
             tasks'[u].pc = "submitting"
      PROVE  On(op)'
  <2>1. u # t /\ SendsBy(tasks[u], key) /\ tasks[u].pc = "submitting"
    BY <1>2, <1>9 DEF Softer
  <2> QED
    BY <1>1, <1>2, <1>3, <1>9, <2>1 DEF OneOK
<1> QED
  BY <1>1, <1>5, <1>6, <1>7, <1>8, <1>9 DEF OneOK

(* a first submission,                                                     *)
LEMMA BeginsOne ==
    ASSUME NEW op, OneOK(op), Begins(op), UNCHANGED scenario
    PROVE  OneOK(op)' /\ Active(op) /\ Moving(op)
<1>1. PICK key : key = Key(op)
  OBVIOUS
<1>2. PICK t, hop :
        /\ t \in TaskIds /\ HoldsBy(tasks[t], key)
        /\ \A u \in TaskIds \ {t} : Softer(key, tasks'[u], tasks[u])
        /\ ~HoldsBy(tasks'[t], key)
        /\ SendsBy(tasks'[t], key) => tasks'[t].hop = hop
        /\ \A h \in Hops : h[1] = key /\ retained'[h] # None =>
            \/ retained[h] # None
            \/ h = hop /\ retained'[h].state # "awaiting"
        /\ On(op) => On(op)'
        /\ "earlyAck" \in Faults => On(op)'
  BY <1>1 DEF Begins
<1>3. Faults' = Faults
  BY DEF Faults
<1>4. Held(key) /\ ~Kept(key)
  BY <1>1, <1>2 DEF Held, OneOK
<1>5. \A u \in TaskIds : ~HoldsBy(tasks'[u], key)
  BY <1>1, <1>2 DEF OneOK, Softer
<1>6. \A h \in Hops : h[1] = key /\ retained'[h] # None
        => h = hop /\ retained'[h].state # "awaiting"
  BY <1>2, <1>4 DEF Kept
<1>7. ASSUME NEW h \in Hops, NEW u \in TaskIds,
             h[1] = key, retained'[h] # None, SendsBy(tasks'[u], key),
             retained'[h].state = "awaiting" \/ tasks'[u].hop # h
      PROVE  On(op)'
  <2>1. tasks'[u].hop # hop /\ u # t
    BY <1>2, <1>6, <1>7
  <2>2. Sent(key)
    BY <1>2, <1>7, <2>1 DEF Softer, Sent
  <2> QED
    BY <1>1, <1>2, <1>4, <2>2 DEF OneOK
<1>8. ~Held(key)'
  BY <1>5 DEF Held
<1> QED
  BY <1>1, <1>2, <1>3, <1>4, <1>5, <1>6, <1>7, <1>8 DEF OneOK, Active, Moving

(* and a hand-over of an operation that was idle.                          *)
LEMMA HandedOne ==
    ASSUME NEW op, OneOK(op), Handed(op), ~Active(op), UNCHANGED scenario
    PROVE  OneOK(op)'
<1>1. PICK key : key = Key(op)
  OBVIOUS
<1>2. PICK t \in TaskIds :
        /\ \A u \in TaskIds \ {t} : Softer(key, tasks'[u], tasks[u])
        /\ ~SendsBy(tasks'[t], key)
        /\ KeptLess(key) /\ NotAwaited(key)
        /\ On(op) <=> On(op)'
  BY <1>1 DEF Handed
<1>3. Faults' = Faults
  BY DEF Faults
<1>4. ~Held(key) /\ ~Kept(key) /\ (Sent(key) => On(op))
  BY <1>1 DEF Active
<1>5. \A u \in TaskIds : HoldsBy(tasks'[u], key) => u = t
  BY <1>2, <1>4 DEF Held, Softer
<1>6. ~Kept(key)' /\ \A h \in Hops : h[1] = key => retained'[h] = None
  BY <1>2, <1>4 DEF Kept, KeptLess
<1>7. (\E u \in TaskIds : SendsBy(tasks'[u], key)) => On(op)'
  BY <1>2, <1>4 DEF Softer, Sent
<1> QED
  BY <1>1, <1>3, <1>5, <1>6, <1>7 DEF OneOK, Sent

-----------------------------------------------------------------------------
(* The log of admissions                                                   *)

AdmissionsStep ==
    \/ admissions' = admissions
    \/ \E key \in Keys : admissions' = Append(admissions, key)

(* A longer log keeps what it says; a key admitted before comes before the *)
(* new entry.                                                              *)
LEMMA LogGrows ==
    ASSUME admissions \in Seq(Keys), AdmissionsStep
    PROVE  /\ \A key : Known(key) => Known(key)'
           /\ \A key1, key2 : AdmittedBefore(key1, key2) => AdmittedBefore(key1, key2)'
<1>1. CASE admissions' = admissions
  BY <1>1 DEF Known, AdmittedBefore
<1>2. CASE \E key \in Keys : admissions' = Append(admissions, key)
  <2>1. PICK key \in Keys : admissions' = Append(admissions, key)
    BY <1>2
  <2>2. /\ DOMAIN admissions = 1..Len(admissions) /\ Len(admissions) \in Nat
        /\ DOMAIN admissions' = 1..(Len(admissions) + 1)
        /\ \A i \in 1..Len(admissions) : admissions'[i] = admissions[i]
    BY <2>1, AppendProperties
  <2> QED
    BY <2>2 DEF Known, AdmittedBefore
<1> QED
  BY <1>1, <1>2 DEF AdmissionsStep

(* A key admitted before comes before the new entry.                       *)
LEMMA LogAppended ==
    ASSUME admissions \in Seq(Keys), NEW key \in Keys, admissions' = Append(admissions, key)
    PROVE  /\ \A k : Known(k)' <=> Known(k) \/ k = key
           /\ \A k : Known(k) => AdmittedBefore(k, key)'
           /\ \A k1, k2 : AdmittedBefore(k1, k2)' => AdmittedBefore(k1, k2) \/ k2 = key
<1>1. /\ DOMAIN admissions = 1..Len(admissions) /\ Len(admissions) \in Nat
      /\ DOMAIN admissions' = 1..(Len(admissions) + 1)
      /\ \A i \in 1..Len(admissions) : admissions'[i] = admissions[i]
      /\ admissions'[Len(admissions) + 1] = key
  BY AppendProperties
<1>2. Len(admissions) + 1 \in DOMAIN admissions'
      /\ \A i \in DOMAIN admissions' : i \in DOMAIN admissions \/ i = Len(admissions) + 1
  BY <1>1
<1>3. \A k : Known(k)' <=> Known(k) \/ k = key
  BY <1>1, <1>2 DEF Known
<1>4. ASSUME NEW k, Known(k) PROVE AdmittedBefore(k, key)'
  <2>1. PICK i \in DOMAIN admissions : admissions[i] = k
    BY <1>4 DEF Known
  <2>2. i \in DOMAIN admissions' /\ admissions'[i] = k /\ i < Len(admissions) + 1
    BY <1>1, <2>1
  <2> QED
    BY <1>1, <1>2, <2>2 DEF AdmittedBefore
<1>5. ASSUME NEW k1, NEW k2, AdmittedBefore(k1, k2)', k2 # key
      PROVE  AdmittedBefore(k1, k2)
  <2>1. PICK m, n \in DOMAIN admissions' : m < n /\ admissions'[m] = k1 /\ admissions'[n] = k2
    BY <1>5 DEF AdmittedBefore
  <2>2. n \in 1..Len(admissions) /\ m \in 1..Len(admissions)
    BY <1>1, <1>5, <2>1
  <2> QED
    BY <1>1, <2>1, <2>2 DEF AdmittedBefore
<1> QED
  BY <1>3, <1>4, <1>5

(* No pair becomes steady, and only an operation that has not started to   *)
(* move becomes younger than another.                                      *)
LEMMA SteadyLess ==
    ASSUME admissions \in Seq(Keys), AdmissionsStep, UNCHANGED scenario
    PROVE  /\ Routes' = Routes /\ Workload' = Workload
           /\ \A op \in Steady' : op \in Steady
           /\ \A op \in Acked' : op \in Acked
<1>1. Workload' = Workload
  BY DEF Workload
<1>2. Routes' = Routes
  BY <1>1 DEF Routes
<1>3. \A key1, key2 : AdmittedBefore(key1, key2) => AdmittedBefore(key1, key2)'
  BY LogGrows
<1>4. ASSUME NEW pair, OrderedOnce(pair)' PROVE OrderedOnce(pair)
  BY <1>1, <1>3, <1>4 DEF OrderedOnce
<1>5. \A op \in Steady' : op \in Steady
  BY <1>2, <1>4 DEF Steady
<1> QED
  BY <1>1, <1>2, <1>5 DEF Acked

(* In the longer log an older operation was older already, unless the      *)
(* other one was admitted just now.                                        *)
LEMMA OlderThen ==
    ASSUME admissions \in Seq(Keys), AdmissionsStep, NEW op1, NEW op2, Older(op2, op1)',
           Moving(op1) => Known(Key(op1))
    PROVE  Older(op2, op1) \/ ~Moving(op1)
<1>1. ~AdmittedBefore(Key(op1), Key(op2))
  BY LogGrows DEF Older
<1> QED
  BY <1>1 DEF Older

-----------------------------------------------------------------------------
(* The wire and the destination                                            *)

SameGot == \A peer \in Remotes : delivered'[peer] = delivered[peer]
AirSame == wire' = wire /\ SameGot
AirAdds(op) ==
    /\ op \in Routes
    /\ \E hop \in AnyHops :
        hop[1] = Key(op) /\ wire' = [wire EXCEPT ![op.destination] = Append(@, hop)]
    /\ SameGot
    /\ op.mode = "acked" => Held(Key(op)) \/ Sent(Key(op))
AirLost(peer) == peer \in Remotes /\ wire' = [wire EXCEPT ![peer] = <<>>] /\ SameGot
AirTaken(peer) ==
    /\ peer \in Remotes /\ wire[peer] # <<>>
    /\ wire' = [wire EXCEPT ![peer] = Tail(@)]
    /\ Deliver(Head(wire[peer])[1])
AirStep ==
    \/ AirSame
    \/ \E op : AirAdds(op)
    \/ \E peer : AirLost(peer) \/ (AirTaken(peer) /\ UNCHANGED admissions)

(* What is on its way to the destination, or received, per kind of step.   *)
LEMMA AirSameIs ==
    ASSUME AirSame, NEW op \in Routes
    PROVE  (OnWire(op)' <=> OnWire(op)) /\ (Got(op)' <=> Got(op)) /\ (On(op)' <=> On(op))
<1>1. op.destination \in Remotes
  BY DEF Routes
<1> QED
  BY <1>1 DEF AirSame, SameGot, OnWire, Got, On

(* A hop is appended to the wire of its destination.                       *)
LEMMA AirAddsIs ==
    ASSUME RuntimeInv, NEW op, AirAdds(op), NEW other \in Routes
    PROVE  /\ (OnWire(other) => OnWire(other)') /\ (Got(other)' <=> Got(other))
           /\ OnWire(other)' => OnWire(other) \/ other = op
           /\ OnWire(op)'
<1>1. other.destination \in Remotes /\ op.destination \in Remotes
  BY DEF Routes, AirAdds
<1>2. PICK hop \in AnyHops :
        hop[1] = Key(op) /\ wire' = [wire EXCEPT ![op.destination] = Append(@, hop)]
  BY DEF AirAdds
<1>3. PICK d, w : d = op.destination /\ w = wire[d]
  OBVIOUS
<1>4. wire \in [Remotes -> Seq(AnyHops)]
  BY DEF RuntimeInv, Shape
<1>5. w \in Seq(AnyHops) /\ wire'[d] = Append(w, hop)
  BY <1>1, <1>2, <1>3, <1>4
<1>6. /\ DOMAIN w = 1..Len(w) /\ Len(w) \in Nat
      /\ DOMAIN wire'[d] = 1..(Len(w) + 1)
      /\ \A i \in 1..Len(w) : wire'[d][i] = w[i]
      /\ wire'[d][Len(w) + 1] = hop
  BY <1>5, AppendProperties
<1>7. OnWire(op)'
  <2>1. Len(w) + 1 \in DOMAIN wire'[d]
    BY <1>6
  <2> QED
    BY <1>2, <1>3, <1>6, <2>1 DEF OnWire
<1>8. Got(other)' <=> Got(other)
  BY <1>1 DEF AirAdds, SameGot, Got
<1>9. CASE other.destination # d
  <2>1. wire'[other.destination] = wire[other.destination]
    BY <1>1, <1>2, <1>3, <1>4, <1>9
  <2> QED
    BY <1>7, <1>8, <2>1 DEF OnWire
<1>10. CASE other.destination = d
  <2>1. OnWire(other) => OnWire(other)'
    BY <1>3, <1>6, <1>10 DEF OnWire
  <2>2. ASSUME OnWire(other)' PROVE OnWire(other) \/ other = op
    <3>1. PICK i \in DOMAIN wire'[d] : wire'[d][i][1] = Key(other)
      BY <1>10, <2>2 DEF OnWire
    <3>2. CASE i \in 1..Len(w)
      BY <1>3, <1>6, <1>10, <3>1, <3>2 DEF OnWire
    <3>3. CASE i = Len(w) + 1
      <4>1. Key(other) = Key(op)
        BY <1>2, <1>6, <3>1, <3>3
      <4> QED
        BY <4>1, WorkloadIs DEF Routes, AirAdds, RuntimeInv, Shape
    <3> QED
      BY <1>6, <3>1, <3>2, <3>3
  <2> QED
    BY <1>7, <1>8, <2>1, <2>2
<1> QED
  BY <1>9, <1>10

(* The wire of a lost link is empty.                                       *)
LEMMA AirLostIs ==
    ASSUME RuntimeInv, NEW peer, AirLost(peer), NEW op \in Routes
    PROVE  /\ (Got(op)' <=> Got(op)) /\ (OnWire(op)' => OnWire(op))
           /\ op.destination # peer => (OnWire(op)' <=> OnWire(op))
<1>1. op.destination \in Remotes /\ wire \in [Remotes -> Seq(AnyHops)]
  BY DEF Routes, RuntimeInv, Shape
<1>2. wire'[op.destination] = IF op.destination = peer THEN <<>> ELSE wire[op.destination]
  BY <1>1 DEF AirLost
<1>3. DOMAIN <<>> = {}
  OBVIOUS
<1>4. Got(op)' <=> Got(op)
  BY <1>1 DEF AirLost, SameGot, Got
<1> QED
  BY <1>2, <1>3, <1>4 DEF OnWire

(* What the destination takes off the wire it has received.                *)
LEMMA AirTakenIs ==
    ASSUME RuntimeInv, WireRouted, NEW peer, AirTaken(peer)
    PROVE  \E new \in Routes :
            /\ new.destination = peer /\ Key(new) = wire[peer][1][1]
            /\ delivered' = [delivered EXCEPT ![peer] =
                    IF Got(new) THEN @ ELSE Append(@, Key(new))]
            /\ Len(wire[peer]) \in Nat \ {0}
            /\ DOMAIN wire[peer] = 1..Len(wire[peer])
            /\ DOMAIN wire'[peer] = 1..(Len(wire[peer]) - 1)
            /\ \A i \in 1..(Len(wire[peer]) - 1) : wire'[peer][i] = wire[peer][i + 1]
            /\ \A other \in Remotes \ {peer} :
                wire'[other] = wire[other] /\ delivered'[other] = delivered[other]
<1>1. PICK w : w = wire[peer]
  OBVIOUS
<1>2. wire \in [Remotes -> Seq(AnyHops)] /\ peer \in Remotes /\ w # <<>>
      /\ wire' = [wire EXCEPT ![peer] = Tail(@)] /\ Deliver(Head(w)[1])
  BY <1>1 DEF RuntimeInv, Shape, AirTaken
<1>3. w \in Seq(AnyHops)
  BY <1>1, <1>2
<1>4. /\ Len(w) \in Nat \ {0} /\ DOMAIN w = 1..Len(w) /\ Head(w) = w[1]
      /\ Tail(w) \in Seq(AnyHops) /\ Len(Tail(w)) = Len(w) - 1
      /\ \A i \in 1..(Len(w) - 1) : Tail(w)[i] = w[i + 1]
  BY <1>2, <1>3, HeadTailProperties, EmptySeq, LenProperties
<1>5. wire'[peer] = Tail(w)
  BY <1>1, <1>2
<1>6. DOMAIN Tail(w) = 1..(Len(w) - 1)
  BY <1>4, LenProperties
<1>7. 1 \in DOMAIN w
  BY <1>4
<1>8. PICK new \in Workload : new.destination = peer /\ Key(new) = w[1][1]
  BY <1>1, <1>2, <1>7 DEF WireRouted
<1>9. new \in Routes /\ OpOf(Key(new)) = new
  BY <1>2, <1>8, OpOfIs DEF Routes, RuntimeInv, Shape
<1>10. Deliver(Key(new))
  BY <1>2, <1>4, <1>8
<1>11. delivered' = [delivered EXCEPT ![peer] =
                        IF Got(new) THEN @ ELSE Append(@, Key(new))]
  BY <1>8, <1>9, <1>10 DEF Deliver, Got
<1>12. \A other \in Remotes \ {peer} :
         wire'[other] = wire[other] /\ delivered'[other] = delivered[other]
  BY <1>2, <1>11 DEF RuntimeInv, Shape, Remotes
<1> QED
  BY <1>1, <1>4, <1>5, <1>6, <1>8, <1>9, <1>11, <1>12

(* Of two operations that reach the destination, the one whose last        *)
(* admission is the older is received first; while it has not been         *)
(* received it is on the wire before the other.                            *)
Sisters(op1, op2) == Pair(op1) = Pair(op2) /\ op1 # op2
Missed ==
    \A op1, op2 \in Acked : Sisters(op1, op2) /\ Older(op2, op1) =>
        (Got(op1) /\ ~Got(op2) => ~OnWire(op2))
WireOrder ==
    \A op1, op2 \in Acked : Sisters(op1, op2) /\ Older(op2, op1) /\ ~Got(op2) =>
        LET w == wire[op1.destination]
        IN  \A i, j \in DOMAIN w : i < j /\ w[i][1] = Key(op1) /\ w[j][1] = Key(op2)
                => \E n \in DOMAIN w : n < i /\ w[n][1] = Key(op2)
Received ==
    \A op1, op2 \in Acked : Pair(op1) = Pair(op2) =>
        LET d == delivered[op1.destination]
        IN  \A i, j \in DOMAIN d : i < j /\ d[i] = Key(op1) /\ d[j] = Key(op2)
                => AdmittedBefore(Key(op1), Key(op2))

(* The younger waits for its turn until the older has left the table and   *)
(* can no longer be transmitted for the first time.                        *)
Turns ==
    \A op1, op2 \in Acked : Sisters(op1, op2) /\ Older(op2, op1) =>
        (Admitted(Key(op2)) \/ Active(op2) => ~Moving(op1))
MovingKnown == \A op \in Acked : Moving(op) => Known(Key(op))

(* What was received or is on the wire has moved.                          *)
LEMMA GotMoves ==
    ASSUME NEW op
    PROVE  (Got(op) => Moving(op)) /\ (OnWire(op) => Moving(op))
BY DEF Moving, On

(* Operations of one pair have the same source and destination.            *)
LEMMA PairEnds ==
    ASSUME NEW op1, NEW op2, Pair(op1) = Pair(op2)
    PROVE  op1.source = op2.source /\ op1.destination = op2.destination
BY DEF Pair

(* An operation of the pair is older than before only when it did not move. *)
LEMMA OlderBefore ==
    ASSUME admissions \in Seq(Keys), AdmissionsStep, UNCHANGED scenario, MovingKnown,
           NEW op1 \in Acked', NEW op2 \in Acked', Older(op2, op1)'
    PROVE  op1 \in Acked /\ op2 \in Acked /\ (Older(op2, op1) \/ ~Moving(op1))
BY SteadyLess, OlderThen DEF MovingKnown

(* The three order facts survive when nothing travels,                     *)
LEMMA AirSameKeeps ==
    ASSUME RuntimeInv, AdmissionsStep, UNCHANGED scenario, MovingKnown,
           Missed, WireOrder, Received, AirSame
    PROVE  (Missed /\ WireOrder /\ Received)'
<1>1. admissions \in Seq(Keys) /\ \A op \in Acked' : op \in Acked /\ op \in Routes
  BY SteadyLess DEF RuntimeInv, Shape, Acked, Steady
<1>2. \A op \in Acked' : (OnWire(op)' <=> OnWire(op)) /\ (Got(op)' <=> Got(op))
  BY <1>1, AirSameIs
<1>3. Missed'
  <2> SUFFICES ASSUME NEW op1 \in Acked', NEW op2 \in Acked',
                      Sisters(op1, op2), Older(op2, op1)', Got(op1)', ~Got(op2)'
               PROVE  ~OnWire(op2)'
    BY DEF Missed, Sisters
  <2> QED
    BY <1>1, <1>2, OlderBefore, GotMoves DEF Missed
<1>4. WireOrder'
  <2> SUFFICES ASSUME NEW op1 \in Acked', NEW op2 \in Acked',
                      Sisters(op1, op2), Older(op2, op1)', ~Got(op2)',
                      NEW w, w = wire'[op1.destination],
                      NEW i \in DOMAIN w, NEW j \in DOMAIN w,
                      i < j, w[i][1] = Key(op1), w[j][1] = Key(op2)
               PROVE  \E n \in DOMAIN w : n < i /\ w[n][1] = Key(op2)
    BY DEF WireOrder, Sisters
  <2>1. w = wire[op1.destination]
    BY DEF AirSame
  <2>2. OnWire(op1)
    BY <2>1 DEF OnWire
  <2>3. Older(op2, op1) /\ op1 \in Acked /\ op2 \in Acked /\ ~Got(op2)
    BY <1>1, <1>2, <2>2, OlderBefore, GotMoves
  <2> QED
    BY <2>1, <2>3 DEF WireOrder
<1>5. Received'
  <2> SUFFICES ASSUME NEW op1 \in Acked', NEW op2 \in Acked', Pair(op1) = Pair(op2),
                      NEW d, d = delivered'[op1.destination],
                      NEW i \in DOMAIN d, NEW j \in DOMAIN d,
                      i < j, d[i] = Key(op1), d[j] = Key(op2)
               PROVE  AdmittedBefore(Key(op1), Key(op2))'
    BY DEF Received
  <2>1. d = delivered[op1.destination]
    BY <1>1 DEF AirSame, SameGot, Routes
  <2> QED
    BY <1>1, <2>1, LogGrows DEF Received
<1> QED
  BY <1>3, <1>4, <1>5

(* when a hop is put on the wire, which only an active operation does,     *)
LEMMA AirAddsKeeps ==
    ASSUME RuntimeInv, AdmissionsStep, UNCHANGED scenario, MovingKnown, Turns,
           Missed, WireOrder, Received, NEW op, AirAdds(op)
    PROVE  (Missed /\ WireOrder /\ Received)'
<1>1. admissions \in Seq(Keys) /\ \A x \in Acked' : x \in Acked /\ x \in Routes
  BY SteadyLess DEF RuntimeInv, Shape, Acked, Steady
<1>2. \A x \in Acked' : /\ (OnWire(x) => OnWire(x)') /\ (Got(x)' <=> Got(x))
                        /\ OnWire(x)' => OnWire(x) \/ x = op
  BY <1>1, AirAddsIs
<1>3. op \in Acked => Active(op) \/ On(op)
  BY DEF AirAdds, Acked, Active
<1>4. Missed'
  <2> SUFFICES ASSUME NEW op1 \in Acked', NEW op2 \in Acked',
                      Sisters(op1, op2), Older(op2, op1)', Got(op1)', ~Got(op2)'
               PROVE  ~OnWire(op2)'
    BY DEF Missed, Sisters
  <2>1. Older(op2, op1) /\ op1 \in Acked /\ op2 \in Acked /\ ~Got(op2) /\ Got(op1)
    BY <1>1, <1>2, OlderBefore, GotMoves
  <2>2. ~OnWire(op2)
    BY <2>1 DEF Missed
  <2>3. ~Active(op2)
    BY <2>1, GotMoves DEF Turns
  <2> QED
    BY <1>2, <1>3, <2>1, <2>2, <2>3 DEF On
<1>5. WireOrder'
  <2> SUFFICES ASSUME NEW op1 \in Acked', NEW op2 \in Acked',
                      Sisters(op1, op2), Older(op2, op1)', ~Got(op2)',
                      NEW v, v = wire'[op1.destination],
                      NEW i \in DOMAIN v, NEW j \in DOMAIN v,
                      i < j, v[i][1] = Key(op1), v[j][1] = Key(op2)
               PROVE  \E n \in DOMAIN v : n < i /\ v[n][1] = Key(op2)
    BY DEF WireOrder, Sisters
  <2>1. /\ op1 \in Acked /\ op2 \in Acked /\ op1 \in Routes /\ op2 \in Routes
        /\ op1.destination \in Remotes /\ op2.destination = op1.destination
    BY <1>1, PairEnds DEF Routes, Sisters
  <2>2. PICK hop \in AnyHops :
          hop[1] = Key(op) /\ wire' = [wire EXCEPT ![op.destination] = Append(@, hop)]
    BY DEF AirAdds
  <2>3. PICK w : w = wire[op1.destination]
    OBVIOUS
  <2>4. w \in Seq(AnyHops) /\ wire \in [Remotes -> Seq(AnyHops)] /\ op.destination \in Remotes
    BY <2>1, <2>3 DEF RuntimeInv, Shape, AirAdds, Routes
  <2>5. DOMAIN w = 1..Len(w) /\ Len(w) \in Nat
    BY <2>4, LenProperties
  <2>6. \/ v = w
        \/ op.destination = op1.destination /\ v = Append(w, hop)
    BY <2>1, <2>2, <2>3, <2>4
  <2>7. /\ \A n \in DOMAIN w : n \in DOMAIN v /\ v[n] = w[n]
        /\ \A n \in DOMAIN v : n \in DOMAIN w \/ (n = Len(w) + 1 /\ v[n] = hop)
    BY <2>4, <2>5, <2>6, AppendProperties
  <2>8. i \in DOMAIN w
    BY <2>5, <2>6, <2>7, AppendProperties
  <2>9. OnWire(op1) /\ Older(op2, op1) /\ ~Got(op2)
    BY <1>2, <2>1, <2>3, <2>7, <2>8, OlderBefore, GotMoves, <1>1 DEF OnWire
  <2>10. CASE j \in DOMAIN w
    <3>1. \E n \in DOMAIN w : n < i /\ w[n][1] = Key(op2)
      BY <2>1, <2>3, <2>7, <2>8, <2>9, <2>10 DEF WireOrder
    <3> QED
      BY <2>7, <3>1
  <2>11. CASE j \notin DOMAIN w
    <3>1. Key(op2) = Key(op)
      BY <2>2, <2>7, <2>11
    <3>2. op2 = op
      BY <2>1, <3>1, WorkloadIs DEF AirAdds, Routes, RuntimeInv, Shape
    <3>3. ~Active(op2)
      BY <2>1, <2>9, GotMoves DEF Turns
    <3>4. OnWire(op2)
      BY <1>3, <2>1, <2>9, <3>2, <3>3 DEF On
    <3>5. PICK n \in DOMAIN w : w[n][1] = Key(op2)
      BY <2>1, <2>3, <3>4 DEF OnWire
    <3>6. CASE n < i
      BY <2>7, <3>5, <3>6
    <3>7. CASE i < n
      <4>1. w[i][1] = Key(op1)
        BY <2>7, <2>8
      <4>2. \E m \in DOMAIN w : m < i /\ w[m][1] = Key(op2)
        BY <2>1, <2>3, <2>8, <2>9, <3>5, <3>7, <4>1 DEF WireOrder
      <4> QED
        BY <2>7, <4>2
    <3>8. CASE i = n
      <4>1. Key(op1) = Key(op2)
        BY <2>7, <2>8, <3>5, <3>8
      <4> QED
        BY <2>1, <4>1, WorkloadIs DEF Routes, RuntimeInv, Shape, Sisters
    <3> QED
      BY <2>5, <2>8, <3>5, <3>6, <3>7, <3>8
  <2> QED
    BY <2>10, <2>11
<1>6. Received'
  <2> SUFFICES ASSUME NEW op1 \in Acked', NEW op2 \in Acked', Pair(op1) = Pair(op2),
                      NEW d, d = delivered'[op1.destination],
                      NEW i \in DOMAIN d, NEW j \in DOMAIN d,
                      i < j, d[i] = Key(op1), d[j] = Key(op2)
               PROVE  AdmittedBefore(Key(op1), Key(op2))'
    BY DEF Received
  <2>1. d = delivered[op1.destination]
    BY <1>1 DEF AirAdds, SameGot, Routes
  <2> QED
    BY <1>1, <2>1, LogGrows DEF Received
<1> QED
  BY <1>4, <1>5, <1>6

(* when the hops in flight are lost,                                       *)
LEMMA AirLostKeeps ==
    ASSUME RuntimeInv, AdmissionsStep, UNCHANGED scenario, MovingKnown,
           Missed, WireOrder, Received, NEW peer, AirLost(peer)
    PROVE  (Missed /\ WireOrder /\ Received)'
<1>1. admissions \in Seq(Keys) /\ \A x \in Acked' : x \in Acked /\ x \in Routes
  BY SteadyLess DEF RuntimeInv, Shape, Acked, Steady
<1>2. \A x \in Acked' : (Got(x)' <=> Got(x)) /\ (OnWire(x)' => OnWire(x))
  BY <1>1, AirLostIs
<1>3. Missed'
  <2> SUFFICES ASSUME NEW op1 \in Acked', NEW op2 \in Acked',
                      Sisters(op1, op2), Older(op2, op1)', Got(op1)', ~Got(op2)'
               PROVE  ~OnWire(op2)'
    BY DEF Missed, Sisters
  <2> QED
    BY <1>1, <1>2, OlderBefore, GotMoves DEF Missed
<1>4. WireOrder'
  <2> SUFFICES ASSUME NEW op1 \in Acked', NEW op2 \in Acked',
                      Sisters(op1, op2), Older(op2, op1)', ~Got(op2)',
                      NEW w, w = wire'[op1.destination],
                      NEW i \in DOMAIN w, NEW j \in DOMAIN w,
                      i < j, w[i][1] = Key(op1), w[j][1] = Key(op2)
               PROVE  \E n \in DOMAIN w : n < i /\ w[n][1] = Key(op2)
    BY DEF WireOrder, Sisters
  <2>1. op1.destination \in Remotes /\ wire \in [Remotes -> Seq(AnyHops)]
    BY <1>1 DEF Routes, RuntimeInv, Shape
  <2>2. w = IF op1.destination = peer THEN <<>> ELSE wire[op1.destination]
    BY <2>1 DEF AirLost
  <2>3. DOMAIN <<>> = {}
    OBVIOUS
  <2>4. w = wire[op1.destination]
    BY <2>2, <2>3
  <2>5. OnWire(op1)
    BY <2>4 DEF OnWire
  <2>6. Older(op2, op1) /\ op1 \in Acked /\ op2 \in Acked /\ ~Got(op2)
    BY <1>1, <1>2, <2>5, OlderBefore, GotMoves
  <2> QED
    BY <2>4, <2>6 DEF WireOrder
<1>5. Received'
  <2> SUFFICES ASSUME NEW op1 \in Acked', NEW op2 \in Acked', Pair(op1) = Pair(op2),
                      NEW d, d = delivered'[op1.destination],
                      NEW i \in DOMAIN d, NEW j \in DOMAIN d,
                      i < j, d[i] = Key(op1), d[j] = Key(op2)
               PROVE  AdmittedBefore(Key(op1), Key(op2))'
    BY DEF Received
  <2>1. d = delivered[op1.destination]
    BY <1>1 DEF AirLost, SameGot, Routes
  <2> QED
    BY <1>1, <2>1, LogGrows DEF Received
<1> QED
  BY <1>3, <1>4, <1>5

(* Taking the first hop off the wire loses no operation.                   *)
LEMMA AirTakenOn ==
    ASSUME RuntimeInv, WireRouted, NEW peer, AirTaken(peer), NEW op \in Routes
    PROVE  /\ OnWire(op)' => OnWire(op)
           /\ Got(op) => Got(op)'
           /\ Got(op)' /\ ~Got(op) => op.destination = peer /\ Key(op) = wire[peer][1][1]
           /\ On(op)' <=> On(op)
<1>1. PICK new \in Routes :
            /\ new.destination = peer /\ Key(new) = wire[peer][1][1]
            /\ delivered' = [delivered EXCEPT ![peer] =
                    IF Got(new) THEN @ ELSE Append(@, Key(new))]
            /\ Len(wire[peer]) \in Nat \ {0}
            /\ DOMAIN wire[peer] = 1..Len(wire[peer])
            /\ DOMAIN wire'[peer] = 1..(Len(wire[peer]) - 1)
            /\ \A i \in 1..(Len(wire[peer]) - 1) : wire'[peer][i] = wire[peer][i + 1]
            /\ \A other \in Remotes \ {peer} :
                wire'[other] = wire[other] /\ delivered'[other] = delivered[other]
  BY AirTakenIs
<1>2. op.destination \in Remotes
  BY DEF Routes
<1>3. CASE op.destination # peer
  <2>1. wire'[op.destination] = wire[op.destination]
          /\ delivered'[op.destination] = delivered[op.destination]
    BY <1>1, <1>2, <1>3
  <2> QED
    BY <1>3, <2>1 DEF OnWire, Got, On
<1>4. CASE op.destination = peer
  <2>1. peer \in Peers /\ delivered \in [Peers -> Seq(Keys)] /\ Key(new) \in Keys
    BY <1>1, WorkloadIs DEF AirTaken, Remotes, RuntimeInv, Shape, Routes
  <2>2. PICK d, key : d = delivered[peer] /\ key = Key(new)
    OBVIOUS
  <2>3. d \in Seq(Keys) /\ key \in Keys
        /\ delivered'[peer] = IF Got(new) THEN d ELSE Append(d, key)
    BY <1>1, <2>1, <2>2
  <2>4. /\ DOMAIN d = 1..Len(d) /\ Len(d) \in Nat
        /\ DOMAIN Append(d, key) = 1..(Len(d) + 1)
        /\ \A i \in 1..Len(d) : Append(d, key)[i] = d[i]
        /\ Append(d, key)[Len(d) + 1] = key
    BY <2>3, AppendProperties
  <2>5. Got(op) => Got(op)'
    BY <1>4, <2>2, <2>3, <2>4 DEF Got
  <2>6. ASSUME Got(op)', ~Got(op) PROVE Key(op) = key
    <3>1. PICK i \in DOMAIN delivered'[peer] : delivered'[peer][i] = Key(op)
      BY <1>4, <2>6 DEF Got
    <3>2. ~Got(new)
      BY <1>4, <2>2, <2>3, <2>6, <3>1 DEF Got
    <3>3. i \notin 1..Len(d)
      BY <1>4, <2>2, <2>3, <2>4, <2>6, <3>1, <3>2 DEF Got
    <3> QED
      BY <2>3, <2>4, <3>1, <3>2, <3>3
  <2>7. Got(new)'
    <3>1. CASE Got(new)
      BY <1>1, <2>2, <2>3, <3>1 DEF Got
    <3>2. CASE ~Got(new)
      <4>1. Len(d) + 1 \in DOMAIN delivered'[peer] /\ delivered'[peer][Len(d) + 1] = key
        BY <2>3, <2>4, <3>2
      <4> QED
        BY <1>1, <2>2, <4>1 DEF Got
    <3> QED
      BY <3>1, <3>2
  <2>8. OnWire(op)' => OnWire(op)
    <3> SUFFICES ASSUME NEW i \in DOMAIN wire'[peer], wire'[peer][i][1] = Key(op)
                 PROVE  OnWire(op)
      BY <1>4 DEF OnWire
    <3>1. i + 1 \in DOMAIN wire[peer] /\ wire[peer][i + 1] = wire'[peer][i]
      BY <1>1
    <3> QED
      BY <1>4, <3>1 DEF OnWire
  <2>9. OnWire(op) => On(op)'
    <3> SUFFICES ASSUME NEW i \in DOMAIN wire[peer], wire[peer][i][1] = Key(op)
                 PROVE  On(op)'
      BY <1>4 DEF OnWire
    <3>1. CASE i = 1
      <4>1. op = new
        BY <1>1, <3>1, WorkloadIs DEF Routes, RuntimeInv, Shape
      <4> QED
        BY <2>7, <4>1 DEF On
    <3>2. CASE i # 1
      <4>1. i - 1 \in DOMAIN wire'[peer] /\ wire'[peer][i - 1] = wire[peer][i]
        BY <1>1, <3>2
      <4> QED
        BY <1>4, <4>1 DEF On, OnWire
    <3> QED
      BY <3>1, <3>2
  <2>10. Key(new) = key /\ 1 \in DOMAIN wire[peer]
    BY <1>1, <2>2
  <2>11. ASSUME Got(op)', ~Got(op) PROVE OnWire(op)
    BY <1>1, <1>4, <2>6, <2>10, <2>11 DEF OnWire
  <2> QED
    BY <1>1, <1>4, <2>2, <2>5, <2>6, <2>8, <2>9, <2>11 DEF On
<1> QED
  BY <1>3, <1>4

(* and when the destination takes the next hop.                            *)
LEMMA AirTakenKeeps ==
    ASSUME RuntimeInv, WireRouted, UNCHANGED <<scenario, admissions>>, MovingKnown,
           Missed, WireOrder, Received, NEW peer, AirTaken(peer)
    PROVE  (Missed /\ WireOrder /\ Received)'
<1>1. PICK new \in Routes :
            /\ new.destination = peer /\ Key(new) = wire[peer][1][1]
            /\ delivered' = [delivered EXCEPT ![peer] =
                    IF Got(new) THEN @ ELSE Append(@, Key(new))]
            /\ Len(wire[peer]) \in Nat \ {0}
            /\ DOMAIN wire[peer] = 1..Len(wire[peer])
            /\ DOMAIN wire'[peer] = 1..(Len(wire[peer]) - 1)
            /\ \A i \in 1..(Len(wire[peer]) - 1) : wire'[peer][i] = wire[peer][i + 1]
            /\ \A other \in Remotes \ {peer} :
                wire'[other] = wire[other] /\ delivered'[other] = delivered[other]
  BY AirTakenIs
<1>2. /\ \A op \in Acked' : op \in Acked
      /\ \A op1, op2 : Older(op2, op1)' <=> Older(op2, op1)
  BY SteadyLess DEF AdmissionsStep, RuntimeInv, Shape, Older, Known, AdmittedBefore
<1>3. \A op \in Acked : op \in Routes /\ op.destination \in Remotes
  BY DEF Acked, Steady, Routes
<1>4. \A op \in Acked : OnWire(op)' => OnWire(op)
  BY <1>3, AirTakenOn
<1>5. \A op \in Acked : Got(op) => Got(op)'
  BY <1>3, AirTakenOn
<1>6. ASSUME NEW op \in Acked, Got(op)', ~Got(op)
      PROVE  op.destination = peer /\ op = new
  BY <1>1, <1>3, <1>6, AirTakenOn, WorkloadIs DEF Routes, RuntimeInv, Shape
<1>7. 1 \in DOMAIN wire[peer]
  BY <1>1
<1>8. Missed'
  <2> SUFFICES ASSUME NEW op1 \in Acked', NEW op2 \in Acked',
                      Sisters(op1, op2), Older(op2, op1)', Got(op1)', ~Got(op2)', OnWire(op2)'
               PROVE  FALSE
    BY DEF Missed, Sisters
  <2>1. op1 \in Acked /\ op2 \in Acked /\ Older(op2, op1) /\ ~Got(op2) /\ OnWire(op2)
    BY <1>2, <1>4, <1>5
  <2>2. op1 = new /\ op1.destination = peer
    BY <1>6, <2>1 DEF Missed
  <2>3. op2.destination = peer
    BY <2>2, PairEnds DEF Sisters
  <2>4. PICK j \in DOMAIN wire'[peer] : wire'[peer][j][1] = Key(op2)
    BY <2>3 DEF OnWire
  <2>5. j + 1 \in DOMAIN wire[peer] /\ wire[peer][j + 1][1] = Key(op2) /\ 1 < j + 1
    BY <1>1, <2>4
  <2>6. PICK w : w = wire[op1.destination]
    OBVIOUS
  <2>7. PICK k : k = j + 1
    OBVIOUS
  <2>8. 1 \in DOMAIN w /\ k \in DOMAIN w /\ 1 < k /\ w[1][1] = Key(op1) /\ w[k][1] = Key(op2)
    BY <1>1, <1>7, <2>2, <2>5, <2>6, <2>7
  <2>9. \E n \in DOMAIN w : n < 1 /\ w[n][1] = Key(op2)
    BY <2>1, <2>6, <2>8 DEF WireOrder
  <2> QED
    BY <1>1, <2>2, <2>6, <2>9
<1>9. WireOrder'
  <2> SUFFICES ASSUME NEW op1 \in Acked', NEW op2 \in Acked',
                      Sisters(op1, op2), Older(op2, op1)', ~Got(op2)',
                      NEW v, v = wire'[op1.destination],
                      NEW i \in DOMAIN v, NEW j \in DOMAIN v,
                      i < j, v[i][1] = Key(op1), v[j][1] = Key(op2)
               PROVE  \E n \in DOMAIN v : n < i /\ v[n][1] = Key(op2)
    BY DEF WireOrder, Sisters
  <2>1. op1 \in Acked /\ op2 \in Acked /\ Older(op2, op1) /\ ~Got(op2)
    BY <1>2, <1>5
  <2>2. CASE op1.destination # peer
    <3>1. v = wire[op1.destination]
      BY <1>1, <1>3, <2>1, <2>2
    <3> QED
      BY <2>1, <3>1 DEF WireOrder
  <2>3. CASE op1.destination = peer
    <3> DEFINE w == wire[peer]
    <3>0. /\ DOMAIN v = 1..(Len(w) - 1) /\ Len(w) \in Nat \ {0} /\ DOMAIN w = 1..Len(w)
          /\ \A n \in 1..(Len(w) - 1) : v[n] = w[n + 1]
      BY <1>1, <2>3
    <3> HIDE DEF w
    <3>1. /\ i + 1 \in DOMAIN w /\ j + 1 \in DOMAIN w /\ i + 1 < j + 1
          /\ w[i + 1][1] = Key(op1) /\ w[j + 1][1] = Key(op2)
      BY <3>0
    <3>2. PICK n \in DOMAIN w : n < i + 1 /\ w[n][1] = Key(op2)
      BY <2>1, <2>3, <3>1 DEF WireOrder, w
    <3>3. n # 1
      <4> SUFFICES ASSUME n = 1 PROVE FALSE
        OBVIOUS
      <4>1. op2 = new
        BY <1>1, <1>3, <2>1, <3>2, WorkloadIs DEF Routes, RuntimeInv, Shape, w
      <4>2. Got(new)'
        <5>1. PICK d, key : d = delivered[peer] /\ key = Key(new)
          OBVIOUS
        <5>2. /\ d \in Seq(Keys) /\ key \in Keys
              /\ delivered'[peer] = IF Got(new) THEN d ELSE Append(d, key)
          BY <1>1, <5>1, WorkloadIs DEF AirTaken, Remotes, RuntimeInv, Shape, Routes
        <5>3. CASE Got(new)
          BY <1>1, <5>1, <5>2, <5>3 DEF Got
        <5>4. CASE ~Got(new)
          <6>1. /\ Len(d) + 1 \in DOMAIN Append(d, key)
                /\ Append(d, key)[Len(d) + 1] = key
            BY <5>2, AppendProperties, LenProperties
          <6> QED
            BY <1>1, <5>1, <5>2, <5>4, <6>1 DEF Got
        <5> QED
          BY <5>3, <5>4
      <4> QED
        BY <4>1, <4>2
    <3>4. n - 1 \in DOMAIN v /\ v[n - 1] = w[n] /\ n - 1 < i
      BY <3>0, <3>1, <3>2, <3>3
    <3> QED
      BY <3>2, <3>4
  <2> QED
    BY <2>2, <2>3
<1>10. Received'
  <2> SUFFICES ASSUME NEW op1 \in Acked', NEW op2 \in Acked', Pair(op1) = Pair(op2),
                      NEW e, e = delivered'[op1.destination],
                      NEW i \in DOMAIN e, NEW j \in DOMAIN e,
                      i < j, e[i] = Key(op1), e[j] = Key(op2)
               PROVE  AdmittedBefore(Key(op1), Key(op2))'
    BY DEF Received
  <2>1. op1 \in Acked /\ op2 \in Acked
    BY <1>2
  <2>2. AdmittedBefore(Key(op1), Key(op2)) => AdmittedBefore(Key(op1), Key(op2))'
    BY DEF AdmittedBefore
  <2>3. PICK d : d = delivered[op1.destination]
    OBVIOUS
  <2>4. CASE e = d
    BY <2>1, <2>2, <2>3, <2>4 DEF Received
  <2>5. CASE e # d
    <3>1. op1.destination = peer /\ ~Got(new) /\ e = Append(d, Key(new)) /\ d \in Seq(Keys)
          /\ Key(new) \in Keys
      BY <1>1, <1>3, <2>1, <2>3, <2>5, WorkloadIs
         DEF AirTaken, Remotes, RuntimeInv, Shape, Routes
    <3>2. PICK key : key = Key(new)
      OBVIOUS
    <3>3. /\ DOMAIN d = 1..Len(d) /\ Len(d) \in Nat
          /\ DOMAIN e = 1..(Len(d) + 1)
          /\ \A n \in 1..Len(d) : e[n] = d[n]
          /\ e[Len(d) + 1] = key
      BY <3>1, <3>2, AppendProperties
    <3>4. CASE j \in 1..Len(d)
      <4>1. i \in DOMAIN d /\ j \in DOMAIN d /\ d[i] = Key(op1) /\ d[j] = Key(op2)
        BY <3>3, <3>4
      <4> QED
        BY <2>1, <2>2, <2>3, <4>1 DEF Received
    <3>5. CASE j = Len(d) + 1
      <4>1. i \in 1..Len(d) /\ d[i] = Key(op1) /\ Key(op2) = Key(new)
        BY <3>2, <3>3, <3>5
      <4>2. op2 = new
        BY <1>3, <2>1, <4>1, WorkloadIs DEF Routes, RuntimeInv, Shape
      <4>3. Got(op1)
        BY <2>3, <3>3, <4>1 DEF Got
      <4>4. op1 # op2
        BY <3>1, <4>2, <4>3
      <4>5. OnWire(op2)
        BY <1>1, <1>7, <4>2 DEF OnWire
      <4>6. ~Older(op2, op1)
        BY <2>1, <3>1, <4>2, <4>3, <4>4, <4>5 DEF Missed, Sisters
      <4>7. Known(Key(op1))
        BY <2>1, <4>3, GotMoves DEF MovingKnown
      <4> QED
        BY <2>2, <4>6, <4>7 DEF Older
    <3> QED
      BY <3>3, <3>4, <3>5
  <2> QED
    BY <2>4, <2>5
<1> QED
  BY <1>8, <1>9, <1>10

-----------------------------------------------------------------------------
(* The table                                                               *)

ClosedEmpty == \A op \in Routes : Closed(op.destination) => order[Pair(op)] = <<>>
OrderKnown == \A op \in Routes : Admitted(Key(op)) => Known(Key(op))
OrderOld ==
    \A op1, op2 \in Steady : Pair(op1) = Pair(op2) =>
        LET s == order[Pair(op1)]
        IN  \A i, j \in DOMAIN s : i < j /\ s[i] = Key(op1) /\ s[j] = Key(op2)
                => AdmittedBefore(Key(op1), Key(op2))

SameClosed == \A peer \in Remotes : Closed(peer)' <=> Closed(peer)
TableSame == UNCHANGED <<operations, order, admissions>> /\ SameClosed
TableAdmits(op) ==
    /\ op \in Routes /\ ~Closed(op.destination) /\ ~Admitted(Key(op))
    /\ operations' = [operations EXCEPT ![Key(op)] = op]
    /\ order' = [order EXCEPT ![Pair(op)] = Append(@, Key(op))]
    /\ admissions' = Append(admissions, Key(op))
    /\ SameClosed
TableReleases(op) ==
    /\ op \in Routes /\ Admitted(Key(op))
    /\ operations' = [operations EXCEPT ![Key(op)] = None]
    /\ order' = [order EXCEPT ![Pair(op)] = RemoveFirst(@, Key(op))]
    /\ UNCHANGED admissions
    /\ SameClosed
TableEmpties ==
    /\ \A key \in Keys : operations'[key] \in {operations[key], None}
    /\ \A op \in Routes :
        \/ order'[Pair(op)] = order[Pair(op)]
            /\ (Closed(op.destination)' => Closed(op.destination))
        \/ order'[Pair(op)] = <<>> /\ Closed(op.destination)'
    /\ UNCHANGED admissions
    /\ \A peer \in Remotes : Closed(peer) => Closed(peer)'

(* An operation that waits in the table is in the order of its pair.       *)
LEMMA InOrder ==
    ASSUME RuntimeInv, TableRouted, NEW op \in Routes
    PROVE  /\ Key(op) \in Keys /\ Pair(op) \in Pairs
           /\ order[Pair(op)] \in Seq(Keys) /\ Len(order[Pair(op)]) \in Nat
           /\ DOMAIN order[Pair(op)] = 1..Len(order[Pair(op)])
           /\ Distinct(order[Pair(op)])
           /\ Admitted(Key(op)) => operations[Key(op)] = op
           /\ Admitted(Key(op)) <=> \E i \in DOMAIN order[Pair(op)] : order[Pair(op)][i] = Key(op)
           /\ IsHead(op) <=> order[Pair(op)] # <<>> /\ order[Pair(op)][1] = Key(op)
           /\ IsHead(op) => Admitted(Key(op))
<1>1. op \in Operations /\ Key(op) \in Keys /\ Pair(op) \in Pairs
  BY WorkloadIs, KeyTypes DEF Routes, RuntimeInv, Shape
<1>2. TableTypeOK /\ OrderExact
  BY DEF RuntimeInv, RelayInv, TableInv
<1>3. PICK s : s = order[Pair(op)]
  OBVIOUS
<1>4. s \in Seq(Keys) /\ Len(s) \in Nat /\ DOMAIN s = 1..Len(s)
  BY <1>1, <1>2, <1>3, LenProperties DEF TableTypeOK
<1>5. Distinct(s)
  BY <1>1, <1>2, <1>3 DEF OrderExact, Distinct
<1>6. Admitted(Key(op)) => operations[Key(op)] = op
  BY <1>1, <1>2, WorkloadIs DEF TableRouted, TableTypeOK, Routes, RuntimeInv, Shape
<1>7. Admitted(Key(op)) => \E i \in DOMAIN s : s[i] = Key(op)
  BY <1>1, <1>2, <1>3, <1>4, <1>6 DEF OrderExact
<1>8. \A i \in DOMAIN s : Admitted(s[i])
  BY <1>1, <1>2, <1>3, <1>4 DEF OrderExact
<1>9. s # <<>> => Head(s) = s[1] /\ 1 \in DOMAIN s
  BY <1>4, HeadTailProperties, EmptySeq
<1> QED
  BY <1>1, <1>3, <1>4, <1>5, <1>6, <1>7, <1>8, <1>9 DEF IsHead

(* Routes with the same key are the same.                                  *)
LEMMA RoutesDiffer ==
    ASSUME RuntimeInv, NEW op1 \in Routes, NEW op2 \in Routes, Key(op1) = Key(op2)
    PROVE  op1 = op2
BY WorkloadIs DEF Routes, RuntimeInv, Shape

(* What an admission does to the order of its pair.                        *)
LEMMA AdmitsIs ==
    ASSUME RuntimeInv, TableRouted, NEW new, TableAdmits(new), NEW op \in Routes
    PROVE  /\ Admitted(Key(op))' <=> Admitted(Key(op)) \/ op = new
           /\ IsHead(op) => IsHead(op)'
           /\ order[Pair(new)] = <<>> => IsHead(new)'
           /\ \A i \in DOMAIN order'[Pair(op)] :
                \/ i \in DOMAIN order[Pair(op)] /\ order'[Pair(op)][i] = order[Pair(op)][i]
                \/ /\ order'[Pair(op)][i] = Key(new)
                   /\ \A j \in DOMAIN order[Pair(op)] : j < i
           /\ \A i, j \in DOMAIN order'[Pair(op)] :
                i < j => i \in DOMAIN order[Pair(op)]
<1>1. new \in Routes
  BY DEF TableAdmits
<1>2. /\ operations' = [operations EXCEPT ![Key(new)] = new]
      /\ order' = [order EXCEPT ![Pair(new)] = Append(@, Key(new))]
  BY DEF TableAdmits
<1>3. /\ operations \in [Keys -> Operations \cup {None}] /\ order \in [Pairs -> Seq(Keys)]
      /\ new \in Operations /\ new # None
  BY <1>1, WorkloadIs, NoneAssumption
     DEF RuntimeInv, RelayInv, TableInv, TableTypeOK, Shape, Routes
<1>4. PICK s, n, k, p : s = order[Pair(op)] /\ n = order[Pair(new)] /\ k = Key(new) /\ p = Pair(new)
  OBVIOUS
<1>5. /\ s \in Seq(Keys) /\ Len(s) \in Nat /\ DOMAIN s = 1..Len(s) /\ Key(op) \in Keys
      /\ Pair(op) \in Pairs /\ (IsHead(op) <=> s # <<>> /\ s[1] = Key(op))
  BY <1>4, InOrder
<1>6. n \in Seq(Keys) /\ k \in Keys /\ p \in Pairs
  BY <1>1, <1>4, InOrder
<1>7. /\ Append(n, k) \in Seq(Keys) /\ DOMAIN Append(n, k) = 1..(Len(n) + 1) /\ Len(n) \in Nat
      /\ \A i \in 1..Len(n) : Append(n, k)[i] = n[i]
      /\ Append(n, k)[Len(n) + 1] = k /\ DOMAIN n = 1..Len(n)
      /\ Append(n, k) # <<>> /\ Head(Append(n, k)) = Append(n, k)[1]
  BY <1>6, AppendProperties, HeadTailProperties, EmptySeq
<1>8. order'[p] = Append(n, k) /\ (Pair(op) # p => order'[Pair(op)] = s)
  BY <1>2, <1>3, <1>4, <1>5, <1>6
<1>9. Admitted(Key(op))' <=> Admitted(Key(op)) \/ op = new
  BY <1>1, <1>2, <1>3, <1>5, RoutesDiffer DEF Admitted
<1>10. order[Pair(new)] = <<>> => IsHead(new)'
  <2> SUFFICES ASSUME n = <<>> PROVE IsHead(new)'
    BY <1>4
  <2>1. Len(n) = 0
    BY <1>6, EmptySeq
  <2>2. Append(n, k)[1] = k
    BY <1>7, <2>1
  <2> QED
    BY <1>4, <1>7, <1>8, <2>2 DEF IsHead
<1>11. CASE Pair(op) # p
  <2>1. IsHead(op)' <=> IsHead(op)
    BY <1>4, <1>8, <1>11 DEF IsHead
  <2> QED
    BY <1>4, <1>8, <1>9, <1>10, <1>11, <2>1
<1>12. CASE Pair(op) = p
  <2>1. s = n /\ order'[Pair(op)] = Append(n, k)
    BY <1>4, <1>8, <1>12
  <2>2. n # <<>> => 1 \in 1..Len(n)
    BY <1>6, <1>7, EmptySeq
  <2>3. IsHead(op) => IsHead(op)'
    BY <1>5, <1>7, <2>1, <2>2 DEF IsHead
  <2>4. \A i \in DOMAIN order'[Pair(op)] :
            \/ i \in DOMAIN s /\ order'[Pair(op)][i] = s[i]
            \/ order'[Pair(op)][i] = k /\ \A j \in DOMAIN s : j < i
    BY <1>7, <2>1
  <2>5. \A i, j \in DOMAIN order'[Pair(op)] : i < j => i \in DOMAIN s
    BY <1>7, <2>1
  <2> QED
    BY <1>4, <1>9, <1>10, <2>3, <2>4, <2>5
<1> QED
  BY <1>11, <1>12

(* The release of the head moves its order up.                             *)
LEMMA ReleasesIs ==
    ASSUME RuntimeInv, TableRouted, NEW old, TableReleases(old), IsHead(old), NEW op \in Routes
    PROVE  /\ Admitted(Key(op))' <=> Admitted(Key(op)) /\ op # old
           /\ IsHead(op) /\ op # old => IsHead(op)'
           /\ Pair(op) # Pair(old) => order'[Pair(op)] = order[Pair(op)]
           /\ DOMAIN order'[Pair(old)] = 1..(Len(order[Pair(old)]) - 1)
           /\ \A i \in DOMAIN order'[Pair(old)] :
                /\ i + 1 \in DOMAIN order[Pair(old)]
                /\ order'[Pair(old)][i] = order[Pair(old)][i + 1]
<1>1. old \in Routes
  BY DEF TableReleases
<1>2. /\ operations' = [operations EXCEPT ![Key(old)] = None]
      /\ order' = [order EXCEPT ![Pair(old)] = RemoveFirst(@, Key(old))]
  BY DEF TableReleases
<1>3. /\ operations \in [Keys -> Operations \cup {None}] /\ order \in [Pairs -> Seq(Keys)]
  BY DEF RuntimeInv, RelayInv, TableInv, TableTypeOK
<1>4. PICK s, k, p : s = order[Pair(old)] /\ k = Key(old) /\ p = Pair(old)
  OBVIOUS
<1>5. /\ s \in Seq(Keys) /\ Len(s) \in Nat /\ DOMAIN s = 1..Len(s) /\ k \in Keys /\ p \in Pairs
      /\ Distinct(s) /\ s # <<>> /\ s[1] = k
  BY <1>1, <1>4, InOrder
<1>6. 1 \in 1..Len(s)
  BY <1>5, EmptySeq
<1>7. ShiftedUp(Keys, s, RemoveFirst(s, k), 1)
  BY <1>5, <1>6, RemoveFirstShape
<1>8. PICK r : r = RemoveFirst(s, k)
  OBVIOUS
<1>9. /\ r \in Seq(Keys) /\ Len(r) = Len(s) - 1 /\ DOMAIN r = 1..(Len(s) - 1)
      /\ \A i \in 1..(Len(s) - 1) : r[i] = s[i + 1]
  BY <1>7, <1>8, LenProperties DEF ShiftedUp
<1>10. order'[p] = r
  BY <1>2, <1>3, <1>4, <1>5, <1>8
<1>11. Key(op) \in Keys /\ Pair(op) \in Pairs
       /\ (IsHead(op) <=> order[Pair(op)] # <<>> /\ order[Pair(op)][1] = Key(op))
  BY InOrder
<1>12. Pair(op) # p => order'[Pair(op)] = order[Pair(op)]
  BY <1>2, <1>3, <1>4, <1>11
<1>13. IsHead(op) /\ op # old => IsHead(op)'
  <2> SUFFICES ASSUME IsHead(op), op # old PROVE IsHead(op)'
    OBVIOUS
  <2>1. Pair(op) # p
    BY <1>1, <1>4, <1>5, <1>11, RoutesDiffer
  <2> QED
    BY <1>12, <2>1 DEF IsHead
<1>14. Admitted(Key(op))' <=> Admitted(Key(op)) /\ op # old
  BY <1>1, <1>2, <1>3, <1>11, RoutesDiffer DEF Admitted
<1> QED
  BY <1>4, <1>5, <1>9, <1>10, <1>12, <1>13, <1>14

(* A terminated destination or the loss of authority takes only whole      *)
(* orders away.                                                            *)
LEMMA EmptiesIs ==
    ASSUME RuntimeInv, RuntimeInv', TableRouted', UNCHANGED scenario, TableEmpties, NEW op \in Routes
    PROVE  /\ Admitted(Key(op))' => Admitted(Key(op))
           /\ Admitted(Key(op))' => order'[Pair(op)] = order[Pair(op)]
           /\ IsHead(op) => IsHead(op)' \/ Closed(op.destination)'
<1>1. op \in Workload' /\ op \in Operations /\ Key(op) \in Keys /\ Pair(op) \in Pairs
  BY WorkloadIs, KeyTypes DEF Routes, Workload, RuntimeInv, Shape
<1>2. /\ operations' \in [Keys -> Operations \cup {None}]
      /\ \A key \in Keys : operations'[key] # None => Key(operations'[key]) = key
      /\ \A key \in Keys : operations'[key] # None /\ Pair(operations'[key]) = Pair(op)
            => \E i \in 1..Len(order'[Pair(op)]) : order'[Pair(op)][i] = key
      /\ \A key \in Keys : operations'[key] # None => operations'[key] \in Workload'
  BY <1>1 DEF RuntimeInv, RelayInv, TableInv, TableTypeOK, OrderExact, TableRouted, Admitted
<1>3. Admitted(Key(op))' => Admitted(Key(op))
  BY <1>1 DEF TableEmpties, Admitted
<1>4. Admitted(Key(op))' => order'[Pair(op)] # <<>>
  <2> SUFFICES ASSUME operations'[Key(op)] # None PROVE order'[Pair(op)] # <<>>
    BY DEF Admitted
  <2>1. operations'[Key(op)] = op
    BY <1>1, <1>2, WorkloadIs DEF Workload, RuntimeInv, Shape
  <2>2. PICK i \in 1..Len(order'[Pair(op)]) : TRUE
    BY <1>1, <1>2, <2>1
  <2>3. Len(<<>>) = 0
    OBVIOUS
  <2> QED
    BY <2>2, <2>3
<1> QED
  BY <1>3, <1>4 DEF TableEmpties, IsHead

TablePart == ClosedEmpty /\ OrderKnown /\ OrderOld

(* A relay of a steady pair is released at the head of its order.          *)
TableStep ==
    \/ TableSame
    \/ \E op : TableAdmits(op)
    \/ \E op : TableReleases(op) /\ (op \in Steady => IsHead(op))
    \/ TableEmpties

(* The log of admissions only grows.                                       *)
LEMMA TableLogs ==
    ASSUME RuntimeInv, TableStep
    PROVE  AdmissionsStep /\ admissions \in Seq(Keys)
<1>1. ASSUME NEW op, TableAdmits(op) PROVE Key(op) \in Keys
  BY <1>1, WorkloadIs DEF TableAdmits, Routes, RuntimeInv, Shape
<1> QED
  BY <1>1 DEF TableStep, TableSame, TableAdmits, TableReleases, TableEmpties, AdmissionsStep,
              RuntimeInv, Shape

(* The table part survives a step that leaves the table alone,             *)
LEMMA TableSameKeeps ==
    ASSUME TablePart, TableSame, UNCHANGED scenario, RuntimeInv
    PROVE  TablePart'
<1>1. Routes' = Routes /\ \A op \in Steady' : op \in Steady
  BY SteadyLess DEF TableSame, AdmissionsStep, RuntimeInv, Shape
<1>2. \A op \in Routes : op.destination \in Remotes
  BY DEF Routes
<1>3. ClosedEmpty'
  BY <1>1, <1>2 DEF TablePart, ClosedEmpty, TableSame, SameClosed
<1>4. OrderKnown'
  BY <1>1 DEF TablePart, OrderKnown, TableSame, Admitted, Known
<1>5. OrderOld'
  BY <1>1 DEF TablePart, OrderOld, TableSame, AdmittedBefore
<1> QED
  BY <1>3, <1>4, <1>5 DEF TablePart

(* an admission at the end of its order,                                   *)
LEMMA TableAdmitsKeeps ==
    ASSUME TablePart, NEW new, TableAdmits(new), UNCHANGED scenario, RuntimeInv, TableRouted
    PROVE  TablePart'
<1>1. new \in Routes /\ Key(new) \in Keys /\ admissions \in Seq(Keys)
      /\ admissions' = Append(admissions, Key(new))
  BY InOrder DEF TableAdmits, RuntimeInv, Shape
<1>2. AdmissionsStep
  BY <1>1 DEF AdmissionsStep
<1>3. Routes' = Routes /\ \A op \in Steady' : op \in Steady /\ op \in Routes
  BY <1>1, <1>2, SteadyLess DEF Steady
<1>4. \A op \in Routes : op.destination \in Remotes
  BY DEF Routes
<1>5. ClosedEmpty'
  <2> SUFFICES ASSUME NEW op \in Routes, Closed(op.destination)'
               PROVE  order'[Pair(op)] = <<>>
    BY <1>3 DEF ClosedEmpty
  <2>1. Closed(op.destination)
    BY <1>4 DEF TableAdmits, SameClosed
  <2>2. Pair(op) # Pair(new)
    BY <2>1, PairEnds DEF TableAdmits
  <2>3. order \in [Pairs -> Seq(Keys)] /\ Pair(op) \in Pairs
    BY InOrder DEF RuntimeInv, RelayInv, TableInv, TableTypeOK
  <2>4. order'[Pair(op)] = order[Pair(op)]
    BY <2>2, <2>3 DEF TableAdmits
  <2> QED
    BY <2>1, <2>4 DEF TablePart, ClosedEmpty
<1>6. OrderKnown'
  <2> SUFFICES ASSUME NEW op \in Routes, Admitted(Key(op))'
               PROVE  Known(Key(op))'
    BY <1>3 DEF OrderKnown
  <2>1. Admitted(Key(op)) \/ op = new
    BY AdmitsIs
  <2> QED
    BY <1>1, <2>1, LogAppended DEF TablePart, OrderKnown
<1>7. OrderOld'
  <2> SUFFICES ASSUME NEW op1 \in Steady', NEW op2 \in Steady', Pair(op1) = Pair(op2),
                      NEW s, s = order'[Pair(op1)], NEW i \in DOMAIN s, NEW j \in DOMAIN s,
                      i < j, s[i] = Key(op1), s[j] = Key(op2)
               PROVE  AdmittedBefore(Key(op1), Key(op2))'
    BY DEF OrderOld
  <2>1. op1 \in Steady /\ op2 \in Steady /\ op1 \in Routes /\ op2 \in Routes
    BY <1>3
  <2>2. i \in DOMAIN order[Pair(op1)]
    BY <2>1, AdmitsIs
  <2>3. DOMAIN order[Pair(op1)] \subseteq Nat
    BY <2>1, InOrder
  <2>4. order[Pair(op1)][i] = Key(op1)
    BY <2>1, <2>2, <2>3, AdmitsIs
  <2>5. CASE j \in DOMAIN order[Pair(op1)] /\ order[Pair(op1)][j] = Key(op2)
    BY <1>1, <1>2, <2>1, <2>2, <2>4, <2>5, LogGrows DEF TablePart, OrderOld
  <2>6. CASE Key(op2) = Key(new)
    <3>1. Admitted(Key(op1))
      BY <2>1, <2>2, <2>4, InOrder
    <3>2. Known(Key(op1))
      BY <2>1, <3>1 DEF TablePart, OrderKnown
    <3> QED
      BY <1>1, <2>6, <3>2, LogAppended
  <2> QED
    BY <2>1, <2>5, <2>6, AdmitsIs
<1> QED
  BY <1>5, <1>6, <1>7 DEF TablePart

(* a release from the head of its order,                                   *)
LEMMA TableReleasesKeeps ==
    ASSUME TablePart, NEW old, TableReleases(old), old \in Steady => IsHead(old),
           UNCHANGED scenario, RuntimeInv, TableRouted
    PROVE  TablePart'
<1>1. old \in Routes /\ admissions' = admissions
  BY DEF TableReleases
<1>2. Routes' = Routes /\ \A op \in Steady' : op \in Steady /\ op \in Routes
  BY <1>1, SteadyLess DEF Steady, AdmissionsStep, RuntimeInv, Shape
<1>3. \A op \in Routes : op.destination \in Remotes
  BY DEF Routes
<1>4. /\ operations \in [Keys -> Operations \cup {None}] /\ order \in [Pairs -> Seq(Keys)]
      /\ \A op \in Routes : Pair(op) \in Pairs /\ Key(op) \in Keys
  BY InOrder DEF RuntimeInv, RelayInv, TableInv, TableTypeOK
<1>5. \A op \in Routes : Pair(op) # Pair(old) => order'[Pair(op)] = order[Pair(op)]
  BY <1>4 DEF TableReleases
<1>6. ClosedEmpty'
  <2> SUFFICES ASSUME NEW op \in Routes, Closed(op.destination)'
               PROVE  order'[Pair(op)] = <<>>
    BY <1>2 DEF ClosedEmpty
  <2>1. Closed(op.destination) /\ order[Pair(op)] = <<>>
    BY <1>3 DEF TableReleases, SameClosed, TablePart, ClosedEmpty
  <2>2. order[Pair(old)] # <<>>
    <3>1. \E i \in DOMAIN order[Pair(old)] : TRUE
      BY <1>1, InOrder DEF TableReleases
    <3>2. DOMAIN <<>> = {}
      OBVIOUS
    <3> QED
      BY <3>1, <3>2
  <2> QED
    BY <1>5, <2>1, <2>2
<1>7. OrderKnown'
  <2>1. \A op \in Routes : Admitted(Key(op))' => Admitted(Key(op))
    BY <1>4 DEF TableReleases, Admitted
  <2> QED
    BY <1>1, <1>2, <2>1 DEF TablePart, OrderKnown, Known
<1>8. OrderOld'
  <2> SUFFICES ASSUME NEW op1 \in Steady', NEW op2 \in Steady', Pair(op1) = Pair(op2),
                      NEW s, s = order'[Pair(op1)], NEW i \in DOMAIN s, NEW j \in DOMAIN s,
                      i < j, s[i] = Key(op1), s[j] = Key(op2)
               PROVE  AdmittedBefore(Key(op1), Key(op2))'
    BY DEF OrderOld
  <2>1. op1 \in Steady /\ op2 \in Steady /\ op1 \in Routes /\ op2 \in Routes
    BY <1>2
  <2>2. AdmittedBefore(Key(op1), Key(op2)) => AdmittedBefore(Key(op1), Key(op2))'
    BY <1>1 DEF AdmittedBefore
  <2>3. CASE Pair(op1) # Pair(old)
    <3>1. s = order[Pair(op1)]
      BY <1>5, <2>1, <2>3
    <3> QED
      BY <2>1, <2>2, <3>1 DEF TablePart, OrderOld
  <2>4. CASE Pair(op1) = Pair(old)
    <3>1. IsHead(old)
      BY <1>1, <2>1, <2>4 DEF Steady
    <3>2. PICK w : w = order[Pair(old)]
      OBVIOUS
    <3>3. /\ DOMAIN s = 1..(Len(w) - 1)
          /\ \A n \in DOMAIN s : n + 1 \in DOMAIN w /\ s[n] = w[n + 1]
          /\ Len(w) \in Nat
      BY <1>1, <2>4, <3>1, <3>2, ReleasesIs, InOrder
    <3>4. /\ i + 1 \in DOMAIN w /\ j + 1 \in DOMAIN w /\ i + 1 < j + 1
          /\ w[i + 1] = Key(op1) /\ w[j + 1] = Key(op2)
      BY <3>3
    <3> QED
      BY <2>1, <2>2, <2>4, <3>2, <3>4 DEF TablePart, OrderOld
  <2> QED
    BY <2>3, <2>4
<1> QED
  BY <1>6, <1>7, <1>8 DEF TablePart

(* the removal of all relays towards a peer,                               *)
LEMMA TableEmptiesKeeps ==
    ASSUME TablePart, TableEmpties, UNCHANGED scenario, RuntimeInv, RuntimeInv', TableRouted'
    PROVE  TablePart'
<1>1. admissions' = admissions
  BY DEF TableEmpties
<1>2. Routes' = Routes /\ \A op \in Steady' : op \in Steady /\ op \in Routes
  BY <1>1, SteadyLess DEF Steady, AdmissionsStep, RuntimeInv, Shape
<1>3. ClosedEmpty'
  BY <1>2 DEF TablePart, ClosedEmpty, TableEmpties
<1>4. OrderKnown'
  <2>1. \A op \in Routes : Admitted(Key(op))' => Admitted(Key(op))
    BY EmptiesIs
  <2> QED
    BY <1>1, <1>2, <2>1 DEF TablePart, OrderKnown, Known
<1>5. OrderOld'
  <2> SUFFICES ASSUME NEW op1 \in Steady', NEW op2 \in Steady', Pair(op1) = Pair(op2),
                      NEW s, s = order'[Pair(op1)], NEW i \in DOMAIN s, NEW j \in DOMAIN s,
                      i < j, s[i] = Key(op1), s[j] = Key(op2)
               PROVE  AdmittedBefore(Key(op1), Key(op2))'
    BY DEF OrderOld
  <2>1. op1 \in Steady /\ op2 \in Steady /\ op1 \in Routes
    BY <1>2
  <2>2. AdmittedBefore(Key(op1), Key(op2)) => AdmittedBefore(Key(op1), Key(op2))'
    BY <1>1 DEF AdmittedBefore
  <2>3. DOMAIN <<>> = {}
    OBVIOUS
  <2>4. s = order[Pair(op1)]
    BY <2>1, <2>3 DEF TableEmpties
  <2> QED
    BY <2>1, <2>2, <2>4 DEF TablePart, OrderOld
<1> QED
  BY <1>3, <1>4, <1>5 DEF TablePart

(* and so any step.                                                        *)
LEMMA TablePartKeeps ==
    ASSUME TablePart, TableStep, UNCHANGED scenario, RuntimeInv, RuntimeInv',
           TableRouted, TableRouted'
    PROVE  TablePart'
BY TableSameKeeps, TableAdmitsKeeps, TableReleasesKeeps, TableEmptiesKeeps DEF TableStep

-----------------------------------------------------------------------------
(* The inductive invariant                                                 *)

OrderedHead ==
    \A op \in Steady : op.mode = "ordered" /\ About(Key(op)) =>
        Known(Key(op)) /\ (Admitted(Key(op)) => IsHead(op))
AckedOne == \A op \in Acked : OneOK(op)
AckedHead == \A op \in Acked : Active(op) => Closed(op.destination) \/ IsHead(op)

OrderInv ==
    /\ TablePart /\ OrderedHead /\ AckedOne /\ AckedHead /\ MovingKnown
    /\ Turns /\ Missed /\ WireOrder /\ Received

CalmAbout(op) == \A t \in TaskIds : AboutBy(tasks'[t], Key(op)) => AboutBy(tasks[t], Key(op))

(* The table hands the operation out as the new head of its order.         *)
GivenOut(op) ==
    /\ IsHead(op)' /\ Admitted(Key(op))'
    /\ \/ TableAdmits(op) /\ order[Pair(op)] = <<>>
       \/ \E old : TableReleases(old) /\ Pair(old) = Pair(op) /\ old # op

(* What a step does with one operation.                                    *)
OpStep(op) ==
    /\ op.mode = "ordered" => CalmAbout(op) \/ (IsHead(op)' /\ Admitted(Key(op))')
    /\ op.mode = "acked" =>
        Calm(op) \/ Starts(op) \/ Begins(op) \/ (Handed(op) /\ GivenOut(op))

(* The last handler or hop the operation was waiting for is done with it.  *)
Spent(op) ==
    \/ \E t \in TaskIds : HoldsBy(tasks[t], Key(op)) /\ ~HoldsBy(tasks'[t], Key(op))
    \/ \E hop \in Hops :
        /\ hop[1] = Key(op) /\ retained[hop] # None /\ retained'[hop] = None
        /\ On(op) \/ retained[hop].state = "awaiting"
Released(op) ==
    /\ op.mode = "acked" => Spent(op) /\ Calm(op)
    /\ op.mode = "ordered" => About(Key(op))

TableMove ==
    \/ TableSame
    \/ \E op : TableAdmits(op)
    \/ \E op : TableReleases(op) /\ Released(op)
    \/ TableEmpties

OrderStep ==
    /\ TableMove
    /\ AirStep
    /\ \A op \in Steady : OpStep(op)
    /\ UNCHANGED scenario

(* An operation is released while it is active, and is not active          *)
(* afterwards.                                                             *)
LEMMA SpentIsActive ==
    ASSUME NEW op, OneOK(op), Spent(op), Calm(op)
    PROVE  Active(op) /\ ~Active(op)'
<1>1. PICK key : key = Key(op)
  OBVIOUS
<1>2. /\ \A t \in TaskIds : Softer(key, tasks'[t], tasks[t])
      /\ KeptLess(key)
      /\ Sent(key)' => On(op)' \/ (On(op) => On(op)')
  BY <1>1 DEF Calm
<1>3. Active(op)' <=> Held(key)' \/ Kept(key)' \/ (Sent(key)' /\ ~On(op)')
  BY <1>1 DEF Active
<1>4. ASSUME NEW t \in TaskIds, HoldsBy(tasks[t], key), ~HoldsBy(tasks'[t], key)
      PROVE  Active(op) /\ ~Active(op)'
  <2>1. Held(key) /\ ~Kept(key) /\ (Sent(key) => On(op))
    BY <1>1, <1>4 DEF OneOK, Held
  <2>2. ~Held(key)'
    BY <1>1, <1>2, <1>4 DEF OneOK, Held, Softer
  <2>3. ~Kept(key)'
    BY <1>2, <2>1 DEF Kept, KeptLess
  <2>4. Sent(key)' => Sent(key)
    BY <1>2 DEF Sent, Softer
  <2> QED
    BY <1>1, <1>2, <1>3, <2>1, <2>2, <2>3, <2>4 DEF Active
<1>5. ASSUME NEW hop \in Hops, hop[1] = key, retained[hop] # None, retained'[hop] = None,
             On(op) \/ retained[hop].state = "awaiting"
      PROVE  Active(op) /\ ~Active(op)'
  <2>1. Kept(key) /\ ~Held(key)
    BY <1>1, <1>5 DEF OneOK, Kept
  <2>2. ~Held(key)'
    BY <1>2, <2>1 DEF Held, Softer
  <2>3. ~Kept(key)'
    BY <1>1, <1>2, <1>5 DEF OneOK, Kept, KeptLess
  <2>4. Sent(key)' => On(op)
    BY <1>1, <1>2, <1>5 DEF OneOK, Sent, Softer
  <2> QED
    BY <1>1, <1>2, <1>3, <2>1, <2>2, <2>3, <2>4 DEF Active
<1> QED
  BY <1>1, <1>4, <1>5 DEF Spent

(* A relay of a steady pair is released at the head.                       *)
LEMMA ReleasedHead ==
    ASSUME RuntimeInv, TableRouted, OrderInv, NEW old, TableReleases(old), Released(old),
           old \in Steady
    PROVE  IsHead(old) /\ (old \in Acked => ~Active(old)')
<1>1. old \in Routes /\ Admitted(Key(old)) /\ old.mode \in {"acked", "ordered"}
  BY WorkloadIs DEF TableReleases, Routes, RuntimeInv, Shape, Operations, Modes
<1>2. CASE old.mode = "ordered"
  BY <1>1, <1>2 DEF OrderInv, OrderedHead, Released, Acked
<1>3. CASE old.mode = "acked"
  <2>1. old \in Acked
    BY <1>3 DEF Acked
  <2>2. Active(old) /\ ~Active(old)'
    BY <1>3, <2>1, SpentIsActive DEF OrderInv, AckedOne, Released
  <2>3. ~Closed(old.destination)
    <3>1. order[Pair(old)] # <<>>
      <4>1. \E i \in DOMAIN order[Pair(old)] : TRUE
        BY <1>1, InOrder
      <4>2. DOMAIN <<>> = {}
        OBVIOUS
      <4> QED
        BY <4>1, <4>2
    <3> QED
      BY <1>1, <3>1 DEF OrderInv, TablePart, ClosedEmpty
  <2> QED
    BY <2>1, <2>2, <2>3 DEF OrderInv, AckedHead
<1> QED
  BY <1>1, <1>2, <1>3

(* Hence relays of a steady pair are only released from the head.          *)
LEMMA MoveIsStep ==
    ASSUME RuntimeInv, TableRouted, OrderInv, TableMove
    PROVE  TableStep
BY ReleasedHead DEF TableMove, TableStep

(* Steadiness belongs to the pair.                                         *)
LEMMA SteadyPair ==
    ASSUME NEW op1 \in Steady, NEW op2 \in Routes, Pair(op1) = Pair(op2)
    PROVE  op2 \in Steady
BY DEF Steady

(* A release concerns one pair only.                                       *)
LEMMA ReleaseElsewhere ==
    ASSUME RuntimeInv, TableRouted, NEW old, TableReleases(old),
           NEW op \in Routes, Pair(op) # Pair(old)
    PROVE  /\ order'[Pair(op)] = order[Pair(op)]
           /\ Admitted(Key(op))' <=> Admitted(Key(op))
           /\ IsHead(op)' <=> IsHead(op)
<1>1. /\ operations \in [Keys -> Operations \cup {None}] /\ order \in [Pairs -> Seq(Keys)]
      /\ Pair(op) \in Pairs /\ Key(op) \in Keys /\ old \in Routes
  BY InOrder DEF RuntimeInv, RelayInv, TableInv, TableTypeOK, TableReleases
<1>2. order'[Pair(op)] = order[Pair(op)]
  BY <1>1 DEF TableReleases
<1>3. Key(op) # Key(old)
  BY <1>1, RoutesDiffer
<1> QED
  BY <1>1, <1>2, <1>3 DEF TableReleases, Admitted, IsHead

(* What the table does for an operation of a steady pair.                  *)
LEMMA TableFor ==
    ASSUME RuntimeInv, RuntimeInv', TableRouted, TableRouted', OrderInv, TableMove,
           UNCHANGED scenario, NEW op \in Steady
    PROVE  /\ Known(Key(op)) => Known(Key(op))'
           /\ Admitted(Key(op))' => Admitted(Key(op)) \/ TableAdmits(op)
           /\ IsHead(op) /\ Admitted(Key(op))' => IsHead(op)'
           /\ \/ IsHead(op) \/ Closed(op.destination) =>
                    IsHead(op)' \/ Closed(op.destination)'
              \/ TableReleases(op) /\ Released(op)
<1>1. op \in Routes /\ op.destination \in Remotes
  BY DEF Steady, Routes
<1>2. Known(Key(op)) => Known(Key(op))'
  BY MoveIsStep, TableLogs, LogGrows
<1>3. CASE TableSame
  BY <1>1, <1>2, <1>3 DEF TableSame, SameClosed, Admitted, IsHead
<1>4. ASSUME NEW new, TableAdmits(new)
      PROVE  /\ Admitted(Key(op))' => Admitted(Key(op)) \/ TableAdmits(op)
             /\ IsHead(op) => IsHead(op)'
             /\ Closed(op.destination) => Closed(op.destination)'
  BY <1>1, <1>4, AdmitsIs DEF TableAdmits, SameClosed
<1>5. ASSUME NEW old, TableReleases(old), Released(old)
      PROVE  /\ Admitted(Key(op))' => Admitted(Key(op)) /\ op # old
             /\ IsHead(op) /\ op # old => IsHead(op)'
             /\ Closed(op.destination) => Closed(op.destination)'
  <2>1. old \in Routes
    BY <1>5 DEF TableReleases
  <2>2. Closed(op.destination) => Closed(op.destination)'
    BY <1>1, <1>5 DEF TableReleases, SameClosed
  <2>3. CASE Pair(old) = Pair(op)
    <3>1. old \in Steady
      BY <2>1, <2>3, SteadyPair
    <3>2. IsHead(old)
      BY <1>5, <3>1, ReleasedHead
    <3> QED
      BY <1>1, <1>5, <2>2, <3>2, ReleasesIs
  <2>4. CASE Pair(old) # Pair(op)
    BY <1>1, <1>5, <2>2, <2>4, ReleaseElsewhere
  <2> QED
    BY <2>3, <2>4
<1>6. CASE TableEmpties
  <2>1. /\ Admitted(Key(op))' => Admitted(Key(op))
        /\ Admitted(Key(op))' => order'[Pair(op)] = order[Pair(op)]
        /\ IsHead(op) => IsHead(op)' \/ Closed(op.destination)'
    BY <1>1, <1>6, EmptiesIs
  <2>2. IsHead(op) /\ Admitted(Key(op))' => IsHead(op)'
    BY <2>1 DEF IsHead
  <2> QED
    BY <1>1, <1>2, <1>6, <2>1, <2>2 DEF TableEmpties
<1> QED
  BY <1>2, <1>3, <1>4, <1>5, <1>6 DEF TableMove

(* An ordered relay that a handler is about to submit is the head of its   *)
(* order.                                                                  *)
LEMMA OrderedHeadKeeps ==
    ASSUME RuntimeInv, RuntimeInv', TableRouted, TableRouted', OrderInv, OrderStep, TablePart'
    PROVE  OrderedHead'
<1> SUFFICES ASSUME NEW op \in Steady', op.mode = "ordered", About(Key(op))'
             PROVE  Known(Key(op))' /\ (Admitted(Key(op))' => IsHead(op)')
  BY DEF OrderedHead
<1>1. op \in Steady /\ op \in Routes /\ op \in Workload' /\ Routes' = Routes
  BY MoveIsStep, TableLogs, SteadyLess DEF OrderStep, Steady, Routes
<1>2. CASE IsHead(op)' /\ Admitted(Key(op))'
  BY <1>1, <1>2 DEF TablePart, OrderKnown
<1>3. CASE CalmAbout(op)
  <2>1. About(Key(op))
    BY <1>3 DEF CalmAbout, About
  <2>2. Known(Key(op)) /\ (Admitted(Key(op)) => IsHead(op))
    BY <1>1, <2>1 DEF OrderInv, OrderedHead
  <2>3. ~TableAdmits(op)
    <3> SUFFICES ASSUME TableAdmits(op) PROVE FALSE
      OBVIOUS
    <3>1. Key(op) \in Keys /\ admissions \in Seq(Keys)
            /\ admissions' = Append(admissions, Key(op))
      BY <1>1, InOrder DEF TableAdmits, RuntimeInv, Shape
    <3>2. AdmittedBefore(Key(op), Key(op))'
      BY <2>2, <3>1, LogAppended
    <3> QED
      BY <1>1, <3>2 DEF Steady, OrderedOnce
  <2> QED
    BY <1>1, <2>2, <2>3, TableFor DEF OrderStep
<1> QED
  BY <1>1, <1>2, <1>3 DEF OrderStep, OpStep

(* What the table hands out was not on its way before.                     *)
LEMMA GivenWasIdle ==
    ASSUME RuntimeInv, TableRouted, OrderInv, OrderStep, NEW op \in Acked, GivenOut(op)
    PROVE  ~Active(op)
<1>1. op \in Routes /\ op \in Steady
  BY DEF Acked, Steady
<1>2. CASE TableAdmits(op) /\ order[Pair(op)] = <<>>
  BY <1>2 DEF OrderInv, AckedHead, TableAdmits, IsHead
<1>3. CASE \E old : TableReleases(old) /\ Pair(old) = Pair(op) /\ old # op
  <2>1. PICK old : TableReleases(old) /\ Pair(old) = Pair(op) /\ old # op
    BY <1>3
  <2>2. old \in Routes /\ old \in Steady /\ Admitted(Key(old)) /\ operations'[Key(old)] = None
    BY <1>1, <2>1, SteadyPair, InOrder DEF TableReleases, RuntimeInv, RelayInv, TableInv, TableTypeOK
  <2>3. Released(old)
    <3>1. admissions' = admissions /\ admissions \in Seq(Keys)
      BY <2>1 DEF TableReleases, RuntimeInv, Shape
    <3>2. ASSUME NEW x, TableAdmits(x) PROVE FALSE
      <4>1. x \in Routes /\ admissions = Append(admissions, Key(x))
        BY <3>1, <3>2 DEF TableAdmits
      <4>2. Key(x) \in Keys
        BY <4>1, InOrder
      <4>3. Len(admissions) = Len(admissions) + 1 /\ Len(admissions) \in Nat
        BY <3>1, <4>1, <4>2, AppendProperties, LenProperties
      <4> QED
        BY <4>3
    <3>3. ~TableSame
      BY <2>2 DEF TableSame, Admitted
    <3>4. ASSUME NEW x, TableReleases(x), Released(x) PROVE x = old
      <4>1. x \in Routes
        BY <3>4 DEF TableReleases
      <4>2. operations \in [Keys -> Operations \cup {None}] /\ Key(x) \in Keys /\ Key(old) \in Keys
        BY <2>2, <4>1, InOrder DEF RuntimeInv, RelayInv, TableInv, TableTypeOK
      <4>3. Key(x) = Key(old)
        BY <2>2, <3>4, <4>2 DEF TableReleases, Admitted
      <4> QED
        BY <2>2, <4>1, <4>3, RoutesDiffer
    <3>5. ~TableEmpties
      <4>1. order'[Pair(op)] # <<>>
        BY DEF GivenOut, IsHead
      <4>2. order'[Pair(op)] = order[Pair(op)] => FALSE
        <5>1. PICK s : s = order[Pair(old)]
          OBVIOUS
        <5>2. /\ s \in Seq(Keys) /\ Len(s) \in Nat /\ DOMAIN s = 1..Len(s) /\ Distinct(s)
              /\ Key(old) \in Keys /\ Pair(old) \in Pairs
              /\ \E i \in DOMAIN s : s[i] = Key(old)
          BY <2>2, <5>1, InOrder
        <5>3. PICK p \in 1..Len(s) : s[p] = Key(old)
          BY <5>2
        <5>4. ShiftedUp(Keys, s, RemoveFirst(s, Key(old)), p)
          BY <5>2, <5>3, RemoveFirstShape
        <5>5. Len(RemoveFirst(s, Key(old))) = Len(s) - 1
          BY <5>4 DEF ShiftedUp
        <5>6. order \in [Pairs -> Seq(Keys)]
          BY DEF RuntimeInv, RelayInv, TableInv, TableTypeOK
        <5>7. order'[Pair(old)] = RemoveFirst(s, Key(old))
          BY <2>1, <5>1, <5>2, <5>6 DEF TableReleases
        <5> QED
          BY <2>1, <5>1, <5>2, <5>5, <5>7
      <4> QED
        BY <1>1, <4>1, <4>2 DEF TableEmpties
    <3> QED
      BY <3>2, <3>3, <3>4, <3>5 DEF OrderStep, TableMove
  <2>4. IsHead(old)
    BY <2>1, <2>2, <2>3, ReleasedHead
  <2>5. ~IsHead(op)
    BY <1>1, <2>1, <2>2, <2>4, InOrder, RoutesDiffer
  <2>6. ~Closed(op.destination)
    <3>1. order[Pair(old)] # <<>> /\ old.destination = op.destination
      BY <2>1, <2>4, PairEnds DEF IsHead
    <3> QED
      BY <2>2, <3>1 DEF OrderInv, TablePart, ClosedEmpty
  <2> QED
    BY <2>5, <2>6 DEF OrderInv, AckedHead
<1> QED
  BY <1>2, <1>3 DEF GivenOut

(* Without being handed out, it does not become more active.               *)
LEMMA OneStep ==
    ASSUME RuntimeInv, TableRouted, OrderInv, OrderStep, NEW op \in Acked
    PROVE  /\ OneOK(op)'
           /\ \/ (Active(op)' => Active(op)) /\ (Moving(op)' => Moving(op))
              \/ GivenOut(op) /\ ~Active(op)
<1>1. OneOK(op) /\ op.mode = "acked" /\ op \in Steady /\ UNCHANGED scenario
  BY DEF OrderInv, AckedOne, Acked, Steady, OrderStep
<1>2. CASE Calm(op)
  BY <1>1, <1>2, CalmOne
<1>3. CASE Starts(op)
  BY <1>1, <1>3, StartsOne
<1>4. CASE Begins(op)
  BY <1>1, <1>4, BeginsOne
<1>5. CASE Handed(op) /\ GivenOut(op)
  BY <1>1, <1>5, GivenWasIdle, HandedOne
<1> QED
  BY <1>1, <1>2, <1>3, <1>4, <1>5 DEF OrderStep, OpStep

(* Acknowledged operations stay at most once on their way, as heads.       *)
LEMMA AckedKeeps ==
    ASSUME RuntimeInv, RuntimeInv', TableRouted, TableRouted', OrderInv, OrderStep, TablePart'
    PROVE  AckedOne' /\ AckedHead' /\ MovingKnown'
<1>1. /\ \A op \in Acked' : op \in Acked /\ op \in Steady /\ op \in Routes
      /\ Routes' = Routes
  BY MoveIsStep, TableLogs, SteadyLess DEF OrderStep, Acked, Steady
<1>2. AckedOne'
  BY <1>1, OneStep DEF AckedOne
<1>3. ASSUME NEW op \in Acked', Active(op)'
      PROVE  Closed(op.destination)' \/ IsHead(op)'
  <2>1. CASE GivenOut(op)
    BY <2>1 DEF GivenOut
  <2>2. CASE ~GivenOut(op)
    <3>1. Active(op)
      BY <1>1, <1>3, <2>2, OneStep
    <3>2. Closed(op.destination) \/ IsHead(op)
      BY <1>1, <3>1 DEF OrderInv, AckedHead
    <3>3. ~(TableReleases(op) /\ Released(op))
      BY <1>1, <1>3, ReleasedHead
    <3> QED
      BY <1>1, <3>2, <3>3, TableFor DEF OrderStep
  <2> QED
    BY <2>1, <2>2
<1>4. ASSUME NEW op \in Acked', Moving(op)'
      PROVE  Known(Key(op))'
  <2>1. CASE GivenOut(op)
    BY <1>1, <2>1 DEF GivenOut, TablePart, OrderKnown
  <2>2. CASE ~GivenOut(op)
    <3>1. Moving(op)
      BY <1>1, <1>4, <2>2, OneStep
    <3>2. Known(Key(op))
      BY <1>1, <3>1 DEF OrderInv, MovingKnown
    <3> QED
      BY <1>1, <3>2, TableFor DEF OrderStep
  <2> QED
    BY <2>1, <2>2
<1> QED
  BY <1>2, <1>3, <1>4 DEF AckedHead, MovingKnown

(* The younger of two operations still waits for its turn.                 *)
LEMMA TurnsKeeps ==
    ASSUME RuntimeInv, RuntimeInv', TableRouted, TableRouted', OrderInv, OrderStep, TablePart'
    PROVE  Turns'
<1> SUFFICES ASSUME NEW op1 \in Acked', NEW op2 \in Acked', Sisters(op1, op2), Older(op2, op1)',
                    Admitted(Key(op2))' \/ Active(op2)', Moving(op1)'
             PROVE  FALSE
  BY DEF Turns, Sisters
<1>1. /\ AdmissionsStep /\ admissions \in Seq(Keys) /\ UNCHANGED scenario
      /\ Routes' = Routes /\ Workload' = Workload
  BY MoveIsStep, TableLogs, SteadyLess DEF OrderStep
<1>2. /\ op1 \in Acked /\ op2 \in Acked /\ (Older(op2, op1) \/ ~Moving(op1))
  BY <1>1, OlderBefore DEF OrderInv
<1>3. op1 \in Steady /\ op2 \in Steady /\ op1 \in Routes /\ op2 \in Routes
      /\ Pair(op1) = Pair(op2) /\ op1 # op2 /\ op1 \in Steady' /\ op2 \in Steady'
  BY <1>2 DEF Acked, Steady, Sisters
<1>4. ~AdmittedBefore(Key(op1), Key(op2))' /\ Known(Key(op1))'
  BY DEF Older
<1>5. order'[Pair(op1)] \in Seq(Keys) /\ Pair(op1) \in Pairs
  BY <1>3, InOrder DEF RuntimeInv, RelayInv, TableInv, TableTypeOK
<1>6. CASE ~GivenOut(op1)
  <2>1. Moving(op1)
    BY <1>2, <1>6, OneStep
  <2>2. Older(op2, op1)
    BY <1>2, <2>1
  <2>3. ~Admitted(Key(op2)) /\ ~Active(op2)
    BY <1>2, <2>1, <2>2 DEF OrderInv, Turns
  <2>4. Admitted(Key(op2))'
    BY <1>2, <2>3, OneStep DEF GivenOut
  <2>5. TableAdmits(op2)
    BY <1>3, <2>3, <2>4, TableFor DEF OrderStep
  <2>6. Key(op2) \in Keys /\ admissions' = Append(admissions, Key(op2))
    BY <1>3, <2>5, InOrder DEF TableAdmits
  <2>7. Known(Key(op1))
    BY <2>2 DEF Older
  <2>8. AdmittedBefore(Key(op1), Key(op2))'
    BY <1>1, <2>6, <2>7, LogAppended
  <2> QED
    BY <1>4, <2>8
<1>7. CASE GivenOut(op1)
  <2>1. PICK s : s = order'[Pair(op1)]
    OBVIOUS
  <2>2. s # <<>> /\ Head(s) = Key(op1) /\ s \in Seq(Keys)
    BY <1>5, <1>7, <2>1 DEF GivenOut, IsHead
  <2>3. Len(s) \in Nat /\ DOMAIN s = 1..Len(s) /\ 1 \in DOMAIN s /\ s[1] = Key(op1)
    BY <2>2, HeadTailProperties, EmptySeq, LenProperties
  <2>4. ~Admitted(Key(op2))'
    <3> SUFFICES ASSUME Admitted(Key(op2))' PROVE FALSE
      OBVIOUS
    <3>0. TableTypeOK' /\ OrderExact'
      BY DEF RuntimeInv, RelayInv, TableInv
    <3>a. /\ operations' \in [Keys -> Operations \cup {None}]
          /\ \A key \in Keys : operations'[key] # None => Key(operations'[key]) = key
      BY <3>0 DEF TableTypeOK, Admitted
    <3>b. \A key \in Keys : operations'[key] # None /\ Pair(operations'[key]) = Pair(op1)
                => \E i \in 1..Len(s) : s[i] = key
      BY <3>0, <1>5, <2>1 DEF OrderExact, Admitted
    <3>c. \A key \in Keys : operations'[key] # None => operations'[key] \in Workload'
      BY DEF TableRouted, Admitted
    <3>1. /\ operations' \in [Keys -> Operations \cup {None}]
          /\ \A key \in Keys : operations'[key] # None => Key(operations'[key]) = key
          /\ \A key \in Keys : operations'[key] # None /\ Pair(operations'[key]) = Pair(op1)
                => \E i \in 1..Len(s) : s[i] = key
          /\ \A key \in Keys : operations'[key] # None => operations'[key] \in Workload'
      BY <3>a, <3>b, <3>c
    <3>2. Key(op2) \in Keys /\ operations'[Key(op2)] # None /\ op2 \in Workload
      BY <1>3, InOrder DEF Admitted, Routes
    <3>3. operations'[Key(op2)] = op2
      BY <1>1, <3>1, <3>2, WorkloadIs DEF RuntimeInv, Shape
    <3>4. PICK i \in DOMAIN s : s[i] = Key(op2)
      BY <1>3, <2>3, <3>1, <3>2, <3>3
    <3>5. i # 1
      BY <1>3, <2>3, <3>4, RoutesDiffer
    <3>6. 1 < i
      BY <2>3, <3>4, <3>5
    <3>7. AdmittedBefore(Key(op1), Key(op2))'
      BY <1>3, <2>1, <2>3, <3>4, <3>6 DEF TablePart, OrderOld
    <3> QED
      BY <1>4, <3>7
  <2>5. Active(op2)' /\ Active(op2)
    BY <1>2, <2>4, OneStep DEF GivenOut
  <2>6. Closed(op2.destination) \/ IsHead(op2)
    BY <1>2, <2>5 DEF OrderInv, AckedHead
  <2>7. op1.destination = op2.destination
    BY <1>3, PairEnds
  <2>8. CASE TableAdmits(op1) /\ order[Pair(op1)] = <<>>
    BY <1>3, <2>6, <2>7, <2>8 DEF TableAdmits, IsHead
  <2>9. CASE \E old : TableReleases(old) /\ Pair(old) = Pair(op1) /\ old # op1
    <3>1. IsHead(op2)
      <4>1. PICK old : TableReleases(old) /\ Pair(old) = Pair(op1)
        BY <2>9
      <4>2. \E i \in DOMAIN order[Pair(old)] : TRUE
        BY <4>1, InOrder DEF TableReleases
      <4>3. DOMAIN <<>> = {}
        OBVIOUS
      <4>4. order[Pair(op2)] # <<>>
        BY <1>3, <4>1, <4>2, <4>3
      <4> QED
        BY <1>3, <2>6, <4>4 DEF OrderInv, TablePart, ClosedEmpty
    <3>2. ~IsHead(op2)'
      <4>1. Head(s) # Key(op2)
        BY <1>3, <2>2, RoutesDiffer
      <4> QED
        BY <1>3, <2>1, <4>1 DEF IsHead
    <3>3. ~Closed(op2.destination)'
      <4>1. op2 \in Routes'
        BY <1>1, <1>3
      <4>2. order'[Pair(op2)] # <<>>
        BY <1>3, <2>1, <2>2
      <4> QED
        BY <4>1, <4>2 DEF TablePart, ClosedEmpty
    <3>4. TableReleases(op2) /\ Released(op2)
      BY <1>3, <3>1, <3>2, <3>3, TableFor DEF OrderStep
    <3> QED
      BY <1>2, <1>3, <2>5, <3>4, ReleasedHead
  <2> QED
    BY <1>7, <2>8, <2>9 DEF GivenOut
<1> QED
  BY <1>6, <1>7

(* The invariant is inductive over the steps described above.              *)
LEMMA OrderStepKeeps ==
    ASSUME RuntimeInv, RuntimeInv', Routed, TableRouted', OrderInv, OrderStep
    PROVE  OrderInv'
<1>1. TableRouted /\ WireRouted /\ UNCHANGED scenario
  BY DEF Routed, OrderStep
<1>2. TableStep
  BY <1>1, MoveIsStep DEF OrderStep
<1>3. TablePart'
  BY <1>1, <1>2, TablePartKeeps DEF OrderInv
<1>4. OrderedHead' /\ AckedOne' /\ AckedHead' /\ MovingKnown' /\ Turns'
  BY <1>1, <1>3, OrderedHeadKeeps, AckedKeeps, TurnsKeeps
<1>5. AdmissionsStep
  BY <1>2, TableLogs
<1>6. Missed' /\ WireOrder' /\ Received'
  BY <1>1, <1>5, AirSameKeeps, AirAddsKeeps, AirLostKeeps, AirTakenKeeps
     DEF OrderInv, OrderStep, AirStep
<1> QED
  BY <1>3, <1>4, <1>6 DEF OrderInv

(* The invariant says what the property does.                              *)
LEMMA ReceivedIsOrdered ==
    ASSUME RuntimeInv, Routed, Received
    PROVE  AcknowledgedInOrder
<1> SUFFICES ASSUME NEW peer \in Remotes,
                    NEW i \in DOMAIN delivered[peer], NEW j \in DOMAIN delivered[peer],
                    OpOf(delivered[peer][i]).mode = "acked",
                    OpOf(delivered[peer][j]).mode = "acked",
                    OrderedOnce(Pair(OpOf(delivered[peer][i]))),
                    OrderedOnce(Pair(OpOf(delivered[peer][j]))),
                    i < j, delivered[peer][i][1] = delivered[peer][j][1]
             PROVE  AdmittedBefore(delivered[peer][i], delivered[peer][j])
  BY DEF AcknowledgedInOrder
<1>1. PICK op1 \in Workload : op1.destination = peer /\ Key(op1) = delivered[peer][i]
  BY DEF Routed, ReceivedRouted
<1>2. PICK op2 \in Workload : op2.destination = peer /\ Key(op2) = delivered[peer][j]
  BY DEF Routed, ReceivedRouted
<1>3. OpOf(delivered[peer][i]) = op1 /\ OpOf(delivered[peer][j]) = op2
  BY <1>1, <1>2, OpOfIs DEF RuntimeInv, Shape
<1>4. op1 \in Acked /\ op2 \in Acked
  BY <1>1, <1>2, <1>3 DEF Acked, Steady, Routes
<1>5. op1.source = op2.source
  BY <1>1, <1>2 DEF Key
<1>6. Pair(op1) = Pair(op2)
  BY <1>1, <1>2, <1>5 DEF Pair
<1> QED
  BY <1>1, <1>2, <1>4, <1>6 DEF Received

-----------------------------------------------------------------------------
(* What the steps have in common                                           *)

QuietFor(key) ==
    \A t \in TaskIds :
        /\ Softer(key, tasks'[t], tasks[t])
        /\ AboutBy(tasks'[t], key) => AboutBy(tasks[t], key)
StillKept(key) == KeptLess(key) /\ NotAwaited(key)
AirFlows ==
    \/ AirSame
    \/ \E op : AirAdds(op)
    \/ \E peer : AirTaken(peer) /\ UNCHANGED admissions

(* What is on the wire to a peer, or received by it, was sent to it.       *)
LEMMA AirRouted ==
    ASSUME RuntimeInv, Routed, AirStep, UNCHANGED scenario
    PROVE  WireRouted' /\ ReceivedRouted'
<1>1. Workload' = Workload /\ WireRouted /\ ReceivedRouted
  BY DEF Workload, Routed
<1>2. wire \in [Remotes -> Seq(AnyHops)] /\ Remotes \subseteq Peers
      /\ delivered \in [Peers -> Seq(Keys)]
  BY DEF RuntimeInv, Shape, Remotes
<1>3. SameGot => ReceivedRouted'
  BY <1>1 DEF SameGot, ReceivedRouted
<1>4. CASE AirSame
  BY <1>1, <1>3, <1>4 DEF AirSame, WireRouted
<1>5. ASSUME NEW op, AirAdds(op)
      PROVE  WireRouted' /\ ReceivedRouted'
  <2>1. op \in Workload /\ op.destination \in Remotes
    BY <1>5 DEF AirAdds, Routes
  <2>2. PICK hop \in AnyHops :
          hop[1] = Key(op) /\ wire' = [wire EXCEPT ![op.destination] = Append(@, hop)]
    BY <1>5 DEF AirAdds
  <2>3. PICK d, w : d = op.destination /\ w = wire[d]
    OBVIOUS
  <2>4. w \in Seq(AnyHops) /\ wire'[d] = Append(w, hop)
    BY <1>2, <2>1, <2>2, <2>3
  <2>5. /\ DOMAIN w = 1..Len(w) /\ Len(w) \in Nat
        /\ DOMAIN wire'[d] = 1..(Len(w) + 1)
        /\ \A i \in 1..Len(w) : wire'[d][i] = w[i]
        /\ wire'[d][Len(w) + 1] = hop
    BY <2>4, AppendProperties
  <2>6. \A i \in DOMAIN wire'[d] : i \in DOMAIN w \/ i = Len(w) + 1
    BY <2>5
  <2>7. \A peer \in Remotes \ {d} : wire'[peer] = wire[peer]
    BY <1>2, <2>2, <2>3
  <2>8. \A i \in DOMAIN wire'[d] : \E o \in Workload : o.destination = d /\ Key(o) = wire'[d][i][1]
    BY <1>1, <2>1, <2>2, <2>3, <2>5, <2>6 DEF WireRouted
  <2>9. WireRouted'
    BY <1>1, <2>7, <2>8 DEF WireRouted
  <2> QED
    BY <1>3, <1>5, <2>9 DEF AirAdds
<1>6. ASSUME NEW p, AirLost(p)
      PROVE  WireRouted' /\ ReceivedRouted'
  <2>1. \A peer \in Remotes : wire'[peer] = IF peer = p THEN <<>> ELSE wire[peer]
    BY <1>2, <1>6 DEF AirLost
  <2>2. DOMAIN <<>> = {}
    OBVIOUS
  <2> QED
    BY <1>1, <1>3, <1>6, <2>1, <2>2 DEF AirLost, WireRouted
<1>7. ASSUME NEW p, AirTaken(p)
      PROVE  WireRouted' /\ ReceivedRouted'
  <2>0. PICK w, w2 : w = wire[p] /\ w2 = wire'[p]
    OBVIOUS
  <2>1. PICK new \in Routes :
            /\ new.destination = p /\ Key(new) = wire[p][1][1]
            /\ delivered' = [delivered EXCEPT ![p] =
                    IF Got(new) THEN @ ELSE Append(@, Key(new))]
            /\ Len(w) \in Nat \ {0}
            /\ DOMAIN w = 1..Len(w)
            /\ DOMAIN w2 = 1..(Len(w) - 1)
            /\ \A i \in 1..(Len(w) - 1) : w2[i] = w[i + 1]
            /\ \A other \in Remotes \ {p} :
                wire'[other] = wire[other] /\ delivered'[other] = delivered[other]
    BY <1>1, <1>7, <2>0, AirTakenIs
  <2>2. new \in Workload /\ p \in Remotes /\ Key(new) \in Keys
    BY <2>1, InOrder DEF Routes, Routed
  <2>3. \A i \in DOMAIN w2 : i + 1 \in DOMAIN w /\ w2[i] = w[i + 1]
    BY <2>1
  <2>4. WireRouted'
    BY <1>1, <2>0, <2>1, <2>3 DEF WireRouted
  <2>5. PICK r, r2 : r = delivered[p] /\ r2 = delivered'[p]
    OBVIOUS
  <2>6. r \in Seq(Keys) /\ (r2 = r \/ r2 = Append(r, Key(new)))
    BY <1>2, <2>1, <2>2, <2>5
  <2>7. \A i \in DOMAIN r2 : (i \in DOMAIN r /\ r2[i] = r[i]) \/ r2[i] = Key(new)
    <3>1. PICK k : k = Key(new)
      OBVIOUS
    <3>2. k \in Keys /\ (r2 = r \/ r2 = Append(r, k))
      BY <2>2, <2>6, <3>1
    <3>3. CASE r2 = r
      BY <3>3
    <3>4. CASE r2 = Append(r, k)
      <4>1. /\ DOMAIN r = 1..Len(r) /\ Len(r) \in Nat
            /\ DOMAIN r2 = 1..(Len(r) + 1)
            /\ \A i \in 1..Len(r) : r2[i] = r[i]
            /\ r2[Len(r) + 1] = k
        BY <2>6, <3>2, <3>4, AppendProperties
      <4> QED
        BY <3>1, <4>1
    <3> QED
      BY <3>2, <3>3, <3>4
  <2>8. \A i \in DOMAIN r2 : \E o \in Workload : o.destination = p /\ Key(o) = r2[i]
    BY <1>1, <2>1, <2>2, <2>5, <2>7 DEF ReceivedRouted
  <2>9. ReceivedRouted'
    BY <1>1, <2>1, <2>5, <2>8 DEF ReceivedRouted
  <2> QED
    BY <2>4, <2>9
<1> QED
  BY <1>4, <1>5, <1>6, <1>7 DEF AirStep

(* An operation that no handler and no deadline takes up moves on calmly.  *)
LEMMA QuietOp ==
    ASSUME RuntimeInv, WireRouted, AirFlows, NEW op \in Routes,
           QuietFor(Key(op)), StillKept(Key(op))
    PROVE  /\ OpStep(op) /\ CalmAbout(op) /\ (On(op) => On(op)')
           /\ op.mode = "acked" => Calm(op)
<1>1. CalmAbout(op)
  BY DEF CalmAbout, QuietFor
<1>2. (On(op) => On(op)') /\ (op.mode = "acked" /\ On(op)' => Moving(op))
  <2>1. CASE AirSame
    BY <2>1, AirSameIs DEF Moving
  <2>2. ASSUME NEW new, AirAdds(new)
        PROVE  (On(op) => On(op)') /\ (op.mode = "acked" /\ On(op)' => Moving(op))
    <3>1. /\ (OnWire(op) => OnWire(op)') /\ (Got(op)' <=> Got(op))
          /\ OnWire(op)' => OnWire(op) \/ op = new
      BY <2>2, AirAddsIs
    <3>2. op = new /\ op.mode = "acked" => Held(Key(op)) \/ Sent(Key(op))
      BY <2>2 DEF AirAdds
    <3> QED
      BY <3>1, <3>2 DEF On, Moving
  <2>3. ASSUME NEW peer, AirTaken(peer)
        PROVE  (On(op) => On(op)') /\ (op.mode = "acked" /\ On(op)' => Moving(op))
    BY <2>3, AirTakenOn DEF Moving
  <2> QED
    BY <2>1, <2>2, <2>3 DEF AirFlows
<1>3. op.mode = "acked" => Calm(op)
  BY <1>2 DEF Calm, QuietFor, StillKept
<1> QED
  BY <1>1, <1>2, <1>3 DEF OpStep

(* A step that changes one handler.                                        *)
LEMMA OneTaskIs ==
    ASSUME TasksOK, NEW t \in TaskIds, NEW task, tasks' = [tasks EXCEPT ![t] = task]
    PROVE  \A u \in TaskIds : tasks'[u] = IF u = t THEN task ELSE tasks[u]
<1>1. tasks = [u \in TaskIds |-> tasks[u]]
  BY DEF TasksOK
<1> QED
  BY <1>1

Milder(key, new, old) ==
    Softer(key, new, old) /\ (AboutBy(new, key) => AboutBy(old, key))

(* One handler that takes up nothing is quiet for the operation.           *)
LEMMA OneQuiet ==
    ASSUME TasksOK, NEW t \in TaskIds, NEW task, tasks' = [tasks EXCEPT ![t] = task],
           NEW key, Milder(key, task, tasks[t])
    PROVE  QuietFor(key)
BY OneTaskIs DEF QuietFor, Milder, Softer

(* One new routed handler keeps all handlers routed.                       *)
LEMMA OneRouted ==
    ASSUME RuntimeInv, TasksRouted, UNCHANGED scenario,
           NEW t \in TaskIds, NEW task, tasks' = [tasks EXCEPT ![t] = task],
           task # None => RoutedTask(task, Workload)
    PROVE  TasksRouted'
<1>1. Workload' = Workload
  BY DEF Workload
<1>2. \A u \in TaskIds : tasks'[u] = IF u = t THEN task ELSE tasks[u]
  BY OneTaskIs DEF RuntimeInv
<1> QED
  BY <1>1, <1>2 DEF TasksRouted

(* Nothing new is retained, nothing new can be routed wrongly.             *)
LEMMA KeptLessRouted ==
    ASSUME KeptRouted, UNCHANGED scenario, \A key : KeptLess(key)
    PROVE  KeptRouted'
<1>1. Workload' = Workload
  BY DEF Workload
<1>2. \A hop \in Hops : retained'[hop] # None => retained[hop] # None
  BY DEF KeptLess
<1> QED
  BY <1>1, <1>2 DEF KeptRouted

(* The table holds what it held.                                           *)
LEMMA TableSameRouted ==
    ASSUME TableRouted, UNCHANGED <<scenario, operations>>
    PROVE  TableRouted'
BY DEF TableRouted, Workload, Admitted

(* No peer is given up or taken back.                                      *)
LEMMA SameClosedIs ==
    ASSUME UNCHANGED <<authority, members>>,
           \A peer \in Remotes : link'[peer] = "closed" <=> link[peer] = "closed"
    PROVE  SameClosed
BY DEF SameClosed, Closed

OrderOK == Routed' /\ OrderStep

(* A step that takes nothing up.                                           *)
LEMMA QuietStep ==
    ASSUME RuntimeInv, Routed, TasksRouted', LinksOK', UNCHANGED <<scenario, operations>>,
           TableSame, AirFlows, \A key : StillKept(key),
           \A op \in Routes : QuietFor(Key(op))
    PROVE  OrderOK
<1>1. AirStep /\ WireRouted
  BY DEF AirFlows, AirStep, Routed
<1>2. WireRouted' /\ ReceivedRouted'
  BY <1>1, AirRouted
<1>3. KeptRouted' /\ TableRouted'
  BY KeptLessRouted, TableSameRouted DEF StillKept, Routed
<1>4. \A op \in Steady : op \in Routes
  BY DEF Steady
<1>5. \A op \in Steady : OpStep(op)
  BY <1>1, <1>4, QuietOp
<1> QED
  BY <1>1, <1>2, <1>3, <1>5 DEF OrderOK, Routed, OrderStep, TableMove

(* The common case: one handler moves on.                                  *)
LEMMA OneQuietStep ==
    ASSUME RuntimeInv, Routed, LinksOK', UNCHANGED <<scenario, operations>>,
           TableSame, AirFlows, \A key : StillKept(key),
           NEW t \in TaskIds, NEW task, tasks' = [tasks EXCEPT ![t] = task],
           task # None => RoutedTask(task, Workload),
           \A key : Milder(key, task, tasks[t])
    PROVE  OrderOK
<1>1. TasksRouted'
  BY OneRouted DEF Routed
<1>2. \A op \in Routes : QuietFor(Key(op))
  BY OneQuiet DEF RuntimeInv
<1> QED
  BY <1>1, <1>2, QuietStep

(* A handler that takes up no operation.                                   *)
Idling(new, old) ==
    /\ new.pc \notin HopPcs
    /\ new.pc \in HandPcs => \/ new.act.forward = None
                             \/ old # None /\ old.pc \in HandPcs /\ new.act = old.act
    /\ \A a \in new.rest : a.forward # None => old # None /\ a \in old.rest

(* Such a handler is milder for every operation.                           *)
LEMMA IdlingMilder ==
    ASSUME NEW new, NEW old, new # None => Idling(new, old), NEW key
    PROVE  Milder(key, new, old)
BY DEF Idling, Milder, Softer, HoldsBy, SendsBy, AboutBy, HandPcs, HopPcs

(* Retention as it was.                                                    *)
LEMMA AllStillKept ==
    ASSUME UNCHANGED retained
    PROVE  \A key : StillKept(key)
BY DEF StillKept, KeptLess, NotAwaited

(* The session and the table stay as they are.                             *)
LEMMA SameTable ==
    ASSUME Routed, UNCHANGED <<relayVars, members, authority, arrivalVars>>,
           link' = link \/ (SameClosed /\ LinksOK')
    PROVE  TableSame /\ LinksOK' /\ UNCHANGED <<scenario, operations>>
BY DEF TableSame, SameClosed, Closed, Routed, LinksOK, relayVars, arrivalVars

(* A handler moves on with the actions it has,                             *)
LEMMA GotoOrder ==
    ASSUME RuntimeInv, Routed, UNCHANGED <<relayVars, sessionVars, arrivalVars, retained>>,
           AirFlows, NEW pcs, NEW t \in Running(pcs),
           NEW pc \in {"apply", "signalling", "forward", "next"},
           pc # "next" => pcs \subseteq HandPcs,
           Goto(t, pc)
    PROVE  OrderOK
<1>1. t \in TaskIds /\ tasks[t] # None /\ tasks[t].pc \in pcs /\ tasks[t] \in TaskRecords
      /\ RoutedTask(tasks[t], Workload)
  BY RunningIs DEF RuntimeInv, TaskOK, Routed, TasksRouted
<1> DEFINE task == [tasks[t] EXCEPT !.pc = pc]
<1>2. tasks' = [tasks EXCEPT ![t] = task]
  BY DEF Goto
<1>3. task.pc = pc /\ task.act = tasks[t].act /\ task.rest = tasks[t].rest
  BY <1>1 DEF TaskRecords
<1> HIDE DEF task
<1>4. RoutedTask(task, Workload)
  BY <1>1, <1>3 DEF RoutedTask, HopPcs
<1>5. Idling(task, tasks[t])
  BY <1>1, <1>3 DEF Idling, HandPcs, HopPcs
<1>6. \A key : Milder(key, task, tasks[t])
  BY <1>5, IdlingMilder
<1>7. TableSame /\ LinksOK' /\ UNCHANGED <<scenario, operations>>
  <2>1. link' = link /\ UNCHANGED <<relayVars, members, authority, arrivalVars>>
    BY DEF sessionVars
  <2> QED
    BY <2>1, SameTable
<1> QED
  BY <1>1, <1>2, <1>4, <1>6, <1>7, AllStillKept, OneQuietStep

(* or ends.                                                                *)
LEMMA FinishOrder ==
    ASSUME RuntimeInv, Routed, UNCHANGED <<relayVars, sessionVars, arrivalVars>>,
           \A key : StillKept(key), AirFlows, NEW t \in TaskIds, Finish(t)
    PROVE  OrderOK
<1>1. TableSame /\ LinksOK' /\ UNCHANGED <<scenario, operations>>
  <2>1. link' = link /\ UNCHANGED <<relayVars, members, authority, arrivalVars>>
    BY DEF sessionVars
  <2> QED
    BY <2>1, SameTable
<1>2. tasks' = [tasks EXCEPT ![t] = None]
  BY DEF Finish
<1>3. \A key : Milder(key, None, tasks[t])
  BY IdlingMilder
<1> QED
  BY <1>1, <1>2, <1>3, OneQuietStep

(* The generic ACK of the source hop was written.                          *)
LEMMA AckWrittenOrder ==
    ASSUME RuntimeInv, Routed, NEW t \in TaskIds, AckWritten(t)
    PROVE  OrderOK
<1>1. UNCHANGED <<relayVars, sessionVars, arrivalVars, retained>> /\ AirSame
  BY DEF AckWritten, retentionVars, airVars, resultVars, AirSame, SameGot
<1> QED
  BY <1>1, GotoOrder DEF AckWritten, AirFlows, HandPcs

(* The status was written to the source.                                   *)
LEMMA SignalWrittenOrder ==
    ASSUME RuntimeInv, Routed, NEW t \in TaskIds, SignalWritten(t)
    PROVE  OrderOK
<1>1. UNCHANGED <<relayVars, sessionVars, arrivalVars, retained>> /\ AirSame
  BY DEF SignalWritten, retentionVars, airVars, resultVars, AirSame, SameGot
<1> QED
  BY <1>1, GotoOrder DEF SignalWritten, AirFlows, HandPcs

(* Deliveries and states of a handler concern the coordinator itself,      *)
(* never a remote destination.                                             *)
LEMMA ApplyOrder ==
    ASSUME RuntimeInv, Routed, NEW t \in TaskIds, Apply(t)
    PROVE  OrderOK
<1>1. UNCHANGED <<relayVars, sessionVars, arrivalVars, retained>> /\ wire' = wire
      /\ t \in Running({"apply"})
      /\ (Goto(t, "signalling") \/ Goto(t, "forward"))
  BY DEF Apply, retentionVars, airVars
<1>2. Asks(tasks[t].act, Workload)
  BY <1>1, RunningIs DEF RuntimeInv, Routed, TasksRouted, RoutedTask
<1>3. SameGot
  <2>1. CASE tasks[t].act.deliver = None
    BY <2>1 DEF Apply, SameGot
  <2>2. CASE tasks[t].act.deliver # None
    <3>1. PICK op \in Workload : op = tasks[t].act.deliver /\ op.destination = Coordinator
      BY <1>2, <2>2 DEF Asks
    <3>2. Deliver(Key(op))
      BY <2>2, <3>1 DEF Apply
    <3>3. OpOf(Key(op)).destination = Coordinator
      BY <3>1, OpOfIs DEF RuntimeInv, Shape
    <3>4. delivered \in [Peers -> Seq(Keys)]
      BY DEF RuntimeInv, Shape
    <3> QED
      BY <3>2, <3>3, <3>4 DEF Deliver, SameGot, Remotes
  <2> QED
    BY <2>1, <2>2
<1> QED
  BY <1>1, <1>3, GotoOrder DEF AirFlows, AirSame, HandPcs

(* GROUP_INFO was written: the replay begins.                              *)
LEMMA InfoWrittenOrder ==
    ASSUME RuntimeInv, Routed, NEW t \in TaskIds, InfoWritten(t)
    PROVE  OrderOK
<1> DEFINE task == [tasks[t] EXCEPT !.pc = "replay",
                        !.hops = {hop \in liveHops : HopPeer(hop) = tasks[t].peer}]
<1>1. /\ t \in Running({"info"}) /\ tasks' = [tasks EXCEPT ![t] = task]
      /\ UNCHANGED <<relayVars, sessionVars, arrivalVars, retentionVars, airVars, resultVars>>
  BY DEF InfoWritten
<1>2. UNCHANGED <<relayVars, sessionVars, arrivalVars, retained>> /\ AirSame
  BY <1>1 DEF retentionVars, airVars, resultVars, AirSame, SameGot
<1>3. tasks[t] # None /\ tasks[t] \in TaskRecords /\ RoutedTask(tasks[t], Workload)
  BY <1>1, RunningIs DEF RuntimeInv, TaskOK, Routed, TasksRouted
<1>4. task.pc = "replay" /\ task.peer = tasks[t].peer /\ task.rest = tasks[t].rest
      /\ task.act = tasks[t].act
      /\ task.hops = {hop \in liveHops : HopPeer(hop) = tasks[t].peer}
  BY <1>3 DEF TaskRecords
<1> HIDE DEF task
<1>5. \A op \in Workload : OpOf(Key(op)) = op
  BY OpOfIs DEF RuntimeInv, Shape
<1>6. RoutedTask(task, Workload)
  BY <1>3, <1>4, <1>5 DEF RoutedTask, HopPcs, HopPeer
<1>7. Idling(task, tasks[t])
  BY <1>3, <1>4 DEF Idling, HandPcs, HopPcs
<1>8. \A key : Milder(key, task, tasks[t])
  BY <1>7, IdlingMilder
<1>9. TableSame /\ LinksOK' /\ UNCHANGED <<scenario, operations>>
  <2>1. link' = link /\ UNCHANGED <<relayVars, members, authority, arrivalVars>>
    BY <1>2 DEF sessionVars
  <2> QED
    BY <2>1, SameTable
<1> QED
  BY <1>1, <1>2, <1>6, <1>8, <1>9, AllStillKept, OneQuietStep DEF AirFlows

(* A resumed link does not reopen a peer that was given up.                *)
LEMMA LinkResumedOrder ==
    ASSUME RuntimeInv, Routed, NEW peer \in Remotes, LinkResumed(peer)
    PROVE  OrderOK
<1> DEFINE task == [Task("info", NoActions, None, {}) EXCEPT !.peer = peer]
<1>1. /\ CanStart /\ tasks' = [tasks EXCEPT ![NewTask] = task]
      /\ UNCHANGED <<relayVars, members, authority, arrivalVars, retentionVars, airVars,
                     resultVars>>
      /\ link' = [link EXCEPT ![peer] = "ready"] /\ link[peer] = "reconnecting"
  BY DEF LinkResumed, Spawn
<1>2. NewTask \in TaskIds
  BY <1>1, NewTaskIs
<1>3. task.pc = "info" /\ task.rest = {} /\ task.act = NoActions
  BY DEF Task
<1> HIDE DEF task
<1>4. RoutedTask(task, Workload)
  BY <1>3, NothingAsks DEF RoutedTask, HopPcs
<1>5. Idling(task, tasks[NewTask])
  BY <1>3 DEF Idling, HandPcs, HopPcs
<1>6. \A key : Milder(key, task, tasks[NewTask])
  BY <1>5, IdlingMilder
<1>7. LinksOK /\ LinksOK'
  BY <1>1 DEF Routed, LinksOK
<1>8. SameClosed
  BY <1>1, <1>7, SameClosedIs DEF LinksOK
<1>9. TableSame /\ LinksOK' /\ UNCHANGED <<scenario, operations>>
  BY <1>1, <1>7, <1>8, SameTable
<1>10. UNCHANGED retained /\ AirSame
  BY <1>1 DEF retentionVars, airVars, resultVars, AirSame, SameGot
<1> QED
  BY <1>1, <1>2, <1>4, <1>6, <1>9, <1>10, AllStillKept, OneQuietStep DEF AirFlows

(* No handler moves.                                                       *)
LEMMA SameTasks ==
    ASSUME Routed, UNCHANGED <<tasks, scenario>>
    PROVE  TasksRouted' /\ \A key : QuietFor(key)
<1>1. Workload' = Workload
  BY DEF Workload
<1> QED
  BY <1>1 DEF Routed, TasksRouted, QuietFor, Softer

(* The destination takes the next hop from the wire.                       *)
LEMMA DestinationReceivesOrder ==
    ASSUME RuntimeInv, Routed, NEW peer \in Remotes, DestinationReceives(peer)
    PROVE  OrderOK
<1>1. UNCHANGED <<relayVars, sessionVars, arrivalVars, tasks, retentionVars>>
  BY DEF DestinationReceives
<1>2. link' = link /\ UNCHANGED <<relayVars, members, authority, arrivalVars>>
  BY <1>1 DEF sessionVars
<1>3. TableSame /\ LinksOK' /\ UNCHANGED <<scenario, operations>>
  BY <1>2, SameTable
<1>4. UNCHANGED <<tasks, scenario, retained, admissions>>
  BY <1>1 DEF retentionVars, arrivalVars
<1>5. AirTaken(peer)
  BY DEF DestinationReceives, AirTaken
<1> QED
  BY <1>3, <1>4, <1>5, SameTasks, AllStillKept, QuietStep DEF AirFlows

(* A cancelled send only drops what is retained.                           *)
LEMMA CancelLocalOrder ==
    ASSUME RuntimeInv, Routed, NEW key \in Keys, CancelLocal(key)
    PROVE  OrderOK
<1>1. /\ UNCHANGED <<relayVars, sessionVars, arrivalVars, tasks, airVars, delivered>>
      /\ \A hop \in Hops : retained'[hop] \in {retained[hop], None}
  BY DEF CancelLocal
<1>2. link' = link /\ UNCHANGED <<relayVars, members, authority, arrivalVars>>
  BY <1>1 DEF sessionVars
<1>3. TableSame /\ LinksOK' /\ UNCHANGED <<scenario, operations>>
  BY <1>2, SameTable
<1>4. UNCHANGED <<tasks, scenario>> /\ AirSame
  BY <1>1 DEF arrivalVars, airVars, AirSame, SameGot
<1>5. \A k : StillKept(k)
  BY <1>1 DEF StillKept, KeptLess, NotAwaited
<1> QED
  BY <1>3, <1>4, <1>5, SameTasks, QuietStep DEF AirFlows

(* The deadline of a hop starts.                                           *)
LEMMA DeadlineKept ==
    ASSUME RuntimeInv, NEW hop, retained' = DeadlineStarted(hop)
    PROVE  /\ \A h \in Hops : retained'[h] # None => retained[h] # None
           /\ \A h \in Hops \ {hop} : retained'[h] = retained[h]
<1>1. retained \in [Hops -> Entries \cup {None}]
  BY DEF RuntimeInv, Shape
<1>2. CASE retained[hop] = None
  BY <1>2 DEF DeadlineStarted
<1>3. CASE retained[hop] # None
  <2>1. PICK e : retained' = [retained EXCEPT ![hop] = e]
    BY <1>3 DEF DeadlineStarted
  <2> QED
    BY <1>1, <1>3, <2>1
<1> QED
  BY <1>2, <1>3

(* An operation is transmitted: it is on its way whatever the deadline.    *)
LEMMA TransmittedStep ==
    ASSUME RuntimeInv, Routed, TasksRouted', LinksOK', UNCHANGED <<scenario, operations>>,
           TableSame, AirFlows, \A key : KeptLess(key), NEW sent \in Routes,
           \A hop \in Hops : hop[1] # Key(sent) /\ retained'[hop] # None
                => retained'[hop] = retained[hop],
           sent \in Acked => On(sent)',
           \A op \in Routes : QuietFor(Key(op))
    PROVE  OrderOK
<1>1. AirStep /\ WireRouted
  BY DEF AirFlows, AirStep, Routed
<1>2. WireRouted' /\ ReceivedRouted'
  BY <1>1, AirRouted
<1>3. KeptRouted' /\ TableRouted'
  BY KeptLessRouted, TableSameRouted DEF Routed
<1>4. \A op \in Steady : op \in Routes /\ (op.mode = "acked" => op \in Acked)
  BY DEF Steady, Acked
<1>5. ASSUME NEW op \in Steady, op # sent PROVE OpStep(op)
  <2>1. Key(op) # Key(sent)
    BY <1>4, <1>5, RoutesDiffer
  <2>2. StillKept(Key(op))
    BY <2>1 DEF StillKept, NotAwaited
  <2> QED
    BY <1>1, <1>4, <2>2, QuietOp
<1>6. ASSUME sent \in Steady PROVE OpStep(sent)
  <2>1. CalmAbout(sent)
    BY DEF CalmAbout, QuietFor
  <2>2. ASSUME sent.mode = "acked" PROVE Calm(sent)
    <3>1. On(sent)' /\ sent \in Acked
      BY <1>4, <1>6, <2>2
    <3>2. Moving(sent)
      <4>1. CASE AirSame
        BY <3>1, <4>1, AirSameIs DEF Moving
      <4>2. ASSUME NEW new, AirAdds(new)
            PROVE  Moving(sent)
        <5>1. /\ (Got(sent)' <=> Got(sent))
              /\ OnWire(sent)' => OnWire(sent) \/ sent = new
          BY <4>2, AirAddsIs
        <5>2. sent = new /\ sent.mode = "acked" => Held(Key(sent)) \/ Sent(Key(sent))
          BY <4>2 DEF AirAdds
        <5> QED
          BY <2>2, <3>1, <5>1, <5>2 DEF On, Moving
      <4>3. ASSUME NEW peer, AirTaken(peer)
            PROVE  Moving(sent)
        BY <1>1, <3>1, <4>3, AirTakenOn DEF Moving
      <4> QED
        BY <4>1, <4>2, <4>3 DEF AirFlows
    <3> QED
      BY <3>1, <3>2 DEF Calm, QuietFor
  <2> QED
    BY <2>1, <2>2 DEF OpStep
<1> QED
  BY <1>1, <1>2, <1>3, <1>5, <1>6 DEF OrderOK, Routed, OrderStep, TableMove

(* The hop of a retransmission was written.                                *)
LEMMA HopResubmittedOrder ==
    ASSUME RuntimeInv, Routed, NEW t \in TaskIds, HopResubmitted(t)
    PROVE  OrderOK
<1>1. PICK hop, d : hop = tasks[t].hop /\ d = tasks[t].peer
  OBVIOUS
<1>2. /\ t \in Running({"resubmitting", "replaying"})
      /\ wire' = [wire EXCEPT ![d] = Append(@, hop)]
      /\ retained' = DeadlineStarted(hop)
      /\ IF tasks[t].pc = "resubmitting" THEN Finish(t) ELSE Goto(t, "replay")
      /\ UNCHANGED <<relayVars, sessionVars, arrivalVars, resultVars>>
  BY <1>1 DEF HopResubmitted
<1>3. /\ tasks[t] # None /\ tasks[t].pc \in {"resubmitting", "replaying"}
      /\ tasks[t] \in TaskRecords /\ RoutedTask(tasks[t], Workload) /\ hop \in AnyHops
  BY <1>1, <1>2, RunningIs DEF RuntimeInv, TaskOK, Routed, TasksRouted, HopPcs
<1>4. PICK op \in Workload :
        op.destination \in Remotes /\ op.destination = d /\ Key(op) = hop[1] /\ op.mode = "acked"
  BY <1>1, <1>3 DEF RoutedTask, HopPcs
<1>5. op \in Routes
  BY <1>4 DEF Routes
<1>6. AirAdds(op)
  <2>1. Sent(Key(op))
    BY <1>1, <1>3, <1>4 DEF Sent, SendsBy, HopPcs
  <2>2. SameGot
    BY <1>2 DEF SameGot, resultVars
  <2> QED
    BY <1>2, <1>3, <1>4, <1>5, <2>1, <2>2 DEF AirAdds
<1>7. On(op)'
  BY <1>5, <1>6, AirAddsIs DEF On
<1>8. PICK task :
        /\ tasks' = [tasks EXCEPT ![t] = task]
        /\ task # None => RoutedTask(task, Workload) /\ Idling(task, tasks[t])
  <2> DEFINE new == [tasks[t] EXCEPT !.pc = "replay"]
  <2>1. CASE tasks[t].pc = "resubmitting"
    BY <1>2, <2>1 DEF Finish
  <2>2. CASE tasks[t].pc = "replaying"
    <3>1. tasks' = [tasks EXCEPT ![t] = new]
      BY <1>2, <2>2 DEF Goto
    <3>2. new.pc = "replay" /\ new.act = tasks[t].act /\ new.rest = tasks[t].rest
          /\ new.peer = tasks[t].peer /\ new.hops = tasks[t].hops
      BY <1>3 DEF TaskRecords
    <3> HIDE DEF new
    <3>3. RoutedTask(new, Workload)
      BY <1>3, <2>2, <3>2 DEF RoutedTask, HopPcs
    <3>4. Idling(new, tasks[t])
      BY <1>3, <3>2 DEF Idling, HandPcs, HopPcs
    <3> QED
      BY <3>1, <3>3, <3>4
  <2> QED
    BY <1>3, <2>1, <2>2
<1>9. UNCHANGED scenario /\ TableSame /\ LinksOK' /\ UNCHANGED operations
  <2>1. link' = link /\ UNCHANGED <<relayVars, members, authority, arrivalVars>>
    BY <1>2 DEF sessionVars
  <2> QED
    BY <2>1, SameTable
<1>10. TasksRouted'
  BY <1>8, <1>9, OneRouted DEF Routed
<1>11. \A o \in Routes : QuietFor(Key(o))
  BY <1>8, IdlingMilder, OneQuiet DEF RuntimeInv
<1>12. /\ \A key : KeptLess(key)
       /\ \A h \in Hops : h[1] # Key(op) /\ retained'[h] # None => retained'[h] = retained[h]
  BY <1>2, <1>4, DeadlineKept DEF KeptLess
<1> QED
  BY <1>5, <1>6, <1>7, <1>9, <1>10, <1>11, <1>12, TransmittedStep DEF AirFlows

(* A first submission that leaves the table alone.                         *)
LEMMA SubmittedIs ==
    ASSUME RuntimeInv, Routed, NEW t \in TaskIds, HopSubmitted(t)
    PROVE  \E op \in Routes, hop \in AnyHops :
            /\ op = tasks[t].act.forward /\ hop = tasks[t].hop /\ hop[1] = Key(op)
            /\ tasks[t] # None /\ tasks[t].pc = "submitting"
            /\ tasks[t] \in TaskRecords /\ RoutedTask(tasks[t], Workload)
            /\ AirSame \/ AirAdds(op)
            /\ "earlyAck" \in Faults => AirSame
            /\ "earlyAck" \notin Faults => AirAdds(op)
            /\ Sent(Key(op)) /\ SendsBy(tasks[t], Key(op))
<1>1. t \in Running({"submitting"})
      /\ UNCHANGED <<sessionVars, arrivalVars, delivered>>
  BY DEF HopSubmitted
<1>2. /\ tasks[t] # None /\ tasks[t].pc = "submitting" /\ tasks[t].hop \in AnyHops
      /\ tasks[t] \in TaskRecords /\ RoutedTask(tasks[t], Workload)
  BY <1>1, RunningIs DEF RuntimeInv, TaskOK, Routed, TasksRouted, HopPcs
<1>3. PICK hop \in AnyHops : hop = tasks[t].hop
  BY <1>2
<1>4. PICK op \in Workload :
        op.destination \in Remotes /\ op = tasks[t].act.forward /\ Key(op) = hop[1]
  BY <1>2, <1>3 DEF RoutedTask, HopPcs
<1>5. op \in Routes
  BY <1>4 DEF Routes
<1>6. Sent(Key(op)) /\ SendsBy(tasks[t], Key(op))
  BY <1>2, <1>3, <1>4 DEF Sent, SendsBy, HopPcs
<1>7. wire' = IF "earlyAck" \in Faults THEN wire
              ELSE [wire EXCEPT ![op.destination] = Append(@, hop)]
  BY <1>3, <1>4 DEF HopSubmitted
<1>8. SameGot
  BY <1>1 DEF SameGot
<1> QED
  BY <1>2, <1>3, <1>4, <1>5, <1>6, <1>7, <1>8 DEF AirSame, AirAdds

(* The hop of an acknowledged relay was written for the first time: its    *)
(* deadline starts, unless the ACK came first.                             *)
LEMMA AckedSubmittedOrder ==
    ASSUME RuntimeInv, Routed, OrderInv, NEW t \in TaskIds, HopSubmitted(t),
           retained' = DeadlineStarted(tasks[t].hop), Goto(t, "next"), UNCHANGED relayVars
    PROVE  OrderOK
<1>1. PICK op \in Routes, hop \in AnyHops :
            /\ op = tasks[t].act.forward /\ hop = tasks[t].hop /\ hop[1] = Key(op)
            /\ tasks[t] # None /\ tasks[t].pc = "submitting"
            /\ tasks[t] \in TaskRecords /\ RoutedTask(tasks[t], Workload)
            /\ AirSame \/ AirAdds(op)
            /\ "earlyAck" \in Faults => AirSame
            /\ "earlyAck" \notin Faults => AirAdds(op)
            /\ Sent(Key(op)) /\ SendsBy(tasks[t], Key(op))
  BY SubmittedIs
<1> DEFINE task == [tasks[t] EXCEPT !.pc = "next"]
<1>2. tasks' = [tasks EXCEPT ![t] = task]
  BY DEF Goto
<1>3. task.pc = "next" /\ task.act = tasks[t].act /\ task.rest = tasks[t].rest
  BY <1>1 DEF TaskRecords
<1> HIDE DEF task
<1>4. RoutedTask(task, Workload)
  BY <1>1, <1>3 DEF RoutedTask, HopPcs
<1>5. Idling(task, tasks[t])
  BY <1>1, <1>3 DEF Idling, HandPcs, HopPcs
<1>6. \A key : Milder(key, task, tasks[t])
  BY <1>5, IdlingMilder
<1>7. UNCHANGED scenario /\ TableSame /\ LinksOK' /\ UNCHANGED operations
  <2>1. link' = link /\ UNCHANGED <<relayVars, members, authority, arrivalVars>>
    BY DEF HopSubmitted, sessionVars
  <2> QED
    BY <2>1, SameTable
<1>8. TasksRouted'
  BY <1>2, <1>4, <1>7, OneRouted DEF Routed
<1>9. \A o \in Routes : QuietFor(Key(o))
  BY <1>2, <1>6, OneQuiet DEF RuntimeInv
<1>10. op \in Acked => On(op)'
  <2>1. CASE "earlyAck" \in Faults
    <3>1. op \in Acked => On(op)
      BY <1>1, <2>1 DEF OrderInv, AckedOne, OneOK
    <3> QED
      BY <1>1, <2>1, <3>1, AirSameIs
  <2>2. CASE "earlyAck" \notin Faults
    BY <1>1, <2>2, AirAddsIs DEF On
  <2> QED
    BY <2>1, <2>2
<1>11. /\ \A key : KeptLess(key)
       /\ \A h \in Hops : h[1] # Key(op) /\ retained'[h] # None => retained'[h] = retained[h]
  BY <1>1, DeadlineKept DEF KeptLess
<1> QED
  BY <1>1, <1>7, <1>8, <1>9, <1>10, <1>11, TransmittedStep DEF AirFlows

(* A retained hop is transmitted again by a handler that holds nothing     *)
(* else.                                                                   *)
Resends(new, old, hop) ==
    /\ new.pc \in {"resubmitting", "replaying"} /\ new.hop = hop
    /\ \A a \in new.rest : a.forward # None => old # None /\ a \in old.rest

(* A step that transmits a retained hop again.                             *)
LEMMA StartsStep ==
    ASSUME RuntimeInv, Routed, UNCHANGED <<scenario, operations>>, TableSame, LinksOK', AirSame,
           NEW t \in TaskIds, NEW task, tasks' = [tasks EXCEPT ![t] = task],
           NEW hop \in Hops, retained[hop] # None,
           NEW e, e.state = "pending", retained' = [retained EXCEPT ![hop] = e],
           task # None => RoutedTask(task, Workload) /\ Resends(task, tasks[t], hop)
    PROVE  OrderOK
<1>1. retained \in [Hops -> Entries \cup {None}]
  BY DEF RuntimeInv, Shape
<1>2. PICK op \in Workload : op.mode = "acked" /\ op.destination \in Remotes /\ Key(op) = hop[1]
  BY DEF Routed, KeptRouted
<1>3. op \in Routes
  BY <1>2 DEF Routes
<1>4. \A u \in TaskIds : tasks'[u] = IF u = t THEN task ELSE tasks[u]
  BY OneTaskIs DEF RuntimeInv
<1>5. \A h \in Hops \ {hop} : retained'[h] = retained[h]
  BY <1>1
<1>6. \A key : KeptLess(key) /\ NotAwaited(key)
  BY <1>1 DEF KeptLess, NotAwaited
<1>7. TasksRouted' /\ KeptRouted' /\ TableRouted' /\ AirStep /\ WireRouted
  BY <1>6, OneRouted, KeptLessRouted, TableSameRouted DEF AirStep, Routed
<1>8. WireRouted' /\ ReceivedRouted'
  BY <1>7, AirRouted
<1>9. Starts(op)
  <2>1. \A u \in TaskIds \ {t} : Softer(Key(op), tasks'[u], tasks[u])
    BY <1>4 DEF Softer
  <2>2. /\ ~HoldsBy(task, Key(op))
        /\ SendsBy(task, Key(op)) => task.hop = hop /\ task.pc # "submitting"
    BY DEF Resends, HoldsBy, SendsBy, HandPcs
  <2>3. On(op) <=> On(op)'
    BY <1>3, AirSameIs
  <2>4. retained'[hop] = e
    BY <1>1
  <2> QED
    BY <1>2, <1>4, <1>6, <2>1, <2>2, <2>3, <2>4 DEF Starts
<1>10. ASSUME NEW o \in Steady PROVE OpStep(o)
  <2>1. o \in Routes
    BY <1>10 DEF Steady
  <2>2. CASE o = op
    BY <1>2, <1>9, <2>2 DEF OpStep
  <2>3. CASE o # op
    <3>1. Key(o) # hop[1]
      BY <1>2, <1>3, <2>1, <2>3, RoutesDiffer
    <3>2. Milder(Key(o), task, tasks[t])
      BY <3>1 DEF Resends, Milder, Softer, HoldsBy, SendsBy, AboutBy, HandPcs
    <3>3. QuietFor(Key(o)) /\ StillKept(Key(o))
      BY <1>6, <3>2, OneQuiet DEF RuntimeInv, StillKept
    <3> QED
      BY <1>7, <2>1, <3>3, QuietOp DEF AirFlows
  <2> QED
    BY <2>2, <2>3
<1> QED
  BY <1>7, <1>8, <1>10 DEF OrderOK, Routed, OrderStep, TableMove

(* A replay takes the next live hop up, or drops it.                       *)
LEMMA ReplayHopOrder ==
    ASSUME RuntimeInv, Routed, NEW t \in TaskIds, NEW hop \in Hops, ReplayHop(t, hop)
    PROVE  OrderOK
<1> DEFINE done == [tasks[t] EXCEPT !.hops = @ \ {hop}]
           sent == [done EXCEPT !.pc = "replaying", !.hop = hop]
<1>1. /\ t \in Running({"replay"}) /\ hop \in tasks[t].hops
      /\ UNCHANGED <<relayVars, sessionVars, arrivalVars, airVars, resultVars>>
  BY DEF ReplayHop
<1>2. tasks[t] # None /\ tasks[t].pc = "replay" /\ tasks[t] \in TaskRecords
      /\ RoutedTask(tasks[t], Workload)
  BY <1>1, RunningIs DEF RuntimeInv, TaskOK, Routed, TasksRouted
<1>3. done.pc = "replay" /\ done.peer = tasks[t].peer /\ done.act = tasks[t].act
      /\ done.rest = tasks[t].rest /\ done.hops = tasks[t].hops \ {hop} /\ done \in TaskRecords
  BY <1>2 DEF TaskRecords
<1>4. sent.pc = "replaying" /\ sent.peer = tasks[t].peer /\ sent.act = tasks[t].act
      /\ sent.rest = tasks[t].rest /\ sent.hops = tasks[t].hops \ {hop} /\ sent.hop = hop
  BY <1>3 DEF TaskRecords
<1>5. retained \in [Hops -> Entries \cup {None}]
  BY DEF RuntimeInv, Shape
<1>6. \/ /\ tasks' = [tasks EXCEPT ![t] = done]
         /\ retained' = retained \/ retained' = [retained EXCEPT ![hop] = None]
      \/ /\ retained[hop] # None
         /\ retained' = [retained EXCEPT ![hop] =
                [state |-> "pending", tries |-> @.tries + 1]]
         /\ tasks' = [tasks EXCEPT ![t] = sent] \/ tasks' = [tasks EXCEPT ![t] = None]
  BY DEF ReplayHop, retentionVars, Finish
<1> HIDE DEF done, sent
<1>7. TableSame /\ LinksOK' /\ UNCHANGED <<scenario, operations>>
  <2>1. link' = link /\ UNCHANGED <<relayVars, members, authority, arrivalVars>>
    BY <1>1 DEF sessionVars
  <2> QED
    BY <2>1, SameTable
<1>8. AirSame
  BY <1>1 DEF airVars, resultVars, AirSame, SameGot
<1>9. CASE /\ tasks' = [tasks EXCEPT ![t] = done]
           /\ retained' = retained \/ retained' = [retained EXCEPT ![hop] = None]
  <2>1. RoutedTask(done, Workload)
    BY <1>2, <1>3 DEF RoutedTask, HopPcs
  <2>2. Idling(done, tasks[t])
    BY <1>2, <1>3 DEF Idling, HandPcs, HopPcs
  <2>3. \A key : Milder(key, done, tasks[t])
    BY <2>2, IdlingMilder
  <2>4. \A key : StillKept(key)
    BY <1>5, <1>9 DEF StillKept, KeptLess, NotAwaited
  <2> QED
    BY <1>1, <1>7, <1>8, <1>9, <2>1, <2>3, <2>4, OneQuietStep DEF AirFlows
<1>10. CASE /\ retained[hop] # None
            /\ retained' = [retained EXCEPT ![hop] =
                [state |-> "pending", tries |-> @.tries + 1]]
            /\ tasks' = [tasks EXCEPT ![t] = sent] \/ tasks' = [tasks EXCEPT ![t] = None]
  <2>1. PICK e : e.state = "pending" /\ retained' = [retained EXCEPT ![hop] = e]
    BY <1>10
  <2>2. PICK op \in Workload :
            op.mode = "acked" /\ op.destination \in Remotes /\ Key(op) = hop[1]
    BY <1>10 DEF Routed, KeptRouted
  <2>3. op.destination = tasks[t].peer
    BY <1>1, <1>2, <2>2 DEF RoutedTask
  <2>4. RoutedTask(sent, Workload)
    BY <1>2, <1>4, <2>2, <2>3 DEF RoutedTask, HopPcs
  <2>5. Resends(sent, tasks[t], hop)
    BY <1>2, <1>4 DEF Resends
  <2>6. PICK task : /\ tasks' = [tasks EXCEPT ![t] = task]
                    /\ task # None => RoutedTask(task, Workload) /\ Resends(task, tasks[t], hop)
    BY <1>10, <2>4, <2>5
  <2> QED
    BY <1>7, <1>8, <1>10, <2>1, <2>6, StartsStep
<1> QED
  BY <1>6, <1>9, <1>10

(* A handler starts to submit an operation.                                *)
LEMMA BeginHopOrder ==
    ASSUME RuntimeInv, Routed, NEW pcs, NEW t \in Running(pcs), NEW op \in Routes,
           NEW rest \in SUBSET tasks[t].rest, BeginHop(t, op, rest),
           UNCHANGED <<relayVars, sessionVars, arrivalVars, delivered>>,
           AboutBy(tasks[t], Key(op)), op.mode = "acked" => HoldsBy(tasks[t], Key(op))
    PROVE  OrderOK
<1> DEFINE act == [NoActions EXCEPT !.forward = op]
           task == [tasks[t] EXCEPT !.pc = "submitting", !.act = act, !.rest = rest,
                        !.hop = HopOf(op), !.peer = op.destination]
<1>1. PICK hop \in AnyHops : hop = HopOf(op) /\ hop[1] = Key(op)
  <2>1. op \in Operations
    BY WorkloadIs DEF Routes, RuntimeInv, Shape
  <2> QED
    BY <2>1, HopOfType DEF RuntimeInv, HopOf
<1>2. /\ tasks' = [tasks EXCEPT ![t] = task]
      /\ retained' = IF op.mode = "acked"
                     THEN [retained EXCEPT ![hop] = [state |-> "pending", tries |-> 0]]
                     ELSE retained
      /\ wire' = IF "earlyAck" \in Faults
                 THEN [wire EXCEPT ![op.destination] = Append(@, hop)]
                 ELSE wire
  BY <1>1 DEF BeginHop
<1>3. /\ t \in TaskIds /\ tasks[t] # None /\ tasks[t] \in TaskRecords
      /\ RoutedTask(tasks[t], Workload)
  BY RunningIs DEF RuntimeInv, TaskOK, Routed, TasksRouted
<1>4. act.forward = op /\ act.deliver = None
  BY DEF NoActions
<1>5. task.pc = "submitting" /\ task.act = act /\ task.rest = rest /\ task.hop = hop
      /\ task.peer = op.destination
  BY <1>1, <1>3 DEF TaskRecords
<1> HIDE DEF task, act
<1>6. op \in Workload /\ op.destination \in Remotes
  BY DEF Routes
<1>7. RoutedTask(task, Workload)
  <2>1. Asks(act, Workload)
    BY <1>4, <1>6 DEF Asks
  <2> QED
    BY <1>1, <1>3, <1>5, <1>4, <1>6, <2>1 DEF RoutedTask, HopPcs
<1>8. TableSame /\ LinksOK' /\ UNCHANGED <<scenario, operations>>
  <2>1. link' = link /\ UNCHANGED <<relayVars, members, authority, arrivalVars>>
    BY DEF sessionVars
  <2> QED
    BY <2>1, SameTable
<1>9. SameGot
  BY DEF SameGot
<1>10. op.mode = "acked" => Held(Key(op))
  BY <1>3 DEF Held
<1>11. IF "earlyAck" \in Faults THEN AirAdds(op) ELSE AirSame
  BY <1>1, <1>2, <1>9, <1>10 DEF AirAdds, AirSame
<1>12. AirFlows /\ AirStep /\ WireRouted
  BY <1>11 DEF AirFlows, AirStep, Routed
<1>13. retained \in [Hops -> Entries \cup {None}]
  BY DEF RuntimeInv, Shape
<1>14. \A h \in Hops : retained'[h] # retained[h] =>
         h = hop /\ op.mode = "acked" /\ retained'[h].state = "pending"
  BY <1>2, <1>13
<1>15. KeptRouted'
  <2>1. Workload' = Workload
    BY <1>8 DEF Workload
  <2> QED
    BY <1>1, <1>6, <1>14, <2>1 DEF Routed, KeptRouted
<1>16. TasksRouted' /\ TableRouted' /\ WireRouted' /\ ReceivedRouted'
  BY <1>2, <1>3, <1>7, <1>8, <1>12, OneRouted, TableSameRouted, AirRouted DEF Routed
<1>17. \A u \in TaskIds : tasks'[u] = IF u = t THEN task ELSE tasks[u]
  BY <1>2, <1>3, OneTaskIs DEF RuntimeInv
<1>18. ASSUME op.mode = "acked" PROVE Begins(op)
  <2>1. \A u \in TaskIds \ {t} : Softer(Key(op), tasks'[u], tasks[u])
    BY <1>17 DEF Softer
  <2>2. ~HoldsBy(task, Key(op)) /\ task.hop = hop
    BY <1>5 DEF HoldsBy, HandPcs
  <2>3. \A h \in Hops : h[1] = Key(op) /\ retained'[h] # None =>
            retained[h] # None \/ (h = hop /\ retained'[h].state # "awaiting")
    BY <1>14
  <2>4. (On(op) => On(op)') /\ ("earlyAck" \in Faults => On(op)')
    <3>1. CASE "earlyAck" \in Faults
      BY <1>11, <3>1, AirAddsIs DEF On
    <3>2. CASE "earlyAck" \notin Faults
      BY <1>11, <3>2, AirSameIs
    <3> QED
      BY <3>1, <3>2
  <2> QED
    BY <1>3, <1>17, <1>18, <2>1, <2>2, <2>3, <2>4 DEF Begins
<1>19. ASSUME op.mode = "ordered" PROVE CalmAbout(op)
  BY <1>17 DEF CalmAbout
<1>20. ASSUME NEW o \in Steady PROVE OpStep(o)
  <2>1. o \in Routes
    BY <1>20 DEF Steady
  <2>2. CASE o = op
    <3>1. op.mode \in {"acked", "ordered"}
      BY <1>6, WorkloadIs DEF RuntimeInv, Shape, Operations, Modes
    <3> QED
      BY <1>18, <1>19, <2>2, <3>1 DEF OpStep
  <2>3. CASE o # op
    <3>1. Key(o) # Key(op)
      BY <2>1, <2>3, RoutesDiffer
    <3>2. Milder(Key(o), task, tasks[t])
      BY <1>1, <1>3, <1>5, <1>4, <3>1 DEF Milder, Softer, HoldsBy, SendsBy, AboutBy, HandPcs
    <3>3. QuietFor(Key(o))
      BY <1>2, <1>3, <3>2, OneQuiet DEF RuntimeInv
    <3>4. StillKept(Key(o))
      BY <1>1, <1>14, <3>1 DEF StillKept, KeptLess, NotAwaited
    <3> QED
      BY <1>12, <2>1, <3>3, <3>4, QuietOp
  <2> QED
    BY <2>2, <2>3
<1> QED
  BY <1>8, <1>12, <1>15, <1>16, <1>20 DEF OrderOK, Routed, OrderStep, TableMove

(* A transport is lost: the hops that were being written to the peer are   *)
(* not on their way any more, nor is what was on the wire.                 *)
LEMMA DropOrder ==
    ASSUME RuntimeInv, Routed, NEW peer, NEW state \in {"reconnecting", "closing"},
           NEW finished, NEW thrown, finished \subseteq Running({"replaying"}),
           Ready(peer), DropTransport(peer, state, finished, thrown),
           UNCHANGED <<relayVars, members, authority, arrivalVars, delivered>>
    PROVE  OrderOK
<1> DEFINE ended == (Writing(peer) \ finished) \cup thrown
<1>1. /\ link' = [link EXCEPT ![peer] = state]
      /\ tasks' = [t \in TaskIds |->
            IF t \in finished THEN [tasks[t] EXCEPT !.pc = "replay"]
            ELSE IF t \in ended THEN None ELSE tasks[t]]
      /\ retained' = [hop \in Hops |->
            IF retained[hop] = None \/ HopPeer(hop) # peer THEN retained[hop]
            ELSE [retained[hop] EXCEPT !.state =
                    IF \E t \in finished : tasks[t].hop = hop
                    THEN "awaiting" ELSE "pending"]]
      /\ wire' = [wire EXCEPT ![peer] = <<>>]
  BY DEF DropTransport
<1>2. LinksOK' /\ SameClosed
  <2>1. LinksOK /\ LinksOK'
    BY <1>1 DEF Routed, LinksOK
  <2>2. \A p \in Remotes : link'[p] = "closed" <=> link[p] = "closed"
    BY <1>1 DEF Routed, LinksOK, Ready
  <2> QED
    BY <2>1, <2>2, SameClosedIs
<1>3. TableSame /\ UNCHANGED <<scenario, operations>>
  BY <1>2, SameTable
<1>4. SameGot
  BY DEF SameGot
<1>5. IF peer \in Remotes THEN AirLost(peer) ELSE AirSame
  <2>1. wire \in [Remotes -> Seq(AnyHops)]
    BY DEF RuntimeInv, Shape
  <2> QED
    BY <1>1, <1>4, <2>1 DEF AirLost, AirSame
<1>6. AirStep /\ WireRouted
  BY <1>5 DEF AirStep, Routed
<1>7. ASSUME NEW t \in TaskIds
      PROVE  \/ t \in finished /\ tasks'[t] = [tasks[t] EXCEPT !.pc = "replay"]
             \/ tasks'[t] = None
             \/ t \notin ended /\ t \notin finished /\ tasks'[t] = tasks[t]
  BY <1>1
<1>8. ASSUME NEW t \in finished
      PROVE  LET new == [tasks[t] EXCEPT !.pc = "replay"]
             IN  RoutedTask(new, Workload) /\ Idling(new, tasks[t])
  <2> DEFINE new == [tasks[t] EXCEPT !.pc = "replay"]
  <2>1. tasks[t] # None /\ tasks[t].pc = "replaying" /\ tasks[t] \in TaskRecords
        /\ RoutedTask(tasks[t], Workload)
    BY <1>8, RunningIs DEF RuntimeInv, TaskOK, Routed, TasksRouted
  <2>2. new.pc = "replay" /\ new.act = tasks[t].act /\ new.rest = tasks[t].rest
          /\ new.peer = tasks[t].peer /\ new.hops = tasks[t].hops
    BY <2>1 DEF TaskRecords
  <2> HIDE DEF new
  <2>3. RoutedTask(new, Workload)
    BY <2>1, <2>2 DEF RoutedTask, HopPcs
  <2>4. Idling(new, tasks[t])
    BY <2>1, <2>2 DEF Idling, HandPcs, HopPcs
  <2>5. RoutedTask(new, Workload) /\ Idling(new, tasks[t])
    BY <2>3, <2>4
  <2> QED
    BY <2>5 DEF new
<1>9. TasksRouted'
  <2>1. Workload' = Workload
    BY <1>3 DEF Workload
  <2> QED
    BY <1>7, <1>8, <2>1 DEF Routed, TasksRouted
<1>10. ASSUME NEW key PROVE QuietFor(key)
  <2>1. ASSUME NEW t \in TaskIds PROVE Milder(key, tasks'[t], tasks[t])
    <3>1. CASE t \in finished /\ tasks'[t] = [tasks[t] EXCEPT !.pc = "replay"]
      BY <1>8, <3>1, IdlingMilder
    <3>2. CASE tasks'[t] = None
      BY <3>2, IdlingMilder
    <3>3. CASE tasks'[t] = tasks[t]
      BY <3>3 DEF Milder, Softer
    <3> QED
      BY <1>7, <3>1, <3>2, <3>3
  <2> QED
    BY <2>1 DEF QuietFor, Milder
<1>11. \A key : KeptLess(key)
  BY <1>1 DEF KeptLess
<1>12. KeptRouted' /\ TableRouted' /\ WireRouted' /\ ReceivedRouted'
  BY <1>3, <1>6, <1>11, KeptLessRouted, TableSameRouted, AirRouted DEF Routed
<1>13. ASSUME NEW op \in Steady PROVE OpStep(op)
  <2>1. op \in Routes /\ op \in Workload /\ op.destination \in Remotes
    BY <1>13 DEF Steady, Routes
  <2>2. /\ On(op)' => On(op)
        /\ op.destination # peer => (On(op)' <=> On(op))
    <3>1. CASE peer \in Remotes
      BY <1>5, <2>1, <3>1, AirLostIs DEF On
    <3>2. CASE peer \notin Remotes
      BY <1>5, <2>1, <3>2, AirSameIs
    <3> QED
      BY <3>1, <3>2
  <2>3. OpOf(Key(op)) = op
    BY <2>1, OpOfIs DEF RuntimeInv, Shape
  <2>4. op.destination # peer => NotAwaited(Key(op))
    BY <1>1, <2>3 DEF NotAwaited, HopPeer
  <2>5. op.destination = peer => ~Sent(Key(op))'
    <3> SUFFICES ASSUME op.destination = peer, NEW t \in TaskIds, SendsBy(tasks'[t], Key(op))
                 PROVE  FALSE
      BY DEF Sent
    <3>1. ~(t \in finished /\ tasks'[t] = [tasks[t] EXCEPT !.pc = "replay"])
      <4> SUFFICES ASSUME t \in finished, tasks'[t] = [tasks[t] EXCEPT !.pc = "replay"]
                   PROVE  FALSE
        OBVIOUS
      <4>1. Idling(tasks'[t], tasks[t])
        BY <1>8
      <4> QED
        BY <4>1 DEF Idling, SendsBy
    <3>2. t \notin ended /\ t \notin finished /\ tasks'[t] = tasks[t]
      BY <1>7, <3>1 DEF SendsBy
    <3>3. tasks[t] # None /\ tasks[t].pc \in HopPcs /\ tasks[t].hop[1] = Key(op)
      BY <3>2 DEF SendsBy
    <3>4. PICK o \in Workload : o.destination = tasks[t].peer /\ Key(o) = Key(op)
      BY <3>3 DEF Routed, TasksRouted, RoutedTask
    <3>5. tasks[t].peer = peer
      BY <2>1, <3>4, WorkloadIs DEF RuntimeInv, Shape
    <3> QED
      BY <3>2, <3>3, <3>5 DEF Writing, Running
  <2>6. Calm(op)
    BY <1>10, <1>11, <2>2, <2>4, <2>5 DEF Calm, QuietFor, Moving
  <2>7. CalmAbout(op)
    BY <1>10 DEF CalmAbout, QuietFor
  <2> QED
    BY <2>6, <2>7 DEF OpStep
<1> QED
  BY <1>2, <1>3, <1>6, <1>9, <1>12, <1>13 DEF OrderOK, Routed, OrderStep, TableMove

(* A lost link ends the handlers that wrote to it and loses what was in    *)
(* flight.                                                                 *)
LEMMA LinkLostOrder ==
    ASSUME RuntimeInv, Routed, NEW peer \in Remotes, NEW finished, LinkLost(peer, finished)
    PROVE  OrderOK
<1>1. /\ Ready(peer) /\ finished \subseteq Running({"replaying"})
      /\ DropTransport(peer, "reconnecting", finished, {})
      /\ UNCHANGED <<relayVars, members, authority, arrivalVars, delivered>>
  BY DEF LinkLost
<1> QED
  BY <1>1, DropOrder

(* A loop goes on to its next action, or submits the next ordered head.    *)
LEMMA NextInLoopOrder ==
    ASSUME RuntimeInv, Routed, NEW t \in TaskIds, NextInLoop(t)
    PROVE  OrderOK
<1>1. /\ t \in Running({"next"})
      /\ UNCHANGED <<relayVars, sessionVars, arrivalVars, resultVars>>
  BY DEF NextInLoop
<1>2. /\ tasks[t] # None /\ tasks[t] \in TaskRecords /\ tasks[t].pc = "next"
      /\ RoutedTask(tasks[t], Workload) /\ Rest(tasks[t].rest)
  BY <1>1, RunningIs DEF RuntimeInv, TaskOK, Routed, TasksRouted
<1>3. delivered' = delivered
  BY <1>1 DEF resultVars
<1>4. UNCHANGED <<retained, wire>> => AirSame /\ \A key : StillKept(key)
  BY <1>3, AllStillKept DEF AirSame, SameGot
<1>5. ASSUME Finish(t), UNCHANGED <<retained, wire>>
      PROVE  OrderOK
  BY <1>1, <1>4, <1>5, FinishOrder DEF AirFlows
<1>6. ASSUME NEW act \in tasks[t].rest, act.forward = None, UNCHANGED <<retained, wire>>,
             tasks' = [tasks EXCEPT ![t] = [tasks[t] EXCEPT !.pc = "apply",
                    !.act = act, !.local = None, !.rest = @ \ {act}]]
      PROVE  OrderOK
  <2> DEFINE task == [tasks[t] EXCEPT !.pc = "apply", !.act = act, !.local = None,
                          !.rest = @ \ {act}]
  <2>1. tasks' = [tasks EXCEPT ![t] = task]
    BY <1>6
  <2>2. task.pc = "apply" /\ task.act = act /\ task.rest = tasks[t].rest \ {act}
    BY <1>2 DEF TaskRecords
  <2> HIDE DEF task
  <2>3. RoutedTask(task, Workload)
    BY <1>2, <2>2 DEF RoutedTask, HopPcs
  <2>4. Idling(task, tasks[t])
    BY <1>2, <1>6, <2>2 DEF Idling, HopPcs
  <2>5. \A key : Milder(key, task, tasks[t])
    BY <2>4, IdlingMilder
  <2>6. TableSame /\ LinksOK' /\ UNCHANGED <<scenario, operations>>
    <3>1. link' = link /\ UNCHANGED <<relayVars, members, authority, arrivalVars>>
      BY <1>1 DEF sessionVars
    <3> QED
      BY <3>1, SameTable
  <2> QED
    BY <1>4, <1>6, <2>1, <2>3, <2>5, <2>6, OneQuietStep DEF AirFlows
<1>7. ASSUME NEW act \in tasks[t].rest, act.forward # None,
             BeginHop(t, act.forward, tasks[t].rest \ {act})
      PROVE  OrderOK
  <2>1. PICK op : op = act.forward
    OBVIOUS
  <2>2. op \in Routes /\ op.mode = "ordered"
    BY <1>2, <1>7, <2>1 DEF RoutedTask, Asks, Routes, Rest
  <2>3. AboutBy(tasks[t], Key(op))
    BY <1>2, <1>7, <2>1 DEF AboutBy
  <2>4. BeginHop(t, op, tasks[t].rest \ {act})
    BY <1>7, <2>1
  <2> QED
    BY <1>1, <1>3, <2>2, <2>3, <2>4, BeginHopOrder
<1> QED
  BY <1>5, <1>6, <1>7 DEF NextInLoop

(* Forward as long as it leaves the table alone.                           *)
LEMMA ForwardOrder ==
    ASSUME RuntimeInv, Routed, NEW t \in TaskIds, Forward(t)
    PROVE  \/ OrderOK
           \/ \E op \in Routes :
                /\ op = tasks[t].act.forward
                /\ FinalHopFailed(Key(op), "destinationUnavailable")
                /\ ApplyNext(t, out', Key(op))
                /\ UNCHANGED <<sessionVars, arrivalVars, retentionVars, airVars, delivered>>
                /\ HoldsBy(tasks[t], Key(op))
<1>1. PICK op : op = tasks[t].act.forward
  OBVIOUS
<1>2. /\ t \in Running({"forward"})
      /\ UNCHANGED <<members, authority, losses, arrivalVars, liveHops, delivered>>
  BY DEF Forward
<1>3. /\ tasks[t] # None /\ tasks[t] \in TaskRecords /\ tasks[t].pc = "forward"
      /\ RoutedTask(tasks[t], Workload)
  BY <1>2, RunningIs DEF RuntimeInv, TaskOK, Routed, TasksRouted
<1>4. wire' = wire => AirSame
  BY <1>2 DEF AirSame, SameGot
<1>5. link' = link => UNCHANGED sessionVars
  BY <1>2 DEF sessionVars
<1>6. ASSUME op # None
      PROVE  op \in Routes /\ HoldsBy(tasks[t], Key(op)) /\ AboutBy(tasks[t], Key(op))
  BY <1>1, <1>3, <1>6 DEF RoutedTask, Asks, Routes, HoldsBy, AboutBy, HandPcs
<1>7. ASSUME Goto(t, "next"), UNCHANGED <<relayVars, link, retained, airVars>>
      PROVE  OrderOK
  BY <1>2, <1>4, <1>5, <1>7, GotoOrder DEF AirFlows, airVars
<1>8. ASSUME op # None, BeginHop(t, op, tasks[t].rest), UNCHANGED <<relayVars, link>>
      PROVE  OrderOK
  BY <1>2, <1>5, <1>6, <1>8, BeginHopOrder
<1>9. ASSUME Finish(t), UNCHANGED <<relayVars, link, retained, wire>>
      PROVE  OrderOK
  BY <1>2, <1>4, <1>5, <1>9, AllStillKept, FinishOrder DEF AirFlows
<1>10. ASSUME Collide(t), UNCHANGED relayVars
       PROVE  OrderOK
  <2>1. CASE /\ Ready(tasks[t].from)
             /\ DropTransport(tasks[t].from, "closing", {}, {t})
    BY <1>2, <1>10, <2>1, DropOrder
  <2>2. CASE Throw(t) /\ UNCHANGED <<link, retained, wire, acks>>
    BY <1>9, <1>10, <2>2 DEF Throw
  <2> QED
    BY <1>10, <2>1, <2>2 DEF Collide
<1>11. ASSUME op # None, FinalHopFailed(Key(op), "destinationUnavailable"),
              ApplyNext(t, out', Key(op)), UNCHANGED <<link, retained, airVars>>
       PROVE  \E o \in Routes :
                /\ o = tasks[t].act.forward
                /\ FinalHopFailed(Key(o), "destinationUnavailable")
                /\ ApplyNext(t, out', Key(o))
                /\ UNCHANGED <<sessionVars, arrivalVars, retentionVars, airVars, delivered>>
                /\ HoldsBy(tasks[t], Key(o))
  BY <1>1, <1>2, <1>5, <1>6, <1>11 DEF retentionVars
<1>12. ASSUME Throw(t), UNCHANGED <<relayVars, link, retained, airVars>>
       PROVE  OrderOK
  BY <1>9, <1>12 DEF Throw, airVars
<1> QED
  BY <1>1, <1>7, <1>8, <1>10, <1>11, <1>12 DEF Forward

(* The relay a release hands over is the new head of the order.            *)
LEMMA NextIsHead ==
    ASSUME RuntimeInv, RuntimeInv', TableRouted, NEW op, NEW a, op \in Routes, Admitted(Key(op)),
           operations[Key(op)] = op, NextIs(op, a), a.forward # None, UNCHANGED scenario
    PROVE  \E next \in Routes :
            /\ next = a.forward /\ next # op /\ Pair(next) = Pair(op)
            /\ IsHead(next)' /\ Admitted(Key(next))'
<1>1. PICK k, p, s : k = Key(op) /\ p = Pair(op) /\ s = order'[p]
  OBVIOUS
<1>2. /\ k \in Keys /\ p \in Pairs /\ operations \in [Keys -> Operations \cup {None}]
      /\ operations' = [operations EXCEPT ![k] = None]
  BY <1>1, InOrder DEF NextIs, RuntimeInv, RelayInv, TableInv, TableTypeOK
<1>3. s # <<>> /\ a.forward = operations'[Head(s)]
  BY <1>1 DEF NextIs, NextForward
<1>4. TableTypeOK' /\ OrderExact'
  BY DEF RuntimeInv, RelayInv, TableInv
<1>5. s \in Seq(Keys)
  BY <1>1, <1>2, <1>4 DEF TableTypeOK
<1>6. Len(s) \in Nat /\ 1 \in 1..Len(s) /\ s[1] = Head(s) /\ Head(s) \in Keys
  BY <1>3, <1>5, EmptySeq, HeadTailProperties, LenProperties
<1>7. PICK h : h = Head(s) /\ h \in Keys /\ s[1] = h
  BY <1>6
<1>8. operations'[h] # None /\ Pair(operations'[h]) = p
  BY <1>1, <1>2, <1>4, <1>6, <1>7 DEF OrderExact, Admitted
<1>9. Key(operations'[h]) = h
  BY <1>4, <1>7, <1>8 DEF TableTypeOK, Admitted
<1>10. h # k /\ operations'[h] = operations[h]
  BY <1>2, <1>7, <1>8
<1>11. operations[h] \in Routes
  BY <1>7, <1>8, <1>10 DEF TableRouted, Admitted, Routes
<1>12. PICK next \in Routes : next = a.forward
  BY <1>3, <1>7, <1>10, <1>11
<1>13. next = operations'[h] /\ Key(next) = h /\ Pair(next) = p
  BY <1>3, <1>7, <1>8, <1>9, <1>12
<1>14. IsHead(next)'
  BY <1>1, <1>3, <1>7, <1>13 DEF IsHead
<1>15. Admitted(Key(next))'
  BY <1>7, <1>8, <1>13 DEF Admitted
<1> QED
  BY <1>1, <1>10, <1>12, <1>13, <1>14, <1>15

(* A completion or failure of the relay k goes on with what it returns.    *)
Finishes(k, t, task) ==
    /\ \E status : FinalHopFailed(k, status) \/ FinalHopSubmitted(k) \/ FinalHopAcknowledged(k)
    /\ tasks' = [tasks EXCEPT ![t] = task]
    /\ task.pc = "apply" /\ out' = {task.act}
    /\ \A b \in task.rest : tasks[t] # None /\ b \in tasks[t].rest
SpentHop(op) ==
    \E hop \in Hops :
        /\ hop[1] = Key(op) /\ retained[hop] # None /\ retained'[hop] = None
        /\ On(op) \/ retained[hop].state = "awaiting"

(* A handler completes the relay and goes on with its successor: the       *)
(* released operation is spent, so the successor's turn has come.          *)
LEMMA ReleaseOrder ==
    ASSUME RuntimeInv, RuntimeInv', Routed, NEW k \in Keys, NEW t \in TaskIds, NEW task,
           Finishes(k, t, task),
           UNCHANGED <<members, authority, link, arrivalVars>>,
           \A key : StillKept(key),
           AirSame \/ \E new : AirAdds(new) /\ new.mode = "ordered",
           \A op \in Routes : Key(op) = k /\ Admitted(k) =>
                \/ HoldsBy(tasks[t], k)
                \/ op.mode = "acked" /\ SpentHop(op)
                \/ op.mode = "ordered" /\ About(k)
    PROVE  OrderOK
<1>1. PICK status :
        FinalHopFailed(k, status) \/ FinalHopSubmitted(k) \/ FinalHopAcknowledged(k)
  BY DEF Finishes
<1>2. /\ tasks' = [tasks EXCEPT ![t] = task]
      /\ task.pc = "apply" /\ out' = {task.act}
      /\ \A b \in task.rest : tasks[t] # None /\ b \in tasks[t].rest
  BY DEF Finishes
<1>3. /\ RelayInv /\ TableRouted /\ TasksRouted /\ WireRouted /\ KeptRouted
      /\ TasksOK /\ LinksOK' /\ LinksOK
  BY DEF Routed, RuntimeInv, LinksOK
<1>4. AirFlows /\ AirStep /\ UNCHANGED <<scenario, admissions>> /\ SameClosed
  BY DEF AirFlows, AirStep, arrivalVars, SameClosed, Closed
<1>5. \A b \in task.rest : Asks(b, Workload)
  BY <1>2, <1>3 DEF TasksRouted, RoutedTask
<1>6. CASE ~Admitted(k) /\ out' = {NoActions} /\ UNCHANGED <<operations, order>>
  <2>1. task.act = NoActions
    BY <1>2, <1>6
  <2>2. RoutedTask(task, Workload)
    BY <1>2, <1>5, <2>1, NothingAsks DEF RoutedTask, HopPcs
  <2>3. Idling(task, tasks[t])
    BY <1>2, <2>1 DEF Idling, HopPcs, NoActions
  <2>4. \A key : Milder(key, task, tasks[t])
    BY <2>3, IdlingMilder
  <2>5. TableSame
    BY <1>4, <1>6 DEF TableSame
  <2> QED
    BY <1>2, <1>3, <1>4, <1>6, <2>2, <2>4, <2>5, OneQuietStep
<1>7. ASSUME Admitted(k), NEW op, NEW a, op = operations[k], Key(op) = k, NextIs(op, a)
      PROVE  OrderOK
  <2>1. op \in Routes /\ operations[Key(op)] = op
    BY <1>3, <1>7 DEF TableRouted, Routes
  <2>2. task.act = a /\ a.deliver = None
    BY <1>2, <1>7 DEF NextIs
  <2>3. ASSUME a.forward # None
        PROVE  \E next \in Routes :
                /\ next = a.forward /\ next # op /\ Pair(next) = Pair(op)
                /\ IsHead(next)' /\ Admitted(Key(next))'
    BY <1>3, <1>4, <1>7, <2>1, <2>3, NextIsHead
  <2>4. TableReleases(op)
    BY <1>4, <1>7, <2>1 DEF TableReleases, NextIs
  <2>5. Asks(a, Workload)
    BY <2>2, <2>3 DEF Asks, Routes
  <2>6. RoutedTask(task, Workload)
    BY <1>2, <1>5, <2>2, <2>5 DEF RoutedTask, HopPcs
  <2>7. Workload' = Workload
    BY <1>4 DEF Workload
  <2>8. TableRouted'
    <3>1. operations \in [Keys -> Operations \cup {None}]
      BY <1>3 DEF RelayInv, TableInv, TableTypeOK
    <3>2. \A key \in Keys : operations'[key] \in {operations[key], None}
      BY <1>7, <3>1 DEF NextIs
    <3> QED
      BY <1>3, <2>7, <3>2 DEF TableRouted, Admitted
  <2>9. TasksRouted'
    BY <1>2, <1>3, <1>4, <2>6, OneRouted
  <2>10. KeptRouted'
    BY <1>3, <1>4, KeptLessRouted DEF StillKept
  <2>11. WireRouted' /\ ReceivedRouted'
    BY <1>4, AirRouted
  <2>12. \A u \in TaskIds : tasks'[u] = IF u = t THEN task ELSE tasks[u]
    BY <1>2, <1>3, OneTaskIs
  <2>13. ASSUME NEW o \in Routes, a.forward # o
         PROVE  OpStep(o) /\ (o.mode = "acked" => Calm(o)) /\ ~HoldsBy(task, Key(o))
    <3>1. a.forward # None => Key(a.forward) # Key(o)
      BY <2>3, <2>13, RoutesDiffer
    <3>2. ~HoldsBy(task, Key(o))
      BY <2>2, <3>1 DEF HoldsBy
    <3>3. Milder(Key(o), task, tasks[t])
      BY <1>2, <3>2 DEF Milder, Softer, SendsBy, AboutBy, HopPcs
    <3>4. QuietFor(Key(o))
      BY <1>2, <1>3, <3>3, OneQuiet
    <3> QED
      BY <1>3, <1>4, <3>2, <3>4, QuietOp
  <2>14. op \in Routes /\ a.forward # op
    <3>1. a.forward = op => a.forward # None
      BY <1>7 DEF Admitted
    <3> QED
      BY <2>1, <2>3, <3>1
  <2>15. Released(op)
    <3>1. ASSUME op.mode = "acked" PROVE Spent(op)
      <4>1. CASE HoldsBy(tasks[t], k)
        <5>1. HoldsBy(tasks[t], Key(op)) /\ ~HoldsBy(tasks'[t], Key(op))
          BY <1>7, <2>12, <2>13, <2>14, <4>1
        <5> QED
          BY <5>1 DEF Spent
      <4>2. CASE SpentHop(op)
        BY <4>2 DEF Spent, SpentHop
      <4> QED
        BY <1>7, <2>1, <3>1, <4>1, <4>2
    <3>2. ASSUME op.mode = "ordered" PROVE About(Key(op))
      <4>1. HoldsBy(tasks[t], k) => About(k)
        BY DEF About, AboutBy
      <4> QED
        BY <1>7, <2>1, <3>2, <4>1
    <3> QED
      BY <2>13, <2>14, <3>1, <3>2 DEF Released
  <2>16. ASSUME NEW o \in Routes, a.forward = o, NoneAssumption PROVE OpStep(o)
    <3>0. o # None
      BY WorkloadIs, NoneAssumption DEF Routes, RuntimeInv, Shape
    <3>1. o # op /\ Pair(o) = Pair(op) /\ IsHead(o)' /\ Admitted(Key(o))'
      BY <2>3, <2>16, <3>0
    <3>2. GivenOut(o)
      BY <2>4, <3>1 DEF GivenOut
    <3>3. ASSUME o.mode = "acked" PROVE Handed(o)
      <4>1. \A u \in TaskIds \ {t} : Softer(Key(o), tasks'[u], tasks[u])
        BY <2>12 DEF Softer
      <4>2. ~SendsBy(tasks'[t], Key(o))
        BY <1>2, <2>12 DEF SendsBy, HopPcs
      <4>3. On(o) <=> On(o)'
        <5>1. CASE AirSame
          BY <5>1, AirSameIs
        <5>2. ASSUME NEW new, AirAdds(new), new.mode = "ordered"
              PROVE  On(o) <=> On(o)'
          <6>1. o # new
            BY <3>3, <5>2
          <6> QED
            BY <5>2, <6>1, AirAddsIs DEF On
        <5> QED
          BY <5>1, <5>2
      <4> QED
        BY <4>1, <4>2, <4>3 DEF Handed, StillKept
    <3> QED
      BY <3>1, <3>2, <3>3 DEF OpStep
  <2>17. \A o \in Steady : OpStep(o)
    BY <2>13, <2>16, NoneAssumption DEF Steady
  <2> QED
    BY <1>3, <1>4, <2>4, <2>8, <2>9, <2>10, <2>11, <2>15, <2>17
       DEF OrderOK, Routed, OrderStep, TableMove
<1> QED
  BY <1>1, <1>3, <1>6, <1>7, FinalReleases

(* A handler submits the hop it was given, or fails it for want of a link. *)
LEMMA FailedForwardOrder ==
    ASSUME RuntimeInv, RuntimeInv', Routed, NEW t \in TaskIds, Forward(t)
    PROVE  OrderOK
<1> SUFFICES ASSUME NEW op \in Routes,
                    op = tasks[t].act.forward,
                    FinalHopFailed(Key(op), "destinationUnavailable"),
                    ApplyNext(t, out', Key(op)),
                    UNCHANGED <<sessionVars, arrivalVars, retentionVars, airVars, delivered>>,
                    HoldsBy(tasks[t], Key(op))
             PROVE  OrderOK
  BY ForwardOrder
<1>1. PICK k : k = Key(op)
  OBVIOUS
<1>2. k \in Keys /\ TableRouted
  BY <1>1, InOrder DEF Routed
<1>3. PICK a : out' = {a}
  BY <1>1, <1>2, FinalReleases DEF RuntimeInv, NextIs
<1> DEFINE task == [tasks[t] EXCEPT !.pc = "apply", !.act = a, !.local = k]
<1>4. tasks' = [tasks EXCEPT ![t] = task]
  <2>1. (CHOOSE b \in out' : TRUE) = a
    BY <1>3
  <2> QED
    BY <1>1, <2>1 DEF ApplyNext
<1>5. tasks[t] # None /\ tasks[t] \in TaskRecords
  BY DEF HoldsBy, RuntimeInv, TasksOK, TaskOK
<1>6. task.pc = "apply" /\ task.act = a /\ task.rest = tasks[t].rest
  BY <1>5 DEF TaskRecords
<1> HIDE DEF task
<1>7. Finishes(k, t, task)
  BY <1>1, <1>3, <1>4, <1>5, <1>6 DEF Finishes
<1>8. AirSame /\ UNCHANGED <<members, authority, link, arrivalVars, retained>>
  BY DEF airVars, sessionVars, retentionVars, AirSame, SameGot
<1>9. HoldsBy(tasks[t], k)
  BY <1>1
<1> QED
  BY <1>2, <1>7, <1>8, <1>9, AllStillKept, ReleaseOrder

(* The hop was written; an ordered relay is complete then.                 *)
LEMMA HopSubmittedOrder ==
    ASSUME RuntimeInv, RuntimeInv', Routed, OrderInv, NEW t \in TaskIds, HopSubmitted(t)
    PROVE  OrderOK
<1>1. PICK op \in Routes, hop \in AnyHops :
            /\ op = tasks[t].act.forward /\ hop = tasks[t].hop /\ hop[1] = Key(op)
            /\ tasks[t] # None /\ tasks[t].pc = "submitting"
            /\ tasks[t] \in TaskRecords /\ RoutedTask(tasks[t], Workload)
            /\ AirSame \/ AirAdds(op)
            /\ "earlyAck" \in Faults => AirSame
            /\ "earlyAck" \notin Faults => AirAdds(op)
            /\ Sent(Key(op)) /\ SendsBy(tasks[t], Key(op))
  BY SubmittedIs
<1>2. UNCHANGED <<sessionVars, arrivalVars, delivered>>
  BY DEF HopSubmitted
<1>3. CASE /\ retained' = DeadlineStarted(tasks[t].hop)
           /\ Goto(t, "next")
           /\ UNCHANGED relayVars
  BY <1>3, AckedSubmittedOrder
<1>4. CASE Throw(t) /\ UNCHANGED <<relayVars, retentionVars>>
  <2>1. UNCHANGED retained
    BY <1>4 DEF retentionVars
  <2> QED
    BY <1>1, <1>2, <1>4, <2>1, AllStillKept, FinishOrder DEF Throw, AirFlows
<1>5. CASE /\ op.mode = "ordered"
           /\ FinalHopSubmitted(Key(op))
           /\ ApplyNext(t, out', None)
           /\ UNCHANGED retentionVars
  <2>1. PICK k : k = Key(op)
    OBVIOUS
  <2>2. k \in Keys /\ TableRouted
    BY <2>1, InOrder DEF Routed
  <2>3. PICK a : out' = {a}
    BY <1>5, <2>1, <2>2, FinalReleases DEF RuntimeInv, NextIs
  <2> DEFINE task == [tasks[t] EXCEPT !.pc = "apply", !.act = a, !.local = None]
  <2>4. tasks' = [tasks EXCEPT ![t] = task]
    <3>1. (CHOOSE b \in out' : TRUE) = a
      BY <2>3
    <3> QED
      BY <1>5, <3>1 DEF ApplyNext
  <2>5. task.pc = "apply" /\ task.act = a /\ task.rest = tasks[t].rest
    BY <1>1 DEF TaskRecords
  <2> HIDE DEF task
  <2>6. Finishes(k, t, task)
    BY <1>1, <1>5, <2>1, <2>3, <2>4, <2>5 DEF Finishes
  <2>7. UNCHANGED <<members, authority, link, arrivalVars, retained>>
    BY <1>2, <1>5 DEF sessionVars, retentionVars
  <2>8. About(k)
    BY <1>1, <2>1 DEF About, AboutBy
  <2>9. \A o \in Routes : Key(o) = k => o.mode = "ordered"
    BY <1>1, <1>5, <2>1, RoutesDiffer
  <2>10. AirSame \/ \E new : AirAdds(new) /\ new.mode = "ordered"
    BY <1>1, <1>5
  <2> QED
    BY <2>2, <2>6, <2>7, <2>8, <2>9, <2>10, AllStillKept, ReleaseOrder
<1> QED
  BY <1>1, <1>3, <1>4, <1>5 DEF HopSubmitted

(* A new handler goes on with what the completion of a hop returns.        *)
LEMMA SpawnReleaseOrder ==
    ASSUME RuntimeInv, RuntimeInv', Routed, CanStart, NEW hop \in Hops,
           \E status : FinalHopFailed(hop[1], status) \/ FinalHopAcknowledged(hop[1]),
           \E act \in out' : Spawn(Task("apply", act, hop[1], {})),
           UNCHANGED <<sessionVars, arrivalVars, wire, delivered>>,
           \A key : StillKept(key),
           \A op \in Routes : Key(op) = hop[1] => op.mode = "acked" /\ SpentHop(op)
    PROVE  OrderOK
<1>1. PICK k : k = hop[1]
  OBVIOUS
<1>2. k \in Keys
  BY <1>1 DEF Hops
<1>3. PICK a : out' = {a}
  BY <1>1, <1>2, FinalReleases DEF RuntimeInv, NextIs
<1> DEFINE task == Task("apply", a, k, {})
<1>4. tasks' = [tasks EXCEPT ![NewTask] = task] /\ NewTask \in TaskIds
  BY <1>1, <1>3, NewTaskIs DEF Spawn
<1>5. task.pc = "apply" /\ task.act = a /\ task.rest = {}
  BY DEF Task
<1> HIDE DEF task
<1>6. Finishes(k, NewTask, task)
  BY <1>1, <1>3, <1>4, <1>5 DEF Finishes
<1>7. UNCHANGED <<members, authority, link, arrivalVars>> /\ AirSame
  BY DEF sessionVars, AirSame, SameGot
<1>8. \A op \in Routes : Key(op) = k => op.mode = "acked" /\ SpentHop(op)
  BY <1>1
<1> QED
  BY <1>2, <1>4, <1>6, <1>7, <1>8, ReleaseOrder

(* Retained hops become less.                                              *)
LEMMA HopDropped ==
    ASSUME RuntimeInv, NEW hop, retained' = [retained EXCEPT ![hop] = None]
    PROVE  /\ \A key : StillKept(key)
           /\ hop \in Hops => retained'[hop] = None
<1>1. retained \in [Hops -> Entries \cup {None}]
  BY DEF RuntimeInv, Shape
<1> QED
  BY <1>1 DEF StillKept, KeptLess, NotAwaited

(* The generic ACK completes the relay of a retained hop.                  *)
LEMMA GenericAckArrivesOrder ==
    ASSUME RuntimeInv, RuntimeInv', Routed, NEW hop \in Hops, GenericAckArrives(hop)
    PROVE  OrderOK
<1>1. /\ CanStart /\ hop \in acks
      /\ retained' = [retained EXCEPT ![hop] = None]
      /\ UNCHANGED <<sessionVars, arrivalVars, wire, resultVars>>
  BY DEF GenericAckArrives
<1>2. UNCHANGED <<sessionVars, arrivalVars, wire, delivered>> /\ AirSame
  BY <1>1 DEF resultVars, AirSame, SameGot
<1>3. (\A key : StillKept(key)) /\ retained'[hop] = None
  BY <1>1, HopDropped
<1>4. CASE /\ retained[hop] # None
           /\ FinalHopAcknowledged(hop[1])
           /\ \E act \in out' : Spawn(Task("apply", act, hop[1], {}))
  <2>1. PICK op \in Workload :
          op.mode = "acked" /\ op.destination \in Remotes /\ Key(op) = hop[1]
    BY <1>4 DEF Routed, KeptRouted
  <2>2. op \in Routes
    BY <2>1 DEF Routes
  <2>3. Got(op)
    BY <1>1, <2>1, <2>2 DEF RuntimeInv, Honest, Reached, Got
  <2>4. SpentHop(op)
    BY <1>3, <1>4, <2>1, <2>3 DEF SpentHop, On
  <2>5. \A o \in Routes : Key(o) = hop[1] => o.mode = "acked" /\ SpentHop(o)
    BY <2>1, <2>2, <2>4, RoutesDiffer
  <2> QED
    BY <1>1, <1>2, <1>3, <1>4, <2>5, SpawnReleaseOrder
<1>5. CASE UNCHANGED <<relayVars, tasks>>
  <2>1. TableSame /\ LinksOK' /\ UNCHANGED <<scenario, operations>>
    <3>1. link' = link /\ UNCHANGED <<relayVars, members, authority, arrivalVars>>
      BY <1>1, <1>5 DEF sessionVars
    <3> QED
      BY <3>1, SameTable
  <2> QED
    BY <1>2, <1>3, <1>5, <2>1, SameTasks, QuietStep DEF AirFlows
<1> QED
  BY <1>4, <1>5 DEF GenericAckArrives

(* A timeout retransmits the hop or fails its relay.                       *)
LEMMA AckTimeoutOrder ==
    ASSUME RuntimeInv, RuntimeInv', Routed, NEW hop \in Hops, AckTimeout(hop)
    PROVE  OrderOK
<1>1. /\ CanStart /\ retained[hop] # None /\ retained[hop].state = "awaiting"
      /\ UNCHANGED <<sessionVars, arrivalVars, airVars, resultVars>>
  BY DEF AckTimeout
<1>2. UNCHANGED <<sessionVars, arrivalVars, wire, delivered>> /\ AirSame
  BY <1>1 DEF resultVars, airVars, AirSame, SameGot
<1>3. PICK op \in Workload :
          op.mode = "acked" /\ op.destination \in Remotes /\ Key(op) = hop[1]
  BY <1>1 DEF Routed, KeptRouted
<1>4. op \in Routes /\ OpOf(Key(op)) = op
  BY <1>3, OpOfIs DEF Routes, RuntimeInv, Shape
<1>5. UNCHANGED relayVars => TableSame /\ LinksOK' /\ UNCHANGED <<scenario, operations>>
  <2>1. link' = link /\ UNCHANGED <<members, authority, arrivalVars>>
    BY <1>1 DEF sessionVars
  <2> QED
    BY <2>1, SameTable
<1>6. CASE /\ retained' = [retained EXCEPT ![hop] = None]
           /\ FinalHopFailed(hop[1], "destinationAckTimeout")
           /\ \E act \in out' : Spawn(Task("apply", act, hop[1], {}))
  <2>1. (\A key : StillKept(key)) /\ retained'[hop] = None
    BY <1>6, HopDropped
  <2>2. SpentHop(op)
    BY <1>1, <1>3, <2>1 DEF SpentHop
  <2>3. \A o \in Routes : Key(o) = hop[1] => o.mode = "acked" /\ SpentHop(o)
    BY <1>3, <1>4, <2>2, RoutesDiffer
  <2> QED
    BY <1>1, <1>2, <1>6, <2>1, <2>3, SpawnReleaseOrder
<1>7. CASE retained' = [retained EXCEPT ![hop] = None] /\ UNCHANGED <<relayVars, tasks>>
  <2>1. \A key : StillKept(key)
    BY <1>7, HopDropped
  <2> QED
    BY <1>2, <1>5, <1>7, <2>1, SameTasks, QuietStep DEF AirFlows
<1>8. CASE /\ retained' = [retained EXCEPT ![hop] =
                [state |-> "pending", tries |-> @.tries + 1]]
           /\ Spawn([Task("resubmitting", NoActions, None, {}) EXCEPT
                        !.hop = hop, !.peer = HopPeer(hop)])
           /\ UNCHANGED relayVars
  <2> DEFINE task == [Task("resubmitting", NoActions, None, {}) EXCEPT
                        !.hop = hop, !.peer = HopPeer(hop)]
  <2>1. tasks' = [tasks EXCEPT ![NewTask] = task] /\ NewTask \in TaskIds
    BY <1>1, <1>8, NewTaskIs DEF Spawn
  <2>2. task.pc = "resubmitting" /\ task.act = NoActions /\ task.rest = {} /\ task.hop = hop
        /\ task.peer = op.destination
    BY <1>3, <1>4 DEF Task, HopPeer
  <2> HIDE DEF task
  <2>3. RoutedTask(task, Workload) /\ Resends(task, tasks[NewTask], hop)
    BY <1>3, <2>2, NothingAsks DEF RoutedTask, HopPcs, Resends
  <2>4. PICK e : e.state = "pending" /\ retained' = [retained EXCEPT ![hop] = e]
    BY <1>8
  <2> QED
    BY <1>1, <1>2, <1>5, <1>8, <2>1, <2>3, <2>4, StartsStep
<1> QED
  BY <1>6, <1>7, <1>8 DEF AckTimeout

-----------------------------------------------------------------------------
(* Admission                                                               *)

(* A handler starts with what an admission returns.                        *)
StartsWith(act, t, task) ==
    /\ t \in TaskIds /\ tasks' = [tasks EXCEPT ![t] = task]
    /\ task.act = act /\ task.pc \in {"acking", "apply"} /\ task.rest = {}

(* An admission hands a relay over only when its order was empty.          *)
LEMMA AdmissionOrder ==
    ASSUME RuntimeInv, Routed, NEW op \in Workload, NEW ready,
           Admit(op, members, ready), RecordAdmission(op), authority,
           op.destination # Coordinator /\ ready => Ready(op.destination),
           tasks' = tasks \/ \E act \in out' : \E t, task : StartsWith(act, t, task),
           UNCHANGED <<sessionVars, retained, wire>>, SameGot
    PROVE  OrderOK
<1>1. /\ scenario \in Scenarios /\ RelayInv /\ op \in Operations /\ Key(op) \in Keys
      /\ TasksOK /\ TableRouted /\ WireRouted /\ LinksOK /\ LinksOK' /\ UNCHANGED scenario
  BY WorkloadIs DEF RuntimeInv, Shape, Routed, LinksOK, sessionVars, RecordAdmission
<1>2. \A a \in out' : Asks(a, Workload)
  BY <1>1, AdmitAsks
<1>3. AirSame /\ AirFlows /\ AirStep /\ SameClosed
  BY DEF AirSame, AirFlows, AirStep, SameClosed, Closed, sessionVars
<1>4. \A key : StillKept(key)
  BY AllStillKept
<1>5. CASE UNCHANGED tableVars /\ \A a \in out' : a.forward = None
  <2>1. TableSame /\ UNCHANGED operations
    BY <1>3, <1>5 DEF TableSame, tableVars, RecordAdmission, Admitted
  <2>2. CASE tasks' = tasks
    BY <1>1, <1>3, <1>4, <2>1, <2>2, SameTasks, QuietStep
  <2>3. ASSUME NEW act \in out', NEW t, NEW task, StartsWith(act, t, task)
        PROVE  OrderOK
    <3>1. t \in TaskIds /\ tasks' = [tasks EXCEPT ![t] = task] /\ act.forward = None
      BY <1>5, <2>3 DEF StartsWith
    <3>2. RoutedTask(task, Workload)
      BY <1>2, <2>3 DEF StartsWith, RoutedTask, HopPcs
    <3>3. Idling(task, tasks[t])
      BY <2>3, <3>1 DEF StartsWith, Idling, HopPcs
    <3>4. \A key : Milder(key, task, tasks[t])
      BY <3>3, IdlingMilder
    <3> QED
      BY <1>1, <1>3, <1>4, <2>1, <3>1, <3>2, <3>4, OneQuietStep
  <2> QED
    BY <2>2, <2>3
<1>6. CASE AdmitForward(op, members, ready)
  <2>1. /\ op.destination \in Remotes /\ op.destination \in members /\ Ready(op.destination)
        /\ ~Admitted(Key(op))
        /\ operations' = [operations EXCEPT ![Key(op)] = op]
        /\ order' = [order EXCEPT ![Pair(op)] = Append(@, Key(op))]
        /\ \A a \in out' : a.forward = IF order[Pair(op)] = <<>> THEN op ELSE None
    BY <1>1, <1>6 DEF AdmitForward, Routable, Remotes, Operations, NoActions
  <2>2. op \in Routes /\ op # None
    BY <1>1, <2>1, NoneAssumption DEF Routes
  <2>3. operations \in [Keys -> Operations \cup {None}]
    BY <1>1 DEF RelayInv, TableInv, TableTypeOK
  <2>4. admissions' = Append(admissions, Key(op))
    BY <1>1, <2>1, <2>2, <2>3 DEF RecordAdmission
  <2>5. ~Closed(op.destination)
    BY <2>1 DEF Closed, Ready
  <2>6. TableAdmits(op)
    BY <1>3, <2>1, <2>2, <2>4, <2>5 DEF TableAdmits
  <2>7. Workload' = Workload
    BY <1>1 DEF Workload
  <2>8. TableRouted'
    BY <1>1, <2>1, <2>3, <2>7 DEF TableRouted, Admitted
  <2>9. TasksRouted'
    <3>1. CASE tasks' = tasks
      BY <1>1, <3>1, SameTasks
    <3>2. ASSUME NEW act \in out', NEW t, NEW task, StartsWith(act, t, task)
          PROVE  TasksRouted'
      <4>1. RoutedTask(task, Workload)
        BY <1>2, <3>2 DEF StartsWith, RoutedTask, HopPcs
      <4>2. t \in TaskIds /\ tasks' = [tasks EXCEPT ![t] = task]
        BY <3>2 DEF StartsWith
      <4> QED
        BY <1>1, <4>1, <4>2, OneRouted DEF Routed
    <3> QED
      BY <3>1, <3>2
  <2>10. KeptRouted' /\ WireRouted' /\ ReceivedRouted'
    BY <1>1, <1>3, <1>4, KeptLessRouted, AirRouted DEF StillKept, Routed
  <2>11. ASSUME NEW o \in Routes,
                o # op \/ order[Pair(op)] # <<>> \/ tasks' = tasks
         PROVE  OpStep(o)
    <3>1. CASE tasks' = tasks
      BY <1>1, <1>3, <1>4, <3>1, SameTasks, QuietOp
    <3>2. ASSUME NEW act \in out', NEW t, NEW task, StartsWith(act, t, task),
                 o # op \/ order[Pair(op)] # <<>>
          PROVE  OpStep(o)
      <4>1. t \in TaskIds /\ tasks' = [tasks EXCEPT ![t] = task]
        BY <3>2 DEF StartsWith
      <4>2. ~HoldsBy(task, Key(o))
        <5>1. act.forward = None \/ (act.forward = op /\ o # op)
          BY <2>1, <3>2
        <5>2. o # op => Key(o) # Key(op)
          BY <2>2, RoutesDiffer
        <5> QED
          BY <3>2, <5>1, <5>2 DEF HoldsBy, StartsWith
      <4>3. Milder(Key(o), task, tasks[t])
        BY <3>2, <4>2 DEF StartsWith, Milder, Softer, SendsBy, AboutBy, HopPcs
      <4>4. QuietFor(Key(o))
        BY <1>1, <4>1, <4>3, OneQuiet
      <4> QED
        BY <1>1, <1>3, <1>4, <4>4, QuietOp
    <3> QED
      BY <2>11, <3>1, <3>2
  <2>12. ASSUME order[Pair(op)] = <<>>, NEW act \in out', NEW t, NEW task,
                StartsWith(act, t, task)
         PROVE  OpStep(op)
    <3>1. t \in TaskIds /\ tasks' = [tasks EXCEPT ![t] = task]
      BY <2>12 DEF StartsWith
    <3>2. \A u \in TaskIds : tasks'[u] = IF u = t THEN task ELSE tasks[u]
      BY <1>1, <3>1, OneTaskIs
    <3>3. IsHead(op)' /\ Admitted(Key(op))'
      BY <1>1, <2>2, <2>6, <2>12, AdmitsIs
    <3>4. GivenOut(op)
      BY <2>6, <2>12, <3>3 DEF GivenOut
    <3>5. Handed(op)
      <4>1. \A u \in TaskIds \ {t} : Softer(Key(op), tasks'[u], tasks[u])
        BY <3>2 DEF Softer
      <4>2. ~SendsBy(tasks'[t], Key(op))
        BY <2>12, <3>1, <3>2 DEF StartsWith, SendsBy, HopPcs
      <4>3. On(op) <=> On(op)'
        BY <1>3, <2>2, AirSameIs
      <4> QED
        BY <1>4, <3>1, <4>1, <4>2, <4>3 DEF Handed, StillKept
    <3> QED
      BY <3>3, <3>4, <3>5 DEF OpStep
  <2>13. \A o \in Steady : OpStep(o)
    BY <2>11, <2>12 DEF Steady
  <2> QED
    BY <1>1, <1>3, <2>6, <2>8, <2>9, <2>10, <2>13 DEF OrderOK, Routed, OrderStep, TableMove
<1> QED
  BY <1>1, <1>5, <1>6, AdmitTable

(* The hop of a remote source,                                             *)
LEMMA SourceHopOrder ==
    ASSUME RuntimeInv, Routed, NEW op \in Workload, SourceHop(op)
    PROVE  OrderOK
<1>1. PICK ready : ready = (op.destination = Coordinator \/ Ready(op.destination))
  OBVIOUS
<1>2. /\ CanStart /\ authority /\ Admit(op, members, ready) /\ RecordAdmission(op)
      /\ UNCHANGED <<sessionVars, retentionVars, airVars, resultVars>>
  BY <1>1 DEF SourceHop
<1>3. UNCHANGED <<sessionVars, retained, wire>> /\ SameGot
  BY <1>2 DEF retentionVars, airVars, resultVars, SameGot
<1>4. PICK act \in out' :
        \/ Spawn([Task("acking", act, None, {}) EXCEPT !.from = op.source])
        \/ UNCHANGED tasks
        \/ Spawn([Task("apply", act, None, {}) EXCEPT !.from = op.source])
  BY DEF SourceHop
<1>5. ASSUME NEW pc \in {"acking", "apply"},
             Spawn([Task(pc, act, None, {}) EXCEPT !.from = op.source])
      PROVE  \E t, task : StartsWith(act, t, task)
  <2> DEFINE task == [Task(pc, act, None, {}) EXCEPT !.from = op.source]
  <2>1. tasks' = [tasks EXCEPT ![NewTask] = task] /\ NewTask \in TaskIds
    BY <1>2, <1>5, NewTaskIs DEF Spawn
  <2>2. task.act = act /\ task.pc = pc /\ task.rest = {}
    BY DEF Task
  <2> HIDE DEF task
  <2>3. StartsWith(act, NewTask, task)
    BY <2>1, <2>2 DEF StartsWith
  <2> QED
    BY <2>3
<1>6. tasks' = tasks \/ \E a \in out' : \E t, task : StartsWith(a, t, task)
  BY <1>4, <1>5
<1> QED
  BY <1>1, <1>2, <1>3, <1>6, AdmissionOrder

(* and a send of the coordinator's own application.                        *)
LEMMA LocalSendOrder ==
    ASSUME RuntimeInv, Routed, NEW op \in Workload, LocalSend(op)
    PROVE  OrderOK
<1>1. PICK ready : ready = Ready(op.destination)
  OBVIOUS
<1>2. /\ CanStart /\ authority /\ Admit(op, members, ready) /\ RecordAdmission(op)
      /\ UNCHANGED <<sessionVars, retentionVars, airVars, delivered, told>>
  BY <1>1 DEF LocalSend
<1>3. UNCHANGED <<sessionVars, retained, wire>> /\ SameGot
  BY <1>2 DEF retentionVars, airVars, SameGot
<1>4. PICK act \in out' :
        Spawn([Task("apply", act, Key(op), {}) EXCEPT !.own = Key(op)])
  BY DEF LocalSend
<1> DEFINE task == [Task("apply", act, Key(op), {}) EXCEPT !.own = Key(op)]
<1>5. tasks' = [tasks EXCEPT ![NewTask] = task] /\ NewTask \in TaskIds
  BY <1>2, <1>4, NewTaskIs DEF Spawn
<1>6. task.act = act /\ task.pc = "apply" /\ task.rest = {}
  BY DEF Task
<1> HIDE DEF task
<1>7. StartsWith(act, NewTask, task)
  BY <1>5, <1>6 DEF StartsWith
<1> QED
  BY <1>1, <1>2, <1>3, <1>7, AdmissionOrder

-----------------------------------------------------------------------------
(* Resumed and abandoned destinations                                      *)

(* A resumed destination is handed the ordered heads of its orders.        *)
LEMMA ReplayOrderedOrder ==
    ASSUME RuntimeInv, Routed, NEW t \in TaskIds, ReplayOrdered(t)
    PROVE  OrderOK
<1>1. /\ t \in Running({"replay"})
      /\ UNCHANGED <<sessionVars, arrivalVars, retentionVars, airVars, resultVars>>
  BY DEF ReplayOrdered
<1>2. AirSame /\ UNCHANGED retained
  BY <1>1 DEF airVars, resultVars, retentionVars, AirSame, SameGot
<1>3. CASE Finish(t) /\ UNCHANGED relayVars
  BY <1>1, <1>2, <1>3, AllStillKept, FinishOrder DEF AirFlows
<1>4. CASE /\ DestinationResumeSucceeded(tasks[t].peer)
           /\ tasks' = [tasks EXCEPT ![t] = Task("next", NoActions, None,
                            {a \in out' : a.forward.mode = "ordered"})]
  <2>1. TableSame /\ UNCHANGED <<scenario, operations, order>> /\ LinksOK'
    BY <1>1, <1>4 DEF DestinationResumeSucceeded, tableVars, sessionVars, arrivalVars,
                      TableSame, SameClosed, Closed, Routed, LinksOK
  <2>2. PICK rest : rest = {a \in out' : a.forward.mode = "ordered"}
    OBVIOUS
  <2>3. ASSUME NEW a \in rest
        PROVE  /\ a.forward \in Routes /\ a.forward.mode = "ordered"
               /\ IsHead(a.forward) /\ Admitted(Key(a.forward)) /\ a.deliver = None
    <3>1. PICK k \in Keys :
            /\ Admitted(k) /\ k = Head(order[Pair(operations[k])])
            /\ a = [NoActions EXCEPT !.forward = operations[k]]
      BY <1>4, <2>2, <2>3 DEF DestinationResumeSucceeded, AdmittedTo
    <3>2. a.forward = operations[k] /\ a.deliver = None /\ a.forward.mode = "ordered"
      BY <2>2, <2>3, <3>1 DEF NoActions
    <3>3. operations[k] \in Routes /\ Key(operations[k]) = k
      BY <3>1 DEF Routed, TableRouted, Routes, RuntimeInv, RelayInv, TableInv, TableTypeOK
    <3>4. order[Pair(operations[k])] # <<>>
      BY <3>1, <3>3, InOrder DEF Routed
    <3> QED
      BY <3>1, <3>2, <3>3, <3>4 DEF IsHead
  <2> DEFINE task == Task("next", NoActions, None, rest)
  <2>4. tasks' = [tasks EXCEPT ![t] = task]
    BY <1>4, <2>2
  <2>5. task.pc = "next" /\ task.act = NoActions /\ task.rest = rest
    BY DEF Task
  <2> HIDE DEF task
  <2>6. RoutedTask(task, Workload)
    <3>1. \A a \in rest : Asks(a, Workload)
      BY <2>3 DEF Asks, Routes
    <3> QED
      BY <2>5, <3>1, NothingAsks DEF RoutedTask, HopPcs
  <2>7. TasksRouted' /\ TableRouted'
    BY <2>1, <2>4, <2>6, OneRouted, TableSameRouted DEF Routed
  <2>8. AirFlows /\ AirStep /\ WireRouted /\ \A key : StillKept(key)
    BY <1>2, AllStillKept DEF AirFlows, AirStep, Routed
  <2>9. WireRouted' /\ ReceivedRouted' /\ KeptRouted'
    BY <2>1, <2>8, AirRouted, KeptLessRouted DEF StillKept, Routed
  <2>10. ASSUME NEW op \in Steady PROVE OpStep(op)
    <3>1. op \in Routes
      BY <2>10 DEF Steady
    <3>2. CASE \E a \in rest : a.forward = op
      <4>1. op.mode = "ordered" /\ IsHead(op) /\ Admitted(Key(op))
        BY <2>3, <3>2
      <4>2. IsHead(op)' /\ Admitted(Key(op))'
        BY <2>1, <4>1 DEF IsHead, Admitted
      <4> QED
        BY <4>1, <4>2 DEF OpStep
    <3>3. CASE ~\E a \in rest : a.forward = op
      <4>1. \A a \in rest : Key(a.forward) # Key(op)
        BY <2>3, <3>1, <3>3, RoutesDiffer
      <4>2. Milder(Key(op), task, tasks[t])
        BY <2>5, <4>1 DEF Milder, Softer, HoldsBy, SendsBy, AboutBy, HandPcs, HopPcs
      <4>3. QuietFor(Key(op))
        BY <2>4, <4>2, OneQuiet DEF RuntimeInv
      <4> QED
        BY <2>8, <3>1, <4>3, QuietOp
    <3> QED
      BY <3>2, <3>3
  <2> QED
    BY <2>1, <2>7, <2>8, <2>9, <2>10 DEF OrderOK, Routed, OrderStep, TableMove
<1> QED
  BY <1>3, <1>4 DEF ReplayOrdered

(* The table forgets the relays towards peers that are closed now.         *)
LEMMA EmptiesStep ==
    ASSUME RuntimeInv, Routed, LinksOK', TasksRouted', TableEmpties,
           UNCHANGED <<scenario, retained, wire>>, SameGot,
           \A op \in Routes : QuietFor(Key(op))
    PROVE  OrderOK
<1>1. AirFlows /\ AirStep /\ WireRouted /\ \A key : StillKept(key)
  BY AllStillKept DEF AirSame, AirFlows, AirStep, Routed
<1>2. WireRouted' /\ ReceivedRouted' /\ KeptRouted'
  BY <1>1, AirRouted, KeptLessRouted DEF StillKept, Routed
<1>3. TableRouted'
  BY DEF Routed, TableRouted, TableEmpties, Admitted, Workload
<1>4. \A op \in Steady : OpStep(op)
  BY <1>1, QuietOp DEF Steady
<1> QED
  BY <1>1, <1>2, <1>3, <1>4 DEF OrderOK, Routed, OrderStep, TableMove

(* The peer is given up, with every relay towards it.                      *)
Abandons(peer) ==
    /\ \E status : DestinationTerminated(peer, status)
    /\ Spawn(Task("next", NoActions, None, out'))
    /\ UNCHANGED <<arrivalVars, authority, retained, wire>> /\ SameGot
    /\ Closed(peer)'
    /\ \A other \in Remotes \ {peer} : Closed(other)' <=> Closed(other)

(* The handler that reports the failed relays takes up none of them.       *)
LEMMA AbandonsStep ==
    ASSUME RuntimeInv, Routed, LinksOK', CanStart, NEW peer \in Remotes, Abandons(peer)
    PROVE  OrderOK
<1> DEFINE task == Task("next", NoActions, None, out')
<1>1. tasks' = [tasks EXCEPT ![NewTask] = task] /\ NewTask \in TaskIds
  BY NewTaskIs DEF Abandons, Spawn
<1>2. task.pc = "next" /\ task.act = NoActions /\ task.rest = out'
  BY DEF Task
<1> HIDE DEF task
<1>3. \A a \in out' : a.forward = None /\ a.deliver = None
  BY DEF Abandons, DestinationTerminated, RouteFailure, NoActions
<1>4. RoutedTask(task, Workload) /\ Idling(task, tasks[NewTask])
  BY <1>2, <1>3, NothingAsks DEF RoutedTask, Idling, Asks, HandPcs, HopPcs
<1>5. UNCHANGED <<scenario, admissions>>
  BY DEF Abandons, arrivalVars
<1>6. TasksRouted' /\ \A op \in Routes : QuietFor(Key(op))
  <2>1. TasksRouted'
    BY <1>1, <1>4, <1>5, OneRouted DEF Routed
  <2>2. \A key : Milder(key, task, tasks[NewTask])
    BY <1>4, IdlingMilder
  <2> QED
    BY <1>1, <2>1, <2>2, OneQuiet DEF RuntimeInv
<1>7. TableEmpties
  <2>1. /\ \A key \in Keys : operations'[key] \in {operations[key], None}
        /\ \A pair \in Pairs :
                order'[pair] = IF pair[2] = peer THEN <<>> ELSE order[pair]
    BY DEF Abandons, DestinationTerminated, ReleaseDestination
  <2>2. \A op \in Routes : Pair(op) \in Pairs /\ Pair(op)[2] = op.destination
                           /\ op.destination \in Remotes
    BY InOrder DEF Routed, Routes, Pair
  <2> QED
    BY <1>5, <2>1, <2>2 DEF Abandons, TableEmpties
<1> QED
  BY <1>5, <1>6, <1>7, EmptiesStep DEF Abandons

(* Reconnecting was given up.                                              *)
LEMMA LinkClosedOrder ==
    ASSUME RuntimeInv, Routed, NEW peer \in Remotes, LinkClosed(peer)
    PROVE  OrderOK
<1>1. /\ CanStart /\ link' = [link EXCEPT ![peer] = "closed"]
      /\ UNCHANGED <<members, authority, arrivalVars, retained, wire>> /\ AirSame
  BY DEF LinkClosed, retentionVars, airVars, resultVars, AirSame, SameGot
<1>2. LinksOK /\ LinksOK' /\ link'[peer] = "closed"
      /\ \A other \in Remotes \ {peer} : link'[other] = link[other]
  BY <1>1 DEF Routed, LinksOK
<1>3. CASE authority
  <2>1. DestinationTerminated(peer, "destinationUnavailable")
        /\ Spawn(Task("next", NoActions, None, out'))
    BY <1>3 DEF LinkClosed, DestinationResumeFailed
  <2>2. Closed(peer)' /\ \A other \in Remotes \ {peer} : Closed(other)' <=> Closed(other)
    BY <1>1, <1>2 DEF Closed
  <2>3. SameGot /\ wire' = wire
    BY <1>1 DEF AirSame
  <2> QED
    BY <1>1, <1>2, <2>1, <2>2, <2>3, AbandonsStep DEF Abandons
<1>4. CASE ~authority
  <2>1. UNCHANGED <<relayVars, tasks>>
    BY <1>4 DEF LinkClosed
  <2>2. SameClosed
    BY <1>1, <1>4 DEF SameClosed, Closed
  <2>3. TableSame /\ UNCHANGED <<scenario, operations>>
    BY <1>1, <1>2, <2>1, <2>2, SameTable
  <2>4. TasksRouted' /\ \A op \in Routes : QuietFor(Key(op))
    BY <2>1, <2>3, SameTasks DEF Routed
  <2> QED
    BY <1>1, <1>2, <2>3, <2>4, AllStillKept, QuietStep DEF AirFlows
<1> QED
  BY <1>3, <1>4

(* A member left.                                                          *)
LEMMA MemberLeftOrder ==
    ASSUME RuntimeInv, Routed, NEW peer \in Remotes, MemberLeft(peer)
    PROVE  OrderOK
<1>1. /\ CanStart /\ members' = members \ {peer}
      /\ UNCHANGED <<authority, link, arrivalVars, retained, wire>> /\ SameGot
  BY DEF MemberLeft, retentionVars, airVars, resultVars, SameGot
<1>2. DestinationTerminated(peer, "destinationNotInGroup")
      /\ Spawn(Task("next", NoActions, None, out'))
  BY DEF MemberLeft, DestinationRemoved
<1>3. Closed(peer)' /\ \A other \in Remotes \ {peer} : Closed(other)' <=> Closed(other)
  BY <1>1 DEF Closed
<1>4. LinksOK'
  BY <1>1 DEF Routed, LinksOK
<1> QED
  BY <1>1, <1>2, <1>3, <1>4, AbandonsStep DEF Abandons

(* Another peer coordinates: the table is empty.                           *)
LEMMA AuthorityLostOrder ==
    ASSUME RuntimeInv, Routed, AuthorityLost
    PROVE  OrderOK
<1>1. /\ authority' = FALSE
      /\ UNCHANGED <<link, scenario, admissions, tasks, retained, wire>> /\ SameGot
      /\ operations' = [key \in Keys |-> None]
      /\ order' = [pair \in Pairs |-> <<>>]
  BY DEF AuthorityLost, CoordinatorAuthorityLost, arrivalVars, retentionVars, airVars,
         resultVars, SameGot
<1>2. LinksOK' /\ TasksRouted' /\ \A op \in Routes : QuietFor(Key(op))
  BY <1>1, SameTasks DEF Routed, LinksOK
<1>3. \A peer \in Remotes : Closed(peer)'
  BY <1>1 DEF Closed
<1>4. \A op \in Routes : Pair(op) \in Pairs /\ op.destination \in Remotes
  BY InOrder DEF Routed, Routes
<1>5. TableEmpties
  BY <1>1, <1>3, <1>4 DEF TableEmpties
<1> QED
  BY <1>1, <1>2, <1>5, EmptiesStep

-----------------------------------------------------------------------------
(* The order theorem                                                       *)

(* Every step of a running handler,                                        *)
LEMMA TaskOrder ==
    ASSUME RuntimeInv, RuntimeInv', Routed, OrderInv, NEW t \in TaskIds, TaskStep(t)
    PROVE  OrderOK
BY AckWrittenOrder, ApplyOrder, SignalWrittenOrder, FailedForwardOrder, NextInLoopOrder,
   HopSubmittedOrder, HopResubmittedOrder, InfoWrittenOrder, ReplayOrderedOrder,
   ReplayHopOrder DEF TaskStep

(* every step of the runtime,                                              *)
LEMMA NextOrder ==
    ASSUME RuntimeInv, RuntimeInv', Routed, OrderInv, Next
    PROVE  OrderOK
<1>1. ASSUME NEW op \in Workload, SourceHop(op) \/ LocalSend(op)
      PROVE  OrderOK
  BY <1>1, SourceHopOrder, LocalSendOrder
<1>2. ASSUME NEW t \in TaskIds, TaskStep(t)
      PROVE  OrderOK
  BY <1>2, TaskOrder
<1>3. ASSUME NEW hop \in Hops, GenericAckArrives(hop) \/ AckTimeout(hop)
      PROVE  OrderOK
  BY <1>3, GenericAckArrivesOrder, AckTimeoutOrder
<1>4. ASSUME NEW peer \in Remotes, NEW finished \in SUBSET TaskIds, LinkLost(peer, finished)
      PROVE  OrderOK
  BY <1>4, LinkLostOrder
<1>5. ASSUME NEW peer \in Remotes,
             DestinationReceives(peer) \/ LinkResumed(peer) \/ LinkClosed(peer)
                 \/ MemberLeft(peer)
      PROVE  OrderOK
  BY <1>5, DestinationReceivesOrder, LinkResumedOrder, LinkClosedOrder, MemberLeftOrder
<1>6. ASSUME NEW key \in Keys, CancelLocal(key)
      PROVE  OrderOK
  BY <1>6, CancelLocalOrder
<1> QED
  BY <1>1, <1>2, <1>3, <1>4, <1>5, <1>6, AuthorityLostOrder DEF Next

(* and stuttering is one of the steps described.                           *)
LEMMA StutterOrder ==
    ASSUME RuntimeInv, Routed, UNCHANGED vars
    PROVE  OrderOK
<1>1. UNCHANGED <<relayVars, members, authority, link, arrivalVars, tasks, retained>>
      /\ AirSame
  BY DEF vars, runtimeVars, sessionVars, retentionVars, airVars, resultVars, AirSame, SameGot
<1>2. TableSame /\ LinksOK' /\ UNCHANGED <<scenario, operations>>
  BY <1>1, SameTable
<1>3. TasksRouted' /\ \A op \in Routes : QuietFor(Key(op))
  BY <1>1, <1>2, SameTasks DEF Routed
<1> QED
  BY <1>1, <1>2, <1>3, AllStillKept, QuietStep DEF AirFlows

(* Initially nothing is anywhere.                                          *)
LEMMA InitOrder ==
    ASSUME Init
    PROVE  Routed /\ OrderInv
<1>1. /\ \A key \in Keys : ~Admitted(key)
      /\ \A pair \in Pairs : order[pair] = <<>>
      /\ admissions = <<>> /\ \A t \in TaskIds : tasks[t] = None
      /\ \A hop \in Hops : retained[hop] = None
      /\ \A peer \in Remotes :
            wire[peer] = <<>> /\ delivered[peer] = <<>> /\ link[peer] = "ready"
      /\ authority /\ members = Peers /\ Remotes \subseteq Peers
      /\ scenario \in Scenarios
  BY DEF Init, RelayInit, Admitted, Remotes
<1>2. DOMAIN <<>> = {}
  OBVIOUS
<1>3. Routed
  BY <1>1, <1>2 DEF Init, Routed, TableRouted, TasksRouted, KeptRouted, WireRouted,
                    ReceivedRouted, LinksOK
<1>4. \A key : ~Held(key) /\ ~Sent(key) /\ ~About(key) /\ ~Kept(key)
  BY <1>1 DEF Held, Sent, About, Kept, HoldsBy, SendsBy, AboutBy
<1>5. \A op \in Routes : ~On(op) /\ order[Pair(op)] = <<>> /\ op.destination \in Remotes
                         /\ ~Admitted(Key(op))
  <2>1. ASSUME NEW op \in Routes PROVE Pair(op) \in Pairs /\ Key(op) \in Keys
    BY <1>1, <2>1, WorkloadIs, KeyTypes DEF Routes
  <2> QED
    BY <1>1, <1>2, <2>1 DEF Routes, On, OnWire, Got
<1>6. \A op \in Acked : op \in Routes /\ ~Active(op) /\ ~Moving(op) /\ OneOK(op)
  <2>1. \A op \in Acked : op \in Routes
    BY DEF Acked, Steady
  <2> QED
    BY <1>1, <1>4, <1>5, <2>1 DEF Active, Moving, OneOK, HoldsBy, SendsBy
<1>7. \A op \in Acked : DOMAIN wire[op.destination] = {} /\ DOMAIN delivered[op.destination] = {}
                        /\ ~Got(op)
  BY <1>1, <1>2, <1>5, <1>6 DEF On
<1>8. TablePart /\ OrderedHead
  BY <1>2, <1>4, <1>5 DEF TablePart, ClosedEmpty, OrderKnown, OrderOld, OrderedHead, Steady
<1>9. AckedOne /\ AckedHead /\ MovingKnown /\ Turns /\ Missed /\ WireOrder /\ Received
  BY <1>5, <1>6, <1>7 DEF AckedOne, AckedHead, MovingKnown, Turns, Missed, WireOrder, Received
<1> QED
  BY <1>3, <1>8, <1>9 DEF OrderInv

(* A relay is handed over only as the head of its order and stays there    *)
(* until nothing can transmit it for the first time any more, so of two    *)
(* acknowledged operations of one pair the destination application         *)
(* receives first the one admitted first, whatever is lost, resumed,       *)
(* cancelled or removed in between.                                        *)
THEOREM RuntimeAcknowledgedInOrder == Spec => []AcknowledgedInOrder
<1>1. Init => Routed /\ OrderInv
  BY InitOrder
<1>2. RuntimeInv /\ Routed /\ OrderInv /\ [Next]_vars => Routed' /\ OrderInv'
  <2> SUFFICES ASSUME RuntimeInv, Routed, OrderInv, [Next]_vars PROVE Routed' /\ OrderInv'
    OBVIOUS
  <2>1. RuntimeInv'
    BY RuntimeStep, StepKeeps
  <2>2. Routed' /\ OrderStep
    BY <2>1, NextOrder, StutterOrder DEF OrderOK
  <2>3. TableRouted /\ TableRouted'
    BY <2>2 DEF Routed
  <2> QED
    BY <2>1, <2>2, <2>3, OrderStepKeeps
<1>3. RuntimeInv /\ Routed /\ OrderInv => AcknowledgedInOrder
  BY ReceivedIsOrdered DEF OrderInv
<1> QED
  BY <1>1, <1>2, <1>3, RuntimeInvariant, PTL DEF Spec
=============================================================================
