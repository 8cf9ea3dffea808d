--------------------------- MODULE EventFeedProofs ---------------------------
(***************************************************************************)
(* NothingSkipped holds for every set of readers, every history bound and  *)
(* every number of events.  The inductive invariant is FeedInv: a step     *)
(* only ever adds to the events accounted for (StaysAccounted), so each    *)
(* action is left with the values it writes itself.                        *)
(***************************************************************************)
EXTENDS EventFeed, TLAPS

(* Every step keeps the types.                                             *)
LEMMA TypeStep ==
    ASSUME MaxHistory \in Nat, FeedTypeOK, [FeedNext]_feedVars
    PROVE  FeedTypeOK'
<1>1. Idle \in Reads
  BY DEF Idle, Reads
<1>2. ASSUME NEW r \in Readers PROVE reader[r] \in Reads
  BY <1>2 DEF FeedTypeOK
<1>3. CASE Record
  BY <1>3 DEF FeedTypeOK, Record
<1>4. ASSUME NEW r \in Readers, Ask(r) PROVE FeedTypeOK'
  <2>1. [Idle EXCEPT !.phase = "asked", !.after = cursor] \in Reads
    BY DEF FeedTypeOK, Idle, Reads
  <2> QED
    BY <1>4, <2>1 DEF FeedTypeOK, Ask
<1>5. ASSUME NEW r \in Readers, GiveUp(r) PROVE FeedTypeOK'
  BY <1>1, <1>5 DEF FeedTypeOK, GiveUp
<1>6. ASSUME NEW r \in Readers, Answer(r) PROVE FeedTypeOK'
  <2> DEFINE first == Larger(reader[r].after, recorded - MaxHistory) + 1
             answered == [Idle EXCEPT !.phase = "storing", !.first = first,
                                      !.last = recorded, !.next = first]
  <2>1. first \in Nat
    BY <1>2 DEF FeedTypeOK, Reads, Larger
  <2>2. answered \in Reads
    BY <2>1 DEF FeedTypeOK, Idle, Reads
  <2>3. reader' = [reader EXCEPT ![r] = answered] /\ UNCHANGED <<recorded, cursor, returned>>
    BY <1>6 DEF Answer
  <2> QED
    BY <2>2, <2>3 DEF FeedTypeOK
<1>7. ASSUME NEW r \in Readers, Load(r) PROVE FeedTypeOK'
  <2>1. [reader[r] EXCEPT !.phase = "loaded", !.loaded = cursor] \in Reads
    BY <1>2 DEF FeedTypeOK, Reads
  <2> QED
    BY <1>7, <2>1 DEF FeedTypeOK, Load
<1>8. ASSUME NEW r \in Readers, Store(r) PROVE FeedTypeOK'
  <2>1. reader[r].loaded \in Nat /\ reader[r].next \in Nat /\ reader[r].next + 1 \in Nat
    BY <1>2 DEF Reads
  <2> DEFINE stored == [reader[r] EXCEPT !.phase = "storing", !.loaded = 0,
                                         !.next = reader[r].next + 1]
  <2>2. stored \in Reads
    BY <1>2, <2>1 DEF Reads
  <2>3. cursor' \in Nat
    BY <1>8, <2>1 DEF Store, Larger
  <2>4. reader' = [reader EXCEPT ![r] = stored] /\ UNCHANGED <<recorded, returned>>
    BY <1>8 DEF Store
  <2> HIDE DEF stored
  <2> QED
    BY <2>2, <2>3, <2>4 DEF FeedTypeOK
<1>9. ASSUME NEW r \in Readers, Return(r) PROVE FeedTypeOK'
  <2>1. reader[r].first..reader[r].last \subseteq Nat
    BY <1>2 DEF Reads
  <2> QED
    BY <1>1, <1>9, <2>1 DEF FeedTypeOK, Return
<1>10. CASE UNCHANGED feedVars
  BY <1>10 DEF FeedTypeOK, feedVars
<1> QED
  BY <1>3, <1>4, <1>5, <1>6, <1>7, <1>8, <1>9, <1>10 DEF FeedNext

(* An event that is accounted for stays so: it can only move from an       *)
(* answer to the events returned, and an evicted event stays evicted.      *)
LEMMA StaysAccounted ==
    ASSUME MaxHistory \in Nat, FeedTypeOK, [FeedNext]_feedVars, NEW s \in Nat, Accounted(s)
    PROVE  Accounted(s)'
<1>1. recorded \in Nat /\ (recorded' = recorded \/ recorded' = recorded + 1)
  BY DEF FeedTypeOK, FeedNext, feedVars, Record, Ask, GiveUp, Answer, Load, Store, Return
<1>2. returned \subseteq returned'
  BY DEF FeedNext, feedVars, Record, Ask, GiveUp, Answer, Load, Store, Return
<1>3. CASE Evicted(s)
  <2>1. s <= recorded - MaxHistory => s <= recorded' - MaxHistory
    BY <1>1
  <2> QED
    BY <1>3, <2>1 DEF Accounted, Evicted
<1>4. CASE s \in returned
  BY <1>2, <1>4 DEF Accounted
<1>5. ASSUME NEW q \in Readers, Holds(q, s) PROVE Accounted(s)'
  <2>1. reader \in [Readers -> Reads] /\ reader[q] \in Reads
    BY DEF FeedTypeOK
  <2>2. CASE reader'[q] = reader[q]
    BY <1>5, <2>2 DEF Accounted, Holds
  <2>3. ASSUME NEW r \in Readers, Ask(r) \/ GiveUp(r) \/ Answer(r) PROVE Accounted(s)'
    <3>1. r # q
      BY <1>5, <2>3 DEF Holds, Ask, GiveUp, Answer
    <3>2. reader'[q] = reader[q]
      BY <2>1, <2>3, <3>1 DEF Ask, GiveUp, Answer
    <3> QED
      BY <2>2, <3>2
  <2>4. ASSUME NEW r \in Readers, Load(r) \/ Store(r) PROVE Accounted(s)'
    <3>1. CASE r # q
      BY <2>1, <2>2, <2>4, <3>1 DEF Load, Store
    <3>2. CASE r = q
      <4>1. /\ reader'[q].phase \in {"storing", "loaded"}
            /\ reader'[q].first = reader[q].first /\ reader'[q].last = reader[q].last
        <5>1. CASE Load(r)
          BY <2>1, <3>2, <5>1 DEF Load, Reads
        <5>2. CASE Store(r)
          BY <2>1, <3>2, <5>2 DEF Store, Reads
        <5> QED
          BY <2>4, <5>1, <5>2
      <4> QED
        BY <1>5, <4>1 DEF Accounted, Holds
    <3> QED
      BY <3>1, <3>2
  <2>5. ASSUME NEW r \in Readers, Return(r) PROVE Accounted(s)'
    <3>1. CASE r # q
      BY <2>1, <2>2, <2>5, <3>1 DEF Return
    <3>2. CASE r = q
      BY <1>5, <2>5, <3>2 DEF Return, Accounted, Holds
    <3> QED
      BY <3>1, <3>2
  <2>6. CASE Record \/ UNCHANGED feedVars
    BY <2>2, <2>6 DEF Record, feedVars
  <2> QED
    BY <2>3, <2>4, <2>5, <2>6 DEF FeedNext
<1> QED
  BY <1>3, <1>4, <1>5 DEF Accounted

(* The initial state satisfies it: nothing has been passed yet.            *)
LEMMA InitInv == ASSUME MaxHistory \in Nat, FeedInit PROVE FeedInv
<1>1. Idle \in Reads
  BY DEF Idle, Reads
<1>2. FeedTypeOK
  BY <1>1 DEF FeedInit, FeedTypeOK
<1>3. NothingSkipped
  BY DEF FeedInit, NothingSkipped
<1>4. \A r \in Readers : ReaderInv(r)
  BY DEF FeedInit, ReaderInv, Idle
<1> QED
  BY <1>2, <1>3, <1>4 DEF FeedInv

(* Every step keeps it.                                                    *)
LEMMA NextInv == ASSUME MaxHistory \in Nat, FeedInv, [FeedNext]_feedVars PROVE FeedInv'
<1>1. FeedTypeOK /\ FeedTypeOK' /\ NothingSkipped /\ \A r \in Readers : ReaderInv(r)
  BY TypeStep DEF FeedInv
<1>2. \A s \in Nat : Accounted(s) => Accounted(s)'
  BY <1>1, StaysAccounted
<1>3. ASSUME NEW n \in Nat, \A s \in 1..n : Accounted(s)
      PROVE  \A s \in 1..n : Accounted(s)'
  BY <1>2, <1>3
<1>4. ASSUME NEW q \in Readers, reader'[q] = reader[q] PROVE ReaderInv(q)'
  <2>1. reader[q] \in Reads
    BY <1>1 DEF FeedTypeOK
  <2>2. ReaderInv(q)
    BY <1>1
  <2>3. reader[q].after \in Nat /\ reader[q].last \in Nat /\ reader[q].loaded \in Nat
    BY <2>1 DEF Reads
  <2> QED
    BY <1>3, <1>4, <2>2, <2>3 DEF ReaderInv
<1>5. ASSUME cursor' = cursor PROVE NothingSkipped'
  BY <1>1, <1>3, <1>5 DEF NothingSkipped, FeedTypeOK
<1>6. ASSUME NEW r \in Readers, NEW v \in Reads, reader' = [reader EXCEPT ![r] = v], ReaderInv(r)'
      PROVE  \A q \in Readers : ReaderInv(q)'
  <2>1. ASSUME NEW q \in Readers, q # r PROVE ReaderInv(q)'
    BY <1>1, <1>4, <1>6, <2>1 DEF FeedTypeOK
  <2> QED
    BY <1>6, <2>1
<1>7. ASSUME NEW r \in Readers PROVE reader[r] \in Reads /\ reader'[r] \in Reads /\ ReaderInv(r)
  BY <1>1 DEF FeedTypeOK
<1>8. CASE Record \/ UNCHANGED feedVars
  <2>1. cursor' = cursor /\ reader' = reader
    BY <1>8 DEF Record, feedVars
  <2> QED
    BY <1>1, <1>4, <1>5, <2>1 DEF FeedInv
<1>9. ASSUME NEW r \in Readers, Ask(r) PROVE FeedInv'
  <2>1. cursor' = cursor /\ reader'[r].phase = "asked" /\ reader'[r].after = cursor
    BY <1>1, <1>9 DEF Ask, FeedTypeOK, Idle
  <2>2. ReaderInv(r)'
    BY <1>1, <1>5, <2>1 DEF ReaderInv, NothingSkipped
  <2> QED
    BY <1>1, <1>5, <1>6, <1>7, <1>9, <2>1, <2>2 DEF FeedInv, Ask, Idle, Reads, FeedTypeOK
<1>10. ASSUME NEW r \in Readers, GiveUp(r) \/ Return(r) PROVE FeedInv'
  <2>1. cursor' = cursor /\ reader' = [reader EXCEPT ![r] = Idle] /\ Idle \in Reads
    BY <1>10 DEF GiveUp, Return, Idle, Reads
  <2>2. ReaderInv(r)'
    BY <1>1, <2>1 DEF ReaderInv, Idle, FeedTypeOK
  <2> QED
    BY <1>1, <1>5, <1>6, <2>1, <2>2 DEF FeedInv
<1>11. ASSUME NEW r \in Readers, Answer(r) PROVE FeedInv'
  <2> DEFINE first == Larger(reader[r].after, recorded - MaxHistory) + 1
  <2>1. /\ cursor' = cursor /\ recorded' = recorded
        /\ reader'[r].phase = "storing" /\ reader'[r].first = first /\ reader'[r].last = recorded
    BY <1>1, <1>7, <1>11 DEF Answer, FeedTypeOK, Idle, Reads
  <2>2. /\ recorded \in Nat /\ reader[r].after \in Nat /\ first \in Nat
        /\ first = reader[r].after + 1 \/ first = recorded - MaxHistory + 1
    BY <1>1, <1>7 DEF FeedTypeOK, Reads, Larger
  <2>3. ASSUME NEW s \in 1..recorded PROVE Accounted(s)'
    <3>1. CASE s >= first
      BY <2>1, <2>2, <3>1 DEF Accounted, Holds
    <3>2. CASE s <= recorded - MaxHistory
      BY <2>1, <3>2 DEF Accounted, Evicted
    <3>3. CASE s <= reader[r].after
      <4>1. Accounted(s)
        BY <1>7, <1>11, <2>2, <3>3 DEF ReaderInv, Answer
      <4> QED
        BY <1>2, <4>1
    <3>4. s >= first \/ s <= recorded - MaxHistory \/ s <= reader[r].after
      BY <2>2
    <3> QED
      BY <3>1, <3>2, <3>3, <3>4
  <2>4. ReaderInv(r)'
    BY <2>1, <2>3 DEF ReaderInv
  <2>5. \E v : reader' = [reader EXCEPT ![r] = v]
    BY <1>11 DEF Answer
  <2>6. reader' = [reader EXCEPT ![r] = reader'[r]]
    BY <1>1, <2>5 DEF FeedTypeOK
  <2> QED
    BY <1>1, <1>5, <1>6, <1>7, <2>1, <2>4, <2>6 DEF FeedInv
<1>12. ASSUME NEW r \in Readers, Load(r) PROVE FeedInv'
  <2>1. /\ cursor' = cursor /\ reader' = [reader EXCEPT ![r] = reader'[r]]
        /\ reader'[r].phase = "loaded" /\ reader'[r].loaded = cursor
        /\ reader'[r].last = reader[r].last /\ reader'[r].next = reader[r].next
        /\ reader[r].phase = "storing" /\ reader[r].next <= reader[r].last
    BY <1>1, <1>7, <1>12 DEF Load, FeedTypeOK, Reads
  <2>2. \A s \in 1..cursor : Accounted(s)'
    BY <1>5, <2>1 DEF NothingSkipped
  <2>3. \A s \in 1..reader[r].last : Accounted(s)'
    BY <1>3, <1>7, <2>1 DEF ReaderInv, Reads
  <2>4. ReaderInv(r)'
    BY <2>1, <2>2, <2>3 DEF ReaderInv
  <2> QED
    BY <1>1, <1>5, <1>6, <1>7, <2>1, <2>4 DEF FeedInv
<1>13. ASSUME NEW r \in Readers, Store(r) PROVE FeedInv'
  <2>1. /\ cursor' = Larger(reader[r].loaded, reader[r].next)
        /\ reader' = [reader EXCEPT ![r] = reader'[r]]
        /\ reader'[r].phase = "storing" /\ reader'[r].last = reader[r].last
        /\ reader[r].phase = "loaded" /\ reader[r].next <= reader[r].last
    BY <1>1, <1>7, <1>13 DEF Store, FeedTypeOK, Reads, ReaderInv
  <2>2. reader[r].loaded \in Nat /\ reader[r].last \in Nat /\ reader[r].next \in Nat
    BY <1>7 DEF Reads
  <2>3. \A s \in 1..reader[r].last : Accounted(s)'
    BY <1>3, <1>7, <2>1, <2>2 DEF ReaderInv
  <2>4. \A s \in 1..reader[r].loaded : Accounted(s)'
    BY <1>3, <1>7, <2>1, <2>2 DEF ReaderInv
  <2>5. NothingSkipped'
    <3>1. cursor' = reader[r].loaded \/ cursor' = reader[r].next
      BY <2>1, <2>2 DEF Larger
    <3> QED
      BY <2>1, <2>2, <2>3, <2>4, <3>1 DEF NothingSkipped
  <2>6. ReaderInv(r)'
    BY <2>1, <2>3 DEF ReaderInv
  <2> QED
    BY <1>1, <1>6, <1>7, <2>1, <2>5, <2>6 DEF FeedInv
<1> QED
  BY <1>8, <1>9, <1>10, <1>11, <1>12, <1>13 DEF FeedNext

(* The inductive invariant holds in every reachable state.                 *)
THEOREM FeedInvariant == ASSUME MaxHistory \in Nat PROVE FeedSpec => []FeedInv
<1>1. FeedInit => FeedInv
  BY InitInv
<1>2. FeedInv /\ [FeedNext]_feedVars => FeedInv'
  BY NextInv
<1> QED
  BY <1>1, <1>2, PTL DEF FeedSpec

(* DeviceApi.events never loses an event between two reads, whichever      *)
(* threads share the cursor and however their stores interleave.           *)
THEOREM CursorSkipsNothing == ASSUME MaxHistory \in Nat PROVE FeedSpec => []NothingSkipped
<1>1. FeedInv => NothingSkipped
  BY DEF FeedInv
<1> QED
  BY <1>1, FeedInvariant, PTL
=============================================================================
