------------------------------ MODULE EventFeed ------------------------------
(***************************************************************************)
(* One device's event history and the DeviceApi.cursor that the threads of *)
(* the runner share (device_integration_runner.py, DeviceApi.events).  The *)
(* fixture numbers its events 1, 2, ... and retains the last MaxHistory.   *)
(*                                                                         *)
(* A read is not atomic: the cursor is put into the query, the fixture     *)
(* answers later, and the loop over the answer executes                    *)
(*   self.cursor = max(self.cursor, sequence)                              *)
(* once per event, which loads the attribute and stores it in two steps.   *)
(* Another thread may store in between, so the cursor can move backwards.  *)
(***************************************************************************)
EXTENDS Integers

CONSTANTS Readers, MaxHistory

VARIABLES
    recorded,   \* number of the last event recorded
    cursor,     \* DeviceApi.cursor
    reader,     \* reader -> its read in progress
    returned    \* numbers of the events handed to some caller of events()

feedVars == <<recorded, cursor, reader, returned>>

Idle == [phase |-> "idle", after |-> 0, first |-> 1, last |-> 0, next |-> 1, loaded |-> 0]
Reads == [phase : {"idle", "asked", "storing", "loaded"}, after : Nat, first : Nat, last : Nat,
          next : Nat, loaded : Nat]

Larger(m, n) == IF m > n THEN m ELSE n
Evicted(s) == s <= recorded - MaxHistory

FeedInit == recorded = 0 /\ cursor = 0 /\ reader = [r \in Readers |-> Idle] /\ returned = {}

Record ==
    /\ recorded' = recorded + 1
    /\ UNCHANGED <<cursor, reader, returned>>

Ask(r) ==
    /\ reader[r].phase = "idle"
    /\ reader' = [reader EXCEPT ![r] = [Idle EXCEPT !.phase = "asked", !.after = cursor]]
    /\ UNCHANGED <<recorded, cursor, returned>>

(* The request fails: nothing is returned and the cursor stays.            *)
GiveUp(r) ==
    /\ reader[r].phase = "asked"
    /\ reader' = [reader EXCEPT ![r] = Idle]
    /\ UNCHANGED <<recorded, cursor, returned>>

Answer(r) ==
    /\ reader[r].phase = "asked"
    /\ LET first == Larger(reader[r].after, recorded - MaxHistory) + 1
       IN  reader' = [reader EXCEPT ![r] = [Idle EXCEPT !.phase = "storing", !.first = first,
                                                        !.last = recorded, !.next = first]]
    /\ UNCHANGED <<recorded, cursor, returned>>

Load(r) ==
    /\ reader[r].phase = "storing" /\ reader[r].next <= reader[r].last
    /\ reader' = [reader EXCEPT ![r] = [@ EXCEPT !.phase = "loaded", !.loaded = cursor]]
    /\ UNCHANGED <<recorded, cursor, returned>>

Store(r) ==
    /\ reader[r].phase = "loaded"
    /\ cursor' = Larger(reader[r].loaded, reader[r].next)
    /\ reader' = [reader EXCEPT ![r] = [@ EXCEPT !.phase = "storing", !.loaded = 0,
                                                   !.next = reader[r].next + 1]]
    /\ UNCHANGED <<recorded, returned>>

Return(r) ==
    /\ reader[r].phase = "storing" /\ reader[r].next > reader[r].last
    /\ returned' = returned \union (reader[r].first..reader[r].last)
    /\ reader' = [reader EXCEPT ![r] = Idle]
    /\ UNCHANGED <<recorded, cursor>>

FeedNext ==
    \/ Record
    \/ \E r \in Readers : Ask(r) \/ GiveUp(r) \/ Answer(r) \/ Load(r) \/ Store(r) \/ Return(r)

FeedSpec == FeedInit /\ [][FeedNext]_feedVars

FeedTypeOK ==
    /\ recorded \in Nat /\ cursor \in Nat
    /\ reader \in [Readers -> Reads] /\ returned \subseteq Nat

Holds(r, s) ==
    /\ reader[r].phase \in {"storing", "loaded"}
    /\ s \in reader[r].first..reader[r].last

Accounted(s) == Evicted(s) \/ s \in returned \/ \E r \in Readers : Holds(r, s)

(* However the stores of the threads interleave, every event the shared    *)
(* cursor has passed was handed to a caller, is in an answer a thread is   *)
(* just working through, or has been evicted by the bounded history: a     *)
(* lost update repeats events and never skips one.                         *)
NothingSkipped == \A s \in 1..cursor : Accounted(s)

(* What NothingSkipped rests on: the cursor a request carries, the cursor  *)
(* a thread loaded and the answer it works through are accounted for too.  *)
ReaderInv(r) ==
    /\ reader[r].phase = "asked" => \A s \in 1..reader[r].after : Accounted(s)
    /\ reader[r].phase \in {"storing", "loaded"} => \A s \in 1..reader[r].last : Accounted(s)
    /\ reader[r].phase = "loaded" =>
          /\ reader[r].next <= reader[r].last
          /\ \A s \in 1..reader[r].loaded : Accounted(s)

FeedInv == FeedTypeOK /\ NothingSkipped /\ \A r \in Readers : ReaderInv(r)
=============================================================================
