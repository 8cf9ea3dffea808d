---------------------------- MODULE RunnerConnect ----------------------------
(***************************************************************************)
(* Runner.connect of device_integration_runner.py, called by one thread    *)
(* (IT-006) or by two threads in opposite directions (IT-021).  The        *)
(* threads share one DeviceApi, and so one cursor, per device: an event is *)
(* normally read by one of them only.  A thread and the connection attempt *)
(* it asks for bear the name of its source device.                         *)
(*                                                                         *)
(* The fixtures' side is the part of device_test_controller.dart and of    *)
(* runtime.dart that connect() sees: each attempt is a handshake of its    *)
(* own with its own SAS, both ends announce it and both have to accept it. *)
(* A connection that has become READY stays so.                            *)
(***************************************************************************)
EXTENDS Integers, Sequences, FiniteSets

CONSTANTS
    D1, D2,      \* the first two devices
    MaxHistory,  \* maxEventHistory of the fixture (1000 in the code)
    MaxFaults    \* bound: requests that go unanswered and attempts that fail by themselves

(* The names of the devices differ, also from the mark of an unread SAS.   *)
ASSUME ConnectBounds ==
    D1 # D2 /\ "none" \notin {D1, D2} /\ MaxHistory \in Nat \ {0} /\ MaxFaults \in Nat

VARIABLES
    sas,        \* the fixtures were launched in trust mode sas
    callers,    \* the threads of the scenario
    thread,     \* thread -> where it is in connect()
    cursor,     \* device -> DeviceApi.cursor
    events,     \* device -> every event it has recorded
    reader,     \* device -> thread -> its call of events() in progress
    handed,     \* ghost: device -> numbers of the events returned by events()
    attempt,    \* attempt -> its state
    asked,      \* attempt -> the ends that announced its verification
    confirmed,  \* attempt -> the ends that accepted it
    ready,      \* attempt -> the ends whose connection is READY
    inbound,    \* the devices with an entry in _pendingHostVerifications
    faults      \* how many of these there were so far

feedVars == <<cursor, events, reader, handed>>
linkVars == <<attempt, asked, confirmed, ready, inbound>>
vars == <<sas, callers, thread, feedVars, linkVars, faults>>

Devices == {D1, D2}
Other(d) == IF d = D1 THEN D2 ELSE D1
Larger(m, n) == IF m > n THEN m ELSE n

NoRead == [phase |-> "idle", after |-> 0, first |-> 1, last |-> 0, next |-> 1, loaded |-> 0]
NotSeen == [d \in Devices |-> "none"]
Begin(t) == [pc |-> "start", at |-> t, verified |-> {}, seen |-> NotSeen,
             broken |-> FALSE, shown |-> FALSE, outcome |-> "running"]

At(t, pc) == thread[t].pc = pc
Becomes(t, value) == thread' = [thread EXCEPT ![t] = value]
Moves(t, pc) == Becomes(t, [thread[t] EXCEPT !.pc = pc, !.shown = FALSE])
Ends(t, how) == Becomes(t, [Begin(t) EXCEPT !.pc = "done", !.outcome = how])
Fault == faults < MaxFaults /\ faults' = faults + 1

-----------------------------------------------------------------------------
(* The fixtures.  A failed attempt is only announced where it was made;    *)
(* _pendingHostVerifications keeps the entry of one that has ended.        *)

Recorded(d, type, l) == events' = [events EXCEPT ![d] = Append(@, [type |-> type, link |-> l])]
IsReady(d) == \E l \in Devices : d \in ready[l]

Opened(l) == attempt' = [attempt EXCEPT ![l] = "open"]
             /\ UNCHANGED <<asked, confirmed, ready, inbound>>

Over(l, how) ==
    /\ attempt' = [attempt EXCEPT ![l] = how]
    /\ asked' = [asked EXCEPT ![l] = {}] /\ confirmed' = [confirmed EXCEPT ![l] = {}]
    /\ ready' = [ready EXCEPT ![l] = {}]

Closed(l) ==
    /\ IF attempt[l] = "open"
       THEN Over(l, "cancelled") ELSE UNCHANGED <<attempt, asked, confirmed, ready>>
    /\ UNCHANGED inbound

Announces(l, d) ==
    /\ sas /\ attempt[l] = "open" /\ d \notin asked[l]
    /\ asked' = [asked EXCEPT ![l] = @ \union {d}]
    /\ inbound' = IF d = l THEN inbound ELSE inbound \union {d}
    /\ Recorded(d, "verificationRequired", l)
    /\ UNCHANGED <<sas, callers, thread, cursor, reader, handed, attempt, confirmed, ready, faults>>

Authenticates(l, d) ==
    /\ attempt[l] \in {"open", "connected"} /\ d \notin ready[l]
    /\ sas => confirmed[l] = Devices
    /\ ready' = [ready EXCEPT ![l] = @ \union {d}]
    /\ attempt' = IF d = l THEN [attempt EXCEPT ![l] = "connected"] ELSE attempt
    /\ UNCHANGED <<sas, callers, thread, feedVars, asked, confirmed, inbound, faults>>

AttemptFails(l) ==
    /\ attempt[l] = "open" /\ Fault /\ Over(l, "failed")
    /\ Recorded(l, "connectFailed", l)
    /\ UNCHANGED <<sas, callers, thread, cursor, reader, handed, inbound>>

(* confirmVerification names a peer, not an attempt: an inbound request    *)
(* is taken first, whichever request the caller has read.                  *)
Confirms(d) == IF d \in inbound THEN Other(d) ELSE d
Accepts(d) ==
    LET l == Confirms(d) IN attempt[l] = "open" /\ d \in asked[l] \ confirmed[l]
ConfirmEffect(d) ==
    /\ inbound' = inbound \ {d}
    /\ confirmed' = IF Accepts(d) THEN [confirmed EXCEPT ![Confirms(d)] = @ \union {d}] ELSE confirmed
    /\ UNCHANGED <<attempt, asked, ready>>

-----------------------------------------------------------------------------
(* connect(): the wait for an endpoint and the connect command are outside *)
(* its try.  NotTried also stands for a refused connect command.           *)

NotTried(t) ==
    /\ At(t, "start") /\ Ends(t, "failed")
    /\ UNCHANGED <<sas, callers, feedVars, linkVars, faults>>

ConnectOk(t) ==
    /\ At(t, "start") /\ Opened(t) /\ Moves(t, "poll")
    /\ UNCHANGED <<sas, callers, feedVars, faults>>

ConnectUnanswered(t) ==
    /\ At(t, "start") /\ Fault /\ Ends(t, "abandoned")
    /\ Opened(t) \/ UNCHANGED linkVars
    /\ UNCHANGED <<sas, callers, feedVars>>

(* A request without an answer raises a RunnerFailure, which the except    *)
(* clause handles, and an answer that is not JSON another exception.       *)
Leaves(t) == Moves(t, "cancel") \/ Ends(t, "abandoned")

DeadlinePassed(t) ==
    /\ At(t, "poll") /\ Moves(t, "cancel")
    /\ UNCHANGED <<sas, callers, feedVars, linkVars, faults>>

-----------------------------------------------------------------------------
(* DeviceApi.events, of the source first and then of the target.           *)

Reading(t, d, phase) == At(t, "read") /\ thread[t].at = d /\ reader[d][t].phase = phase
Reads(t, d, read) == reader' = [reader EXCEPT ![d] = [@ EXCEPT ![t] = read]]

(* A thread has one call of events() in progress at most.                  *)
Ask(t, d) ==
    /\ reader[d][t].phase = "idle"
    /\ Becomes(t, [thread[t] EXCEPT !.pc = "read", !.at = d])
    /\ Reads(t, d, [NoRead EXCEPT !.phase = "asked", !.after = cursor[d]])
    /\ UNCHANGED <<sas, callers, cursor, events, handed, linkVars, faults>>

Poll(t) == At(t, "poll") /\ Ask(t, t)
Second(t) == At(t, "second") /\ Ask(t, Other(t))

Answer(t, d) ==
    /\ Reading(t, d, "asked")
    /\ LET first == Larger(reader[d][t].after, Len(events[d]) - MaxHistory) + 1
       IN  Reads(t, d, [NoRead EXCEPT !.phase = "storing", !.first = first,
                                      !.last = Len(events[d]), !.next = first])
    /\ UNCHANGED <<sas, callers, thread, cursor, events, handed, linkVars, faults>>

ReadFailsOutsideTry(t, d) ==
    /\ Reading(t, d, "asked") /\ Fault /\ Ends(t, "failed") /\ Reads(t, d, NoRead)
    /\ UNCHANGED <<sas, callers, cursor, events, handed, linkVars>>
ReadFails(t, d) ==
    /\ Reading(t, d, "asked") /\ Fault /\ Leaves(t) /\ Reads(t, d, NoRead)
    /\ UNCHANGED <<sas, callers, cursor, events, handed, linkVars>>

Load(t, d) ==
    /\ Reading(t, d, "storing") /\ reader[d][t].next <= reader[d][t].last
    /\ Reads(t, d, [reader[d][t] EXCEPT !.phase = "loaded", !.loaded = cursor[d]])
    /\ UNCHANGED <<sas, callers, thread, cursor, events, handed, linkVars, faults>>

LastStored(loaded, sequence) == sequence
Latest(loaded, sequence) == Larger(loaded, sequence)
Store(t, d) ==
    /\ Reading(t, d, "loaded")
    /\ cursor' = [cursor EXCEPT ![d] = Latest(reader[d][t].loaded, reader[d][t].next)]
    /\ Reads(t, d, [reader[d][t] EXCEPT !.phase = "storing", !.loaded = 0,
                                        !.next = reader[d][t].next + 1])
    /\ UNCHANGED <<sas, callers, thread, events, handed, linkVars, faults>>

(* What the loop over the events returned comes to: a failed attempt       *)
(* raises, the first request of a device is accepted, which is a command,  *)
(* and every other event is passed over.  The SAS kept is that of the      *)
(* event read.                                                             *)
Fails(d, from, last) == \E s \in from..last : events[d][s].type = "connectFailed"
Asks(d, from, last) == {s \in from..last : events[d][s].type = "verificationRequired"}

PassedOver(t) == IF thread[t].at = t THEN "second" ELSE "source"

Handles(t, d, first, last) ==
    LET asks == IF d \in thread[t].verified THEN {} ELSE Asks(d, first, last)
        now == CHOOSE s \in asks : \A other \in asks : s <= other
    IN  \/ asks = {} /\ ~Fails(d, first, last) /\ Moves(t, PassedOver(t))
        \/ Fails(d, first, IF asks = {} THEN last ELSE now) /\ Moves(t, "cancel")
        \/ /\ asks # {} /\ ~Fails(d, first, now)
           /\ Becomes(t, [thread[t] EXCEPT !.pc = "confirm", !.verified = @ \union {d},
                                           !.seen = [@ EXCEPT ![d] = events[d][now].link],
                                           !.broken = Fails(d, now, last)])

Return(t, d) ==
    /\ Reading(t, d, "storing") /\ reader[d][t].next > reader[d][t].last
    /\ handed' = [handed EXCEPT ![d] = @ \union (reader[d][t].first..reader[d][t].last)]
    /\ Reads(t, d, NoRead)
    /\ Handles(t, d, reader[d][t].first, reader[d][t].last)
    /\ UNCHANGED <<sas, callers, cursor, events, linkVars, faults>>

-----------------------------------------------------------------------------
ConfirmOk(t) ==
    /\ At(t, "confirm") /\ Accepts(thread[t].at) /\ ConfirmEffect(thread[t].at)
    /\ Becomes(t, [thread[t] EXCEPT !.pc = IF thread[t].broken THEN "cancel" ELSE PassedOver(t),
                                    !.broken = FALSE])
    /\ UNCHANGED <<sas, callers, feedVars, faults>>

ConfirmRefused(t) ==
    /\ At(t, "confirm") /\ ~Accepts(thread[t].at) /\ ConfirmEffect(thread[t].at)
    /\ Moves(t, "cancel")
    /\ UNCHANGED <<sas, callers, feedVars, faults>>

ConfirmUnanswered(t) ==
    /\ At(t, "confirm") /\ Fault /\ Leaves(t)
    /\ ConfirmEffect(thread[t].at) \/ UNCHANGED linkVars
    /\ UNCHANGED <<sas, callers, feedVars>>

(* The two snapshots of a round are read one after the other.              *)
SourceSnapshot(t) ==
    /\ At(t, "source")
    /\ Becomes(t, [thread[t] EXCEPT !.pc = "target", !.shown = IsReady(t)])
    /\ UNCHANGED <<sas, callers, feedVars, linkVars, faults>>

Verdict(t) ==
    LET seen == {d \in Devices : thread[t].seen[d] # "none"}
    IN  IF thread[t].verified # {} /\ Cardinality(seen) < 2 THEN "sasMissing"
        ELSE IF thread[t].verified # {} /\ thread[t].seen[D1] # thread[t].seen[D2] THEN "sasDiffers"
        ELSE IF thread[t].verified # {} THEN "verified" ELSE "unverified"

PollForgetting(t) == Becomes(t, [thread[t] EXCEPT !.pc = "poll", !.seen = NotSeen])
PollOn(t) == Moves(t, "poll")
TargetSnapshot(t) ==
    /\ At(t, "target")
    /\ IF thread[t].shown /\ IsReady(Other(t)) THEN Ends(t, Verdict(t)) ELSE PollOn(t)
    /\ UNCHANGED <<sas, callers, feedVars, linkVars, faults>>

SnapshotFails(t) ==
    /\ At(t, "source") \/ At(t, "target")
    /\ Fault /\ Leaves(t)
    /\ UNCHANGED <<sas, callers, feedVars, linkVars>>

(* except RunnerFailure: cancelConnect, whose own failure is swallowed.    *)
CancelOk(t) ==
    /\ At(t, "cancel") /\ Closed(t) /\ Ends(t, "failed")
    /\ UNCHANGED <<sas, callers, feedVars, faults>>

CancelUnanswered(t) ==
    /\ At(t, "cancel") /\ Fault /\ Ends(t, "abandoned")
    /\ Closed(t) \/ UNCHANGED linkVars
    /\ UNCHANGED <<sas, callers, feedVars>>

-----------------------------------------------------------------------------
Init ==
    /\ sas \in BOOLEAN /\ callers \in {{D1}, {D2}, Devices}
    /\ thread = [t \in Devices |-> Begin(t)]
    /\ cursor = [d \in Devices |-> 0] /\ events = [d \in Devices |-> <<>>]
    /\ reader = [d \in Devices |-> [t \in Devices |-> NoRead]]
    /\ handed = [d \in Devices |-> {}]
    /\ attempt = [l \in Devices |-> "none"]
    /\ asked = [l \in Devices |-> {}] /\ confirmed = [l \in Devices |-> {}]
    /\ ready = [l \in Devices |-> {}] /\ inbound = {} /\ faults = 0

Proceeds(t) ==
    \/ NotTried(t) \/ ConnectOk(t) \/ Poll(t) \/ DeadlinePassed(t)
    \/ \E d \in Devices : Answer(t, d) \/ Load(t, d) \/ Store(t, d) \/ Return(t, d)
    \/ Second(t) \/ ConfirmOk(t) \/ ConfirmRefused(t)
    \/ SourceSnapshot(t) \/ TargetSnapshot(t) \/ CancelOk(t)

GoesWrong(t) ==
    \/ ConnectUnanswered(t) \/ (\E d \in Devices : ReadFails(t, d)) \/ ConfirmUnanswered(t)
    \/ SnapshotFails(t) \/ CancelUnanswered(t)

LinkMoves ==
    \E l \in Devices :
        \/ AttemptFails(l)
        \/ \E d \in Devices : Announces(l, d) \/ Authenticates(l, d)

Next ==
    \/ \E t \in callers : Proceeds(t) \/ GoesWrong(t)
    \/ LinkMoves

ConnectSpec == Init /\ [][Next]_vars

-----------------------------------------------------------------------------
(* Each device's history and shared cursor, as EventFeed sees them.        *)
Feed1 == INSTANCE EventFeed WITH
    Readers <- Devices, recorded <- Len(events[D1]), cursor <- cursor[D1],
    returned <- handed[D1], reader <- reader[D1]
Feed2 == INSTANCE EventFeed WITH
    Readers <- Devices, recorded <- Len(events[D2]), cursor <- cursor[D2],
    returned <- handed[D2], reader <- reader[D2]

(* On either device the threads keep to EventFeed, and so inherit what is  *)
(* proved of it: whichever thread stores last, no event is skipped.        *)
FeedsKept == Feed1!FeedSpec /\ Feed2!FeedSpec

(* With a single caller the two SAS checks of connect() raise no false     *)
(* alarm, and a connection reported as verified is one both ends accepted. *)
(* Only a rival thread, which may take the event of one end and accept the *)
(* other request, can confuse them (IT-021 in trust mode sas).             *)
SasVerdictSound ==
    \A t \in Devices : callers = {t} =>
        /\ thread[t].outcome \notin {"sasMissing", "sasDiffers"}
        /\ thread[t].outcome = "verified" => confirmed[t] = Devices

(* A connect() that fails with a RunnerFailure leaves no attempt of its own *)
(* open ("explicitly cancel a platform attempt"): `abandoned` is one whose  *)
(* connect or cancel command got no answer, or that left by an exception    *)
(* its except clause does not handle.                                       *)
NoAttemptLeftOpen ==
    \A t \in Devices : thread[t].outcome = "failed" => attempt[t] # "open"
=============================================================================
