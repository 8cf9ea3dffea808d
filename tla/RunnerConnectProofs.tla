------------------------- MODULE RunnerConnectProofs -------------------------
(***************************************************************************)
(* Proofs about connect(), for every bound of the history and any number   *)
(* of faults.  It implements EventFeed on both devices: every step of a    *)
(* thread or of a fixture is, for each device, one step of its feed or     *)
(* none.  It leaves no attempt of its own open, and without a rival its    *)
(* verdict on the SAS is sound: ConnectInv says why.                       *)
(***************************************************************************)
EXTENDS RunnerConnect, FiniteSetTheorems, WellFoundedInduction, TLAPS

Feed(d) == INSTANCE EventFeed WITH
    Readers <- Devices, recorded <- Len(events[d]), cursor <- cursor[d],
    returned <- handed[d], reader <- reader[d]

FeedKept(d) == <<Len(events[d]), cursor[d], reader[d], handed[d]>>

Event == [type : {"verificationRequired", "connectFailed"}, link : Devices]

(* The variables that hold one value per device do, which is all the       *)
(* refinement needs to know of them.                                       *)
Shape ==
    /\ callers \subseteq Devices
    /\ events \in [Devices -> Seq(Event)]
    /\ cursor = [d \in Devices |-> cursor[d]]
    /\ reader = [d \in Devices |-> reader[d]]
    /\ handed = [d \in Devices |-> handed[d]]

(* The steps that leave the feeds alone.                                   *)
LEMMA Elsewhere ==
    ASSUME NEW d \in Devices, UNCHANGED feedVars
    PROVE  UNCHANGED FeedKept(d)
BY DEF feedVars, FeedKept

(* An event recorded at e is a Record step of e's feed.                    *)
LEMMA RecordedStep ==
    ASSUME Shape, NEW d \in Devices, NEW e \in Devices, NEW l \in Devices,
           NEW type \in {"verificationRequired", "connectFailed"},
           Recorded(e, type, l), UNCHANGED <<callers, cursor, reader, handed>>
    PROVE  Shape' /\ (Feed(d)!Record \/ UNCHANGED FeedKept(d))
<1> DEFINE event == [type |-> type, link |-> l]
<1>1. event \in Event
  BY DEF Event
<1>2. events' = [events EXCEPT ![e] = Append(events[e], event)]
  BY DEF Recorded
<1>3. Append(events[e], event) \in Seq(Event) /\ Len(Append(events[e], event)) = Len(events[e]) + 1
  BY <1>1 DEF Shape
<1>4. Shape'
  BY <1>2, <1>3 DEF Shape
<1>5. CASE d = e
  <2>1. Len(events'[d]) = Len(events[d]) + 1
    BY <1>2, <1>3, <1>5 DEF Shape
  <2> QED
    BY <1>4, <2>1 DEF Feed!Record
<1>6. CASE d # e
  <2>1. events'[d] = events[d]
    BY <1>2, <1>6 DEF Shape
  <2> QED
    BY <1>4, <2>1 DEF FeedKept
<1> QED
  BY <1>5, <1>6

(* A thread's call of events() on e is no business of another device.      *)
LEMMA ReadsOne ==
    ASSUME Shape, NEW e \in Devices, NEW t \in Devices, NEW read, Reads(t, e, read)
    PROVE  /\ reader' = [x \in Devices |-> reader'[x]]
           /\ reader'[e] = [reader[e] EXCEPT ![t] = read]
           /\ \A d \in Devices : d # e => reader'[d] = reader[d]
<1>1. reader' = [reader EXCEPT ![e] = [reader[e] EXCEPT ![t] = read]]
  BY DEF Reads
<1> QED
  BY <1>1 DEF Shape

(* The steps of a call, one feed step each.                                *)
LEMMA AskStep ==
    ASSUME Shape, NEW d \in Devices, NEW e \in Devices, NEW t \in Devices, Ask(t, e)
    PROVE  Shape' /\ (Feed(d)!Ask(t) \/ UNCHANGED FeedKept(d))
<1>1. Reads(t, e, [NoRead EXCEPT !.phase = "asked", !.after = cursor[e]])
      /\ reader[e][t].phase = "idle" /\ UNCHANGED <<callers, cursor, events, handed>>
  BY DEF Ask
<1>2. Shape'
  BY <1>1, ReadsOne DEF Shape
<1>3. CASE d = e
  BY <1>1, <1>2, <1>3, ReadsOne DEF Feed!Ask, Feed!Idle, NoRead
<1>4. CASE d # e
  BY <1>1, <1>2, <1>4, ReadsOne DEF FeedKept
<1> QED
  BY <1>3, <1>4

(* An answer to a reader of e is one in the feed of e, and stutters        *)
(* elsewhere.                                                              *)
LEMMA AnswerStep ==
    ASSUME Shape, NEW d \in Devices, NEW e \in Devices, NEW t \in Devices, Answer(t, e)
    PROVE  Shape' /\ (Feed(d)!Answer(t) \/ UNCHANGED FeedKept(d))
<1> DEFINE first == Larger(reader[e][t].after, Len(events[e]) - MaxHistory) + 1
           answered == [NoRead EXCEPT !.phase = "storing", !.first = first,
                                      !.last = Len(events[e]), !.next = first]
<1>1. Reads(t, e, answered) /\ reader[e][t].phase = "asked"
      /\ UNCHANGED <<callers, cursor, events, handed>>
  BY DEF Answer, Reading
<1>2. Shape'
  BY <1>1, ReadsOne DEF Shape
<1>3. CASE d = e
  BY <1>1, <1>2, <1>3, ReadsOne DEF Feed!Answer, Feed!Idle, Feed!Larger, Larger, NoRead
<1>4. CASE d # e
  BY <1>1, <1>2, <1>4, ReadsOne DEF FeedKept
<1> QED
  BY <1>3, <1>4

(* The load of the shared cursor is one in the feed it belongs to.         *)
LEMMA LoadStep ==
    ASSUME Shape, NEW d \in Devices, NEW e \in Devices, NEW t \in Devices, Load(t, e)
    PROVE  Shape' /\ (Feed(d)!Load(t) \/ UNCHANGED FeedKept(d))
<1>1. Reads(t, e, [reader[e][t] EXCEPT !.phase = "loaded", !.loaded = cursor[e]])
      /\ reader[e][t].phase = "storing" /\ reader[e][t].next <= reader[e][t].last
      /\ UNCHANGED <<callers, cursor, events, handed>>
  BY DEF Load, Reading
<1>2. Shape'
  BY <1>1, ReadsOne DEF Shape
<1>3. CASE d = e
  BY <1>1, <1>2, <1>3, ReadsOne DEF Feed!Load
<1>4. CASE d # e
  BY <1>1, <1>2, <1>4, ReadsOne DEF FeedKept
<1> QED
  BY <1>3, <1>4

(* The store of the cursor, possibly stale, is one in the feed it belongs  *)
(* to.                                                                     *)
LEMMA StoreStep ==
    ASSUME Shape, NEW d \in Devices, NEW e \in Devices, NEW t \in Devices, Store(t, e)
    PROVE  Shape' /\ (Feed(d)!Store(t) \/ UNCHANGED FeedKept(d))
<1> DEFINE latest == Latest(reader[e][t].loaded, reader[e][t].next)
<1>1. Reads(t, e, [reader[e][t] EXCEPT !.phase = "storing", !.loaded = 0,
                                       !.next = reader[e][t].next + 1])
      /\ reader[e][t].phase = "loaded" /\ UNCHANGED <<callers, events, handed>>
  BY DEF Store, Reading
<1>2. cursor' = [cursor EXCEPT ![e] = latest]
  BY DEF Store
<1> HIDE DEF latest
<1>3. /\ cursor' = [x \in Devices |-> cursor'[x]] /\ cursor'[e] = latest
      /\ \A x \in Devices : x # e => cursor'[x] = cursor[x]
  BY <1>2 DEF Shape
<1>4. Shape'
  BY <1>1, <1>3, ReadsOne DEF Shape
<1>5. CASE d = e
  BY <1>1, <1>3, <1>4, <1>5, ReadsOne DEF Feed!Store, Feed!Larger, latest, Latest, Larger
<1>6. CASE d # e
  BY <1>1, <1>3, <1>4, <1>6, ReadsOne DEF FeedKept
<1> QED
  BY <1>5, <1>6

(* A reader that stored all its events hands them over in its feed.        *)
LEMMA ReturnStep ==
    ASSUME Shape, NEW d \in Devices, NEW e \in Devices, NEW t \in Devices, Return(t, e)
    PROVE  Shape' /\ (Feed(d)!Return(t) \/ UNCHANGED FeedKept(d))
<1>1. Reads(t, e, NoRead)
      /\ reader[e][t].phase = "storing" /\ reader[e][t].next > reader[e][t].last
      /\ UNCHANGED <<callers, cursor, events>>
  BY DEF Return, Reading
<1>2. handed' = [handed EXCEPT ![e] = handed[e] \union (reader[e][t].first..reader[e][t].last)]
  BY DEF Return
<1>3. /\ handed' = [x \in Devices |-> handed'[x]]
      /\ handed'[e] = handed[e] \union (reader[e][t].first..reader[e][t].last)
      /\ \A x \in Devices : x # e => handed'[x] = handed[x]
  BY <1>2 DEF Shape
<1>4. Shape'
  BY <1>1, <1>3, ReadsOne DEF Shape
<1>5. CASE d = e
  BY <1>1, <1>3, <1>4, <1>5, ReadsOne DEF Feed!Return, Feed!Idle, NoRead
<1>6. CASE d # e
  BY <1>1, <1>3, <1>4, <1>6, ReadsOne DEF FeedKept
<1> QED
  BY <1>5, <1>6

(* A read that fails hands nothing over: the feed gives the request up.    *)
LEMMA ReadFailsStep ==
    ASSUME Shape, NEW d \in Devices, NEW e \in Devices, NEW t \in Devices, ReadFails(t, e)
    PROVE  Shape' /\ (Feed(d)!GiveUp(t) \/ UNCHANGED FeedKept(d))
<1>1. Reads(t, e, NoRead) /\ reader[e][t].phase = "asked"
      /\ UNCHANGED <<callers, cursor, events, handed>>
  BY DEF ReadFails, Reading
<1>2. Shape'
  BY <1>1, ReadsOne DEF Shape
<1>3. CASE d = e
  BY <1>1, <1>2, <1>3, ReadsOne DEF Feed!GiveUp, Feed!Idle, NoRead
<1>4. CASE d # e
  BY <1>1, <1>2, <1>4, ReadsOne DEF FeedKept
<1> QED
  BY <1>3, <1>4

(* Every step of connect() and of the fixtures, as device d's feed sees it. *)
LEMMA NextStep ==
    ASSUME Shape, NEW d \in Devices, [Next]_vars
    PROVE  Shape' /\ (Feed(d)!FeedNext \/ UNCHANGED FeedKept(d))
<1> DEFINE Kept == Shape' /\ (Feed(d)!FeedNext \/ UNCHANGED FeedKept(d))
<1>1. ASSUME UNCHANGED feedVars, UNCHANGED callers PROVE Kept
  BY <1>1, Elsewhere DEF Shape, feedVars
<1>2. CASE UNCHANGED vars
  BY <1>1, <1>2 DEF vars
<1>3. ASSUME NEW l \in Devices, AttemptFails(l) PROVE Kept
  BY <1>3, RecordedStep DEF AttemptFails, Feed!FeedNext
<1>4. ASSUME NEW l \in Devices, NEW e \in Devices, Announces(l, e) PROVE Kept
  BY <1>4, RecordedStep DEF Announces, Feed!FeedNext
<1>5. ASSUME NEW l \in Devices, NEW e \in Devices, Authenticates(l, e) PROVE Kept
  BY <1>1, <1>5 DEF Authenticates
<1>6. ASSUME NEW t \in Devices, Poll(t) \/ Second(t) PROVE Kept
  <2>1. PICK e \in Devices : Ask(t, e)
    BY <1>6 DEF Poll, Second, Other, Devices
  <2> QED
    BY <2>1, AskStep DEF Feed!FeedNext
<1>7. ASSUME NEW t \in Devices, NEW e \in Devices, Answer(t, e) PROVE Kept
  BY <1>7, AnswerStep DEF Feed!FeedNext
<1>8. ASSUME NEW t \in Devices, NEW e \in Devices, Load(t, e) PROVE Kept
  BY <1>8, LoadStep DEF Feed!FeedNext
<1>9. ASSUME NEW t \in Devices, NEW e \in Devices, Store(t, e) PROVE Kept
  BY <1>9, StoreStep DEF Feed!FeedNext
<1>10. ASSUME NEW t \in Devices, NEW e \in Devices, Return(t, e) PROVE Kept
  BY <1>10, ReturnStep DEF Feed!FeedNext
<1>11. ASSUME NEW t \in Devices, NEW e \in Devices, ReadFails(t, e) PROVE Kept
  BY <1>11, ReadFailsStep DEF Feed!FeedNext
<1>12. ASSUME NEW t \in Devices,
              \/ NotTried(t) \/ ConnectOk(t) \/ DeadlinePassed(t) \/ ConfirmOk(t)
              \/ ConfirmRefused(t) \/ SourceSnapshot(t) \/ TargetSnapshot(t) \/ CancelOk(t)
       PROVE  Kept
  BY <1>1, <1>12 DEF NotTried, ConnectOk, DeadlinePassed, ConfirmOk, ConfirmRefused,
                     SourceSnapshot, TargetSnapshot, CancelOk
<1>13. ASSUME NEW t \in Devices,
              \/ ConnectUnanswered(t) \/ ConfirmUnanswered(t) \/ SnapshotFails(t)
              \/ CancelUnanswered(t)
       PROVE  Kept
  BY <1>1, <1>13 DEF ConnectUnanswered, ConfirmUnanswered, SnapshotFails, CancelUnanswered
<1>14. ASSUME NEW t \in Devices, Proceeds(t) \/ GoesWrong(t) PROVE Kept
  BY <1>6, <1>7, <1>8, <1>9, <1>10, <1>11, <1>12, <1>13, <1>14 DEF Proceeds, GoesWrong
<1>15. ASSUME LinkMoves PROVE Kept
  BY <1>3, <1>4, <1>5, <1>15 DEF LinkMoves
<1>16. callers \subseteq Devices
  BY DEF Shape
<1> QED
  BY <1>2, <1>14, <1>15, <1>16 DEF Next

(* Initially every feed is in its own initial state.                       *)
LEMMA InitStep == ASSUME Init, NEW d \in Devices PROVE Shape /\ Feed(d)!FeedInit
BY DEF Init, Shape, Feed!FeedInit, Feed!Idle, NoRead, Devices

(* The two feeds of the refinement are the feeds of D1 and of D2.           *)
LEMMA SameFeeds ==
    ASSUME Shape, [Next]_vars
    PROVE  [Feed1!FeedNext]_(Feed1!feedVars) /\ [Feed2!FeedNext]_(Feed2!feedVars)
<1>1. D1 \in Devices /\ D2 \in Devices
  BY DEF Devices
<1>2. Feed(D1)!FeedNext \/ UNCHANGED FeedKept(D1)
  BY <1>1, NextStep
<1>3. Feed(D2)!FeedNext \/ UNCHANGED FeedKept(D2)
  BY <1>1, NextStep
<1>4. [Feed1!FeedNext]_(Feed1!feedVars)
  BY <1>2 DEF FeedKept, Feed1!feedVars, Feed!FeedNext, Feed1!FeedNext,
     Feed!Record, Feed!Ask, Feed!GiveUp, Feed!Answer, Feed!Load, Feed!Store, Feed!Return,
     Feed!Idle, Feed!Larger, Feed1!Record, Feed1!Ask, Feed1!GiveUp, Feed1!Answer, Feed1!Load,
     Feed1!Store, Feed1!Return, Feed1!Idle, Feed1!Larger
<1>5. [Feed2!FeedNext]_(Feed2!feedVars)
  BY <1>3 DEF FeedKept, Feed2!feedVars, Feed!FeedNext, Feed2!FeedNext,
     Feed!Record, Feed!Ask, Feed!GiveUp, Feed!Answer, Feed!Load, Feed!Store, Feed!Return,
     Feed!Idle, Feed!Larger, Feed2!Record, Feed2!Ask, Feed2!GiveUp, Feed2!Answer, Feed2!Load,
     Feed2!Store, Feed2!Return, Feed2!Idle, Feed2!Larger
<1> QED
  BY <1>4, <1>5

(* connect() implements EventFeed on both devices, whichever threads call  *)
(* it and whatever goes wrong.                                             *)
THEOREM ConnectKeepsFeeds == ConnectSpec => FeedsKept
<1>1. Init => Shape /\ Feed1!FeedInit /\ Feed2!FeedInit
  BY InitStep DEF Devices, Feed!FeedInit, Feed!Idle, Feed1!FeedInit, Feed1!Idle,
     Feed2!FeedInit, Feed2!Idle
<1>2. Shape /\ [Next]_vars => Shape'
  BY NextStep DEF Devices
<1>3. Shape /\ [Next]_vars
      => [Feed1!FeedNext]_(Feed1!feedVars) /\ [Feed2!FeedNext]_(Feed2!feedVars)
  BY SameFeeds
<1> QED
  BY <1>1, <1>2, <1>3, PTL DEF ConnectSpec, FeedsKept, Feed1!FeedSpec, Feed2!FeedSpec

Proofs1 == INSTANCE EventFeedProofs WITH
    Readers <- Devices, recorded <- Len(events[D1]), cursor <- cursor[D1],
    returned <- handed[D1], reader <- reader[D1]
Proofs2 == INSTANCE EventFeedProofs WITH
    Readers <- Devices, recorded <- Len(events[D2]), cursor <- cursor[D2],
    returned <- handed[D2], reader <- reader[D2]

(* So no event is skipped between two reads of a device, although the two  *)
(* threads of IT-021 share its cursor.                                     *)
THEOREM ConnectSkipsNothing ==
    ConnectSpec => [](Proofs1!NothingSkipped /\ Proofs2!NothingSkipped)
<1>1. MaxHistory \in Nat
  BY ConnectBounds
<1>2. Proofs1!FeedSpec => []Proofs1!NothingSkipped
  BY <1>1, Proofs1!CursorSkipsNothing
<1>3. Proofs2!FeedSpec => []Proofs2!NothingSkipped
  BY <1>1, Proofs2!CursorSkipsNothing
<1>4. Init => Shape /\ Feed1!FeedInit /\ Feed2!FeedInit
  BY InitStep DEF Devices, Feed!FeedInit, Feed!Idle, Feed1!FeedInit, Feed1!Idle,
     Feed2!FeedInit, Feed2!Idle
<1>5. Shape /\ [Next]_vars
      => Shape' /\ [Feed1!FeedNext]_(Feed1!feedVars) /\ [Feed2!FeedNext]_(Feed2!feedVars)
  BY NextStep, SameFeeds DEF Devices
<1>6. Feed1!FeedInit => Proofs1!FeedInit
  BY DEF
        Feed1!FeedInit, Feed1!Idle, Proofs1!FeedInit, Proofs1!Idle
<1>7. Feed2!FeedInit => Proofs2!FeedInit
  BY DEF
        Feed2!FeedInit, Feed2!Idle, Proofs2!FeedInit, Proofs2!Idle
<1>8. [Feed1!FeedNext]_(Feed1!feedVars) => [Proofs1!FeedNext]_(Proofs1!feedVars)
  BY DEF
        Feed1!FeedNext, Feed1!feedVars, Feed1!Record, Feed1!Ask, Feed1!GiveUp,
        Feed1!Answer, Feed1!Load, Feed1!Store, Feed1!Return, Feed1!Idle, Feed1!Larger,
        Proofs1!FeedNext, Proofs1!feedVars, Proofs1!Record, Proofs1!Ask, Proofs1!GiveUp,
        Proofs1!Answer, Proofs1!Load, Proofs1!Store, Proofs1!Return, Proofs1!Idle,
        Proofs1!Larger
<1>9. [Feed2!FeedNext]_(Feed2!feedVars) => [Proofs2!FeedNext]_(Proofs2!feedVars)
  BY DEF
        Feed2!FeedNext, Feed2!feedVars, Feed2!Record, Feed2!Ask, Feed2!GiveUp,
        Feed2!Answer, Feed2!Load, Feed2!Store, Feed2!Return, Feed2!Idle, Feed2!Larger,
        Proofs2!FeedNext, Proofs2!feedVars, Proofs2!Record, Proofs2!Ask, Proofs2!GiveUp,
        Proofs2!Answer, Proofs2!Load, Proofs2!Store, Proofs2!Return, Proofs2!Idle,
        Proofs2!Larger
<1> QED
  BY <1>2, <1>3, <1>4, <1>5, <1>6, <1>7, <1>8, <1>9, PTL
     DEF ConnectSpec, Proofs1!FeedSpec, Proofs2!FeedSpec

-----------------------------------------------------------------------------
(* What connect() leaves behind and what it concludes                      *)

Pcs == {"start", "poll", "read", "second", "confirm", "source", "target", "cancel", "done"}
Active == Pcs \ {"start", "done"}
Outcomes ==
    {"running", "failed", "abandoned", "sasMissing", "sasDiffers", "verified", "unverified"}
Threads ==
    [pc : Pcs, at : Devices, verified : SUBSET Devices, seen : [Devices -> Devices \cup {"none"}],
     broken : BOOLEAN, shown : BOOLEAN, outcome : Outcomes]
AttemptStates == {"none", "open", "connected", "failed", "cancelled"}

(* The links, where nothing is known of an attempt that is not open yet.   *)
LinksOK ==
    /\ attempt \in [Devices -> AttemptStates]
    /\ asked \in [Devices -> SUBSET Devices]
    /\ confirmed \in [Devices -> SUBSET Devices]
    /\ ready \in [Devices -> SUBSET Devices]
    /\ inbound \subseteq Devices
    /\ \A l \in Devices : attempt[l] = "none" =>
            asked[l] = {} /\ confirmed[l] = {} /\ ready[l] = {}

(* A call of events() covers events that were recorded.                    *)
ReadOK(read, length) ==
    /\ read.after \in Nat /\ read.loaded \in Nat /\ read.next \in Nat
    /\ read.first \in Nat \ {0} /\ read.last \in 0..length
ReadsOK ==
    /\ events \in [Devices -> Seq(Event)]
    /\ cursor \in [Devices -> Nat]
    /\ reader = [d \in Devices |-> [t \in Devices |-> reader[d][t]]]
    /\ \A d, t \in Devices : ReadOK(reader[d][t], Len(events[d]))

(* The attempt of a thread opens with its connect command, and a thread    *)
(* that gave up with a RunnerFailure saw to it that it is over.            *)
OwnOK(t, own, state) ==
    /\ own.pc = "start" => state = "none" /\ own = Begin(t)
    /\ own.outcome = "running" <=> own.pc # "done"
    /\ own.outcome = "failed" => state # "open"

(* The one caller t, while its attempt is in this state, accepted by these *)
(* ends and READY at those: an end accepts after t has read its SAS only,  *)
(* and is READY in trust mode sas after both ends accepted.                *)
AloneOK(t, own, trust, state, accepted, up) ==
    /\ \A d \in Devices : own.seen[d] = IF d \in own.verified THEN t ELSE "none"
    /\ own.verified # {} => trust
    /\ own.pc = "confirm" => own.at \in own.verified
    /\ own.pc # "done" => accepted \subseteq own.verified
    /\ t \in up \/ own.shown => state = "connected"
    /\ trust /\ (up # {} \/ state = "connected") => accepted = Devices
    /\ own.outcome \notin {"sasMissing", "sasDiffers"}
    /\ own.outcome = "verified" => state = "connected" /\ trust

(* Every event is then about the attempt of t.                             *)
EventsOf(t) ==
    \A d \in Devices : \A s \in 1..Len(events[d]) :
        /\ events[d][s].link = t
        /\ events[d][s].type = "verificationRequired" => sas

(* The inductive invariant.                                                *)
ThreadsOK ==
    /\ callers \subseteq Devices
    /\ sas \in BOOLEAN
    /\ thread \in [Devices -> Threads]
    /\ \A t \in Devices : OwnOK(t, thread[t], attempt[t])
    /\ \A t \in Devices : callers = {t} =>
        /\ EventsOf(t)
        /\ thread[Other(t)] = Begin(Other(t))
        /\ AloneOK(t, thread[t], sas, attempt[t], confirmed[t], ready[t])
ConnectInv == LinksOK /\ ReadsOK /\ ThreadsOK

(* The devices are two.                                                    *)
LEMMA TwoDevices ==
    /\ "none" \notin Devices
    /\ \A d \in Devices : Other(d) \in Devices /\ Other(d) # d /\ Devices = {d, Other(d)}
BY ConnectBounds DEF Devices, Other

(* What a thread begins and ends as.                                       *)
LEMMA BeginIs ==
    ASSUME NEW t \in Devices
    PROVE  /\ Begin(t) \in Threads /\ Begin(t).pc = "start" /\ Begin(t).outcome = "running"
           /\ Begin(t).verified = {} /\ Begin(t).shown = FALSE
           /\ \A d \in Devices : Begin(t).seen[d] = "none"
<1>1. NotSeen \in [Devices -> Devices \cup {"none"}] /\ \A d \in Devices : NotSeen[d] = "none"
  BY DEF NotSeen
<1>2. "start" \in Pcs /\ "running" \in Outcomes
  BY DEF Pcs, Outcomes
<1> QED
  BY <1>1, <1>2 DEF Begin, Threads

(* A thread that goes on, or ends, with the links as they are then.        *)
LEMMA ThreadStep ==
    ASSUME ConnectInv, NEW t \in callers, NEW own \in Threads, Becomes(t, own),
           UNCHANGED <<sas, callers, events>>, LinksOK',
           \A l \in Devices : l # t => attempt'[l] = attempt[l],
           OwnOK(t, own, attempt'[t]),
           callers = {t} => AloneOK(t, own, sas, attempt'[t], confirmed'[t], ready'[t])
    PROVE  ThreadsOK'
<1>1. t \in Devices /\ thread' \in [Devices -> Threads] /\ thread'[t] = own
      /\ \A l \in Devices : l # t => thread'[l] = thread[l]
  BY DEF ConnectInv, ThreadsOK, Becomes
<1>2. ASSUME NEW l \in Devices PROVE OwnOK(l, thread'[l], attempt'[l])
  BY <1>1, <1>2 DEF ConnectInv, ThreadsOK
<1>3. ASSUME NEW l \in Devices, callers = {l}
      PROVE  /\ EventsOf(l)'
             /\ thread'[Other(l)] = Begin(Other(l))
             /\ AloneOK(l, thread'[l], sas, attempt'[l], confirmed'[l], ready'[l])
  <2>1. l = t
    BY <1>3
  <2>2. EventsOf(l)'
    BY <1>3 DEF ConnectInv, ThreadsOK, EventsOf
  <2> QED
    BY <1>1, <1>3, <2>1, <2>2, TwoDevices DEF ConnectInv, ThreadsOK
<1> QED
  BY <1>1, <1>2, <1>3 DEF ConnectInv, ThreadsOK

(* The same when the links stay as they are.                               *)
LEMMA QuietStep ==
    ASSUME ConnectInv, NEW t \in callers, NEW own \in Threads, Becomes(t, own),
           UNCHANGED <<sas, callers, events, linkVars>>,
           OwnOK(t, own, attempt[t]),
           callers = {t} => AloneOK(t, own, sas, attempt[t], confirmed[t], ready[t])
    PROVE  LinksOK' /\ ThreadsOK'
<1>1. UNCHANGED <<attempt, asked, confirmed, ready, inbound>>
  BY DEF linkVars
<1>2. LinksOK'
  BY <1>1 DEF ConnectInv, LinksOK
<1> QED
  BY <1>1, <1>2, ThreadStep

(* A thread that only moves on, perhaps after one more end accepted.       *)
Onward(before, own, pc) ==
    /\ own \in Threads /\ own.pc = pc
    /\ own.seen = before.seen /\ own.verified = before.verified
    /\ own.outcome = before.outcome
    /\ own.shown => before.shown

(* As the steps of connect() move it.                                      *)
LEMMA MovesOn ==
    ASSUME NEW before \in Threads, NEW pc \in Active
    PROVE  /\ Onward(before, [before EXCEPT !.pc = pc, !.shown = FALSE], pc)
           /\ Onward(before, [before EXCEPT !.pc = pc, !.broken = FALSE], pc)
BY DEF Onward, Threads, Active

(* It keeps what is known of the thread.                                   *)
LEMMA OnwardOK ==
    ASSUME ConnectInv, NEW t \in callers, thread[t].pc \in Active,
           NEW pc \in Active \ {"confirm"}, NEW own, Onward(thread[t], own, pc),
           NEW accepted \in SUBSET Devices,
           callers = {t} => accepted \subseteq thread[t].verified /\ confirmed[t] \subseteq accepted
    PROVE  /\ own \in Threads /\ OwnOK(t, own, attempt[t])
           /\ callers = {t} => AloneOK(t, own, sas, attempt[t], accepted, ready[t])
<1>1. t \in Devices /\ thread[t] \in Threads /\ OwnOK(t, thread[t], attempt[t])
  BY DEF ConnectInv, ThreadsOK
<1>2. pc \notin {"start", "done", "confirm"} /\ thread[t].pc \notin {"start", "done"}
  BY DEF Active
<1>3. own.outcome = "running"
  BY <1>1, <1>2 DEF OwnOK, Onward
<1>4. OwnOK(t, own, attempt[t])
  BY <1>2, <1>3 DEF OwnOK, Onward
<1>5. ASSUME callers = {t}
      PROVE  AloneOK(t, own, sas, attempt[t], accepted, ready[t])
  <2>1. AloneOK(t, thread[t], sas, attempt[t], confirmed[t], ready[t])
    BY <1>1, <1>5 DEF ConnectInv, ThreadsOK
  <2>2. accepted \subseteq own.verified /\ confirmed[t] \subseteq accepted
    BY <1>5 DEF Onward
  <2> QED
    BY <1>2, <1>3, <2>1, <2>2 DEF AloneOK, Onward
<1> QED
  BY <1>4, <1>5 DEF Onward

(* A move that leaves the links alone.                                     *)
LEMMA MoveStep ==
    ASSUME ConnectInv, NEW t \in callers, thread[t].pc \in Active,
           NEW pc \in Active \ {"confirm"}, NEW own, Onward(thread[t], own, pc), Becomes(t, own),
           UNCHANGED <<sas, callers, events, linkVars>>
    PROVE  LinksOK' /\ ThreadsOK'
<1>1. confirmed[t] \in SUBSET Devices
  BY DEF ConnectInv, LinksOK, ThreadsOK
<1>2. ASSUME callers = {t} PROVE confirmed[t] \subseteq thread[t].verified
  <2>1. AloneOK(t, thread[t], sas, attempt[t], confirmed[t], ready[t])
    BY <1>2 DEF ConnectInv, ThreadsOK
  <2> QED
    BY <2>1 DEF AloneOK, Active
<1>3. /\ own \in Threads /\ OwnOK(t, own, attempt[t])
      /\ callers = {t} => AloneOK(t, own, sas, attempt[t], confirmed[t], ready[t])
  BY <1>1, <1>2, OnwardOK
<1> QED
  BY <1>3, QuietStep

(* A thread that ends without a verdict on the SAS.                        *)
LEMMA EndsOK ==
    ASSUME NEW t \in Devices, NEW how \in Outcomes \ {"running"}, NEW state,
           how = "failed" => state # "open", NEW own,
           own = [Begin(t) EXCEPT !.pc = "done", !.outcome = how]
    PROVE  /\ own \in Threads /\ OwnOK(t, own, state)
           /\ \A trust, accepted, up :
                /\ how \notin {"sasMissing", "sasDiffers"}
                /\ how = "verified" => state = "connected" /\ trust
                /\ t \in up => state = "connected"
                /\ trust /\ (up # {} \/ state = "connected") => accepted = Devices
                => AloneOK(t, own, trust, state, accepted, up)
<1>1. /\ own \in Threads /\ own.pc = "done" /\ own.outcome = how
      /\ own.verified = {} /\ own.shown = FALSE /\ own.seen = Begin(t).seen
  BY BeginIs DEF Threads, Pcs
<1>2. \A d \in Devices : own.seen[d] = "none"
  BY <1>1, BeginIs
<1> QED
  BY <1>1, <1>2 DEF OwnOK, AloneOK

(* An end that leaves the links alone and judges no SAS.                   *)
LEMMA EndStep ==
    ASSUME ConnectInv, NEW t \in callers, NEW how \in {"failed", "abandoned", "unverified"},
           how = "failed" => attempt[t] # "open", Ends(t, how),
           UNCHANGED <<sas, callers, events, linkVars>>
    PROVE  LinksOK' /\ ThreadsOK'
<1> DEFINE own == [Begin(t) EXCEPT !.pc = "done", !.outcome = how]
<1>1. t \in Devices /\ how \in Outcomes \ {"running"}
  BY DEF ConnectInv, ThreadsOK, Outcomes
<1>2. own \in Threads /\ OwnOK(t, own, attempt[t])
  BY <1>1, EndsOK
<1>3. ASSUME callers = {t}
      PROVE  AloneOK(t, own, sas, attempt[t], confirmed[t], ready[t])
  <2>1. AloneOK(t, thread[t], sas, attempt[t], confirmed[t], ready[t])
    BY <1>1, <1>3 DEF ConnectInv, ThreadsOK
  <2>2. /\ t \in ready[t] => attempt[t] = "connected"
        /\ sas /\ (ready[t] # {} \/ attempt[t] = "connected") => confirmed[t] = Devices
    BY <2>1 DEF AloneOK
  <2>3. how \notin {"sasMissing", "sasDiffers", "verified"}
    OBVIOUS
  <2> HIDE DEF own
  <2>4. own = [Begin(t) EXCEPT !.pc = "done", !.outcome = how]
    BY DEF own
  <2> QED
    BY <1>1, <2>2, <2>3, <2>4, EndsOK
<1>4. Becomes(t, own)
  BY DEF Ends
<1> HIDE DEF own
<1> QED
  BY <1>2, <1>3, <1>4, QuietStep

(* The links, of one attempt, after a command of its thread.               *)
LEMMA LinksAfter ==
    ASSUME LinksOK, NEW t \in Devices, NEW state \in AttemptStates,
           attempt' = [attempt EXCEPT ![t] = state], UNCHANGED inbound,
           \/ state # "none" /\ UNCHANGED <<asked, confirmed, ready>>
           \/ /\ asked' = [asked EXCEPT ![t] = {}] /\ confirmed' = [confirmed EXCEPT ![t] = {}]
              /\ ready' = [ready EXCEPT ![t] = {}]
    PROVE  /\ LinksOK' /\ attempt'[t] = state
           /\ \A l \in Devices : l # t => attempt'[l] = attempt[l]
BY DEF LinksOK

(* The connect command opens an attempt that is not open yet.              *)
LEMMA OpenedStep ==
    ASSUME ConnectInv, NEW t \in callers, thread[t].pc = "start", Opened(t),
           UNCHANGED <<sas, callers, events>>,
           Moves(t, "poll") \/ Ends(t, "abandoned")
    PROVE  LinksOK' /\ ThreadsOK'
<1>1. /\ t \in Devices /\ thread[t] = Begin(t) /\ attempt[t] = "none"
      /\ confirmed[t] = {} /\ ready[t] = {}
  BY DEF ConnectInv, ThreadsOK, OwnOK, LinksOK
<1>2. /\ LinksOK' /\ attempt'[t] = "open" /\ UNCHANGED <<confirmed, ready>>
      /\ \A l \in Devices : l # t => attempt'[l] = attempt[l]
  BY <1>1, LinksAfter DEF Opened, ConnectInv, AttemptStates
<1>3. CASE Moves(t, "poll")
  <2> DEFINE own == [thread[t] EXCEPT !.pc = "poll", !.shown = FALSE]
  <2>1. Onward(Begin(t), own, "poll")
    BY <1>1, BeginIs, MovesOn DEF Active, Pcs
  <2>2. Becomes(t, own)
    BY <1>3 DEF Moves
  <2> HIDE DEF own
  <2>3. /\ own \in Threads /\ own.pc = "poll" /\ own.outcome = "running" /\ ~own.shown
        /\ own.verified = {} /\ own.seen = Begin(t).seen
    BY <1>1, <2>1, BeginIs DEF Onward
  <2>4. OwnOK(t, own, "open")
    BY <2>3 DEF OwnOK
  <2>5. AloneOK(t, own, sas, "open", {}, {})
    BY <1>1, <2>3, BeginIs DEF AloneOK
  <2> QED
    BY <1>1, <1>2, <2>2, <2>3, <2>4, <2>5, ThreadStep
<1>4. CASE Ends(t, "abandoned")
  <2> DEFINE own == [Begin(t) EXCEPT !.pc = "done", !.outcome = "abandoned"]
  <2>0. "abandoned" \in Outcomes \ {"running"} /\ own = [Begin(t) EXCEPT !.pc = "done",
                                                          !.outcome = "abandoned"]
    BY DEF Outcomes
  <2>1. own \in Threads /\ OwnOK(t, own, "open") /\ AloneOK(t, own, sas, "open", {}, {})
    BY <1>1, <2>0, EndsOK
  <2>2. Becomes(t, own)
    BY <1>4 DEF Ends
  <2> HIDE DEF own
  <2> QED
    BY <1>1, <1>2, <2>1, <2>2, ThreadStep
<1> QED
  BY <1>3, <1>4

(* cancelConnect leaves no open attempt, and no verdict to protect.        *)
LEMMA ClosedStep ==
    ASSUME ConnectInv, NEW t \in callers, thread[t].pc = "cancel", Closed(t),
           UNCHANGED <<sas, callers, events>>, NEW how \in {"failed", "abandoned"}, Ends(t, how)
    PROVE  LinksOK' /\ ThreadsOK'
<1> DEFINE own == [Begin(t) EXCEPT !.pc = "done", !.outcome = how]
<1>1. t \in Devices /\ attempt[t] \in AttemptStates
  BY DEF ConnectInv, ThreadsOK, LinksOK
<1>2. Becomes(t, own)
  BY DEF Ends
<1>3. CASE attempt[t] = "open"
  <2>1. /\ attempt' = [attempt EXCEPT ![t] = "cancelled"]
        /\ confirmed' = [confirmed EXCEPT ![t] = {}] /\ ready' = [ready EXCEPT ![t] = {}]
        /\ LinksOK' /\ attempt'[t] = "cancelled"
        /\ \A l \in Devices : l # t => attempt'[l] = attempt[l]
    BY <1>1, <1>3, LinksAfter DEF Closed, Over, ConnectInv, AttemptStates
  <2>2. confirmed'[t] = {} /\ ready'[t] = {}
    BY <1>1, <2>1 DEF ConnectInv, LinksOK
  <2>3. /\ own \in Threads /\ OwnOK(t, own, "cancelled")
        /\ AloneOK(t, own, sas, "cancelled", {}, {})
    BY <1>1, EndsOK DEF Outcomes
  <2> HIDE DEF own
  <2> QED
    BY <1>2, <2>1, <2>2, <2>3, ThreadStep
<1>4. CASE attempt[t] # "open"
  <2>1. UNCHANGED linkVars
    BY <1>4 DEF Closed, linkVars
  <2> QED
    BY <1>4, <2>1, EndStep
<1> QED
  BY <1>3, <1>4

(* An end accepts for the thread that reads its SAS, and for t only where  *)
(* t has no rival.                                                         *)
LEMMA ConfirmLinks ==
    ASSUME ConnectInv, NEW t \in callers, thread[t].pc = "confirm", ConfirmEffect(thread[t].at)
    PROVE  /\ LinksOK' /\ UNCHANGED <<attempt, ready>> /\ confirmed'[t] \in SUBSET Devices
           /\ callers = {t} => /\ confirmed'[t] \subseteq thread[t].verified
                               /\ confirmed[t] \subseteq confirmed'[t]
<1> DEFINE d == thread[t].at
           l == Confirms(d)
<1>1. t \in Devices /\ d \in Devices /\ l \in Devices
  BY TwoDevices DEF ConnectInv, ThreadsOK, Threads, Confirms
<1>2. confirmed' = [confirmed EXCEPT ![l] = confirmed[l] \cup {d}] \/ confirmed' = confirmed
  BY DEF ConfirmEffect
<1>3. confirmed' # confirmed => attempt[l] = "open"
  BY DEF ConfirmEffect, Accepts
<1>4. UNCHANGED <<attempt, asked, ready>> /\ inbound' = inbound \ {d}
  BY DEF ConfirmEffect
<1>5. ASSUME callers = {t}
      PROVE  confirmed[t] \subseteq thread[t].verified /\ d \in thread[t].verified
  <2>1. AloneOK(t, thread[t], sas, attempt[t], confirmed[t], ready[t])
    BY <1>1, <1>5 DEF ConnectInv, ThreadsOK
  <2> QED
    BY <2>1 DEF AloneOK
<1> HIDE DEF d, l
<1>6. confirmed \in [Devices -> SUBSET Devices] /\ confirmed' \in [Devices -> SUBSET Devices]
  BY <1>1, <1>2 DEF ConnectInv, LinksOK
<1>7. \A x \in Devices : confirmed'[x] # confirmed[x] => attempt[x] = "open"
  BY <1>1, <1>2, <1>3, <1>6
<1>8. \A x \in Devices : confirmed[x] \subseteq confirmed'[x]
                         /\ confirmed'[x] \subseteq confirmed[x] \cup {d}
  BY <1>1, <1>2, <1>6
<1>9. LinksOK'
  BY <1>4, <1>6, <1>7 DEF ConnectInv, LinksOK
<1> QED
  BY <1>1, <1>4, <1>5, <1>6, <1>8, <1>9

(* confirmVerification, however the thread goes on.                        *)
LEMMA ConfirmStep ==
    ASSUME ConnectInv, NEW t \in callers,
           ConfirmOk(t) \/ ConfirmRefused(t) \/ ConfirmUnanswered(t)
    PROVE  LinksOK' /\ ThreadsOK'
<1>1. /\ t \in Devices /\ thread[t] \in Threads /\ thread[t].pc = "confirm"
      /\ "confirm" \in Active /\ UNCHANGED <<sas, callers, events>>
  BY DEF ConnectInv, ThreadsOK, ConfirmOk, ConfirmRefused, ConfirmUnanswered, At, feedVars, Active,
         Pcs
<1>2. \/ /\ ConfirmEffect(thread[t].at)
         /\ \E pc \in {"cancel", "second", "source"} :
                \/ Becomes(t, [thread[t] EXCEPT !.pc = pc, !.shown = FALSE])
                \/ Becomes(t, [thread[t] EXCEPT !.pc = pc, !.broken = FALSE])
      \/ ConfirmEffect(thread[t].at) /\ Ends(t, "abandoned")
      \/ UNCHANGED linkVars /\ Moves(t, "cancel")
      \/ UNCHANGED linkVars /\ Ends(t, "abandoned")
  BY DEF ConfirmOk, ConfirmRefused, ConfirmUnanswered, Leaves, Moves, PassedOver
<1>3. ASSUME ConfirmEffect(thread[t].at), NEW pc \in {"cancel", "second", "source"}, NEW own,
             \/ own = [thread[t] EXCEPT !.pc = pc, !.shown = FALSE]
             \/ own = [thread[t] EXCEPT !.pc = pc, !.broken = FALSE],
             Becomes(t, own)
      PROVE  LinksOK' /\ ThreadsOK'
  <2>1. /\ LinksOK' /\ UNCHANGED <<attempt, ready>> /\ confirmed'[t] \in SUBSET Devices
        /\ callers = {t} => /\ confirmed'[t] \subseteq thread[t].verified
                            /\ confirmed[t] \subseteq confirmed'[t]
    BY <1>1, <1>3, ConfirmLinks
  <2>2. pc \in Active \ {"confirm"}
    BY DEF Active, Pcs
  <2>3. Onward(thread[t], own, pc)
    BY <1>1, <1>3, <2>2, MovesOn
  <2>4. /\ own \in Threads /\ OwnOK(t, own, attempt[t])
        /\ callers = {t} => AloneOK(t, own, sas, attempt[t], confirmed'[t], ready[t])
    BY <1>1, <2>1, <2>2, <2>3, OnwardOK
  <2> QED
    BY <1>1, <1>3, <2>1, <2>4, ThreadStep
<1>4. CASE ConfirmEffect(thread[t].at) /\ Ends(t, "abandoned")
  <2> DEFINE own == [Begin(t) EXCEPT !.pc = "done", !.outcome = "abandoned"]
  <2>1. /\ LinksOK' /\ UNCHANGED <<attempt, ready>> /\ confirmed'[t] \in SUBSET Devices
        /\ callers = {t} => confirmed[t] \subseteq confirmed'[t]
    BY <1>1, <1>4, ConfirmLinks
  <2>2. Becomes(t, own)
    BY <1>4 DEF Ends
  <2>3. "abandoned" \in Outcomes \ {"running"}
    BY DEF Outcomes
  <2>4. own = [Begin(t) EXCEPT !.pc = "done", !.outcome = "abandoned"]
    OBVIOUS
  <2> HIDE DEF own
  <2>5. own \in Threads /\ OwnOK(t, own, attempt[t])
    BY <1>1, <2>3, <2>4, EndsOK
  <2>6. ASSUME callers = {t} PROVE AloneOK(t, own, sas, attempt[t], confirmed'[t], ready[t])
    <3>1. AloneOK(t, thread[t], sas, attempt[t], confirmed[t], ready[t])
      BY <1>1, <2>6 DEF ConnectInv, ThreadsOK
    <3>2. /\ t \in ready[t] => attempt[t] = "connected"
          /\ sas /\ (ready[t] # {} \/ attempt[t] = "connected") => confirmed'[t] = Devices
      BY <2>1, <2>6, <3>1 DEF AloneOK
    <3> QED
      BY <1>1, <2>3, <2>4, <3>2, EndsOK
  <2> QED
    BY <1>1, <2>1, <2>2, <2>5, <2>6, ThreadStep
<1>5. CASE UNCHANGED linkVars /\ Moves(t, "cancel")
  <2> DEFINE own == [thread[t] EXCEPT !.pc = "cancel", !.shown = FALSE]
  <2>1. Onward(thread[t], own, "cancel")
    BY <1>1, MovesOn DEF Active, Pcs
  <2>2. Becomes(t, own) /\ "cancel" \in Active \ {"confirm"}
    BY <1>5 DEF Moves, Active, Pcs
  <2> HIDE DEF own
  <2> QED
    BY <1>1, <1>5, <2>1, <2>2, MoveStep
<1>6. CASE UNCHANGED linkVars /\ Ends(t, "abandoned")
  BY <1>1, <1>6, EndStep
<1> QED
  BY <1>2, <1>3, <1>4, <1>5, <1>6

(* The steps that only move a thread, or end it without a verdict.         *)
LEMMA PlainStep ==
    ASSUME ConnectInv, NEW t \in callers, thread[t].pc \in Active,
           UNCHANGED <<sas, callers, events, linkVars>>,
           \/ \E pc \in Active \ {"confirm"} : Moves(t, pc)
           \/ \E d \in Devices : Becomes(t, [thread[t] EXCEPT !.pc = "read", !.at = d])
           \/ Ends(t, "abandoned")
    PROVE  LinksOK' /\ ThreadsOK'
<1>1. t \in Devices /\ thread[t] \in Threads
  BY DEF ConnectInv, ThreadsOK
<1>2. ASSUME NEW pc \in Active \ {"confirm"}, Moves(t, pc) PROVE LinksOK' /\ ThreadsOK'
  <2> DEFINE own == [thread[t] EXCEPT !.pc = pc, !.shown = FALSE]
  <2>1. Onward(thread[t], own, pc) /\ Becomes(t, own)
    BY <1>1, <1>2, MovesOn DEF Moves
  <2> HIDE DEF own
  <2> QED
    BY <2>1, MoveStep
<1>3. ASSUME NEW d \in Devices, Becomes(t, [thread[t] EXCEPT !.pc = "read", !.at = d])
      PROVE  LinksOK' /\ ThreadsOK'
  <2> DEFINE own == [thread[t] EXCEPT !.pc = "read", !.at = d]
  <2>1. Onward(thread[t], own, "read") /\ "read" \in Active \ {"confirm"}
    BY <1>1 DEF Onward, Threads, Active, Pcs
  <2>2. Becomes(t, own)
    BY <1>3
  <2> HIDE DEF own
  <2> QED
    BY <2>1, <2>2, MoveStep
<1>4. CASE Ends(t, "abandoned")
  BY <1>4, EndStep
<1> QED
  BY <1>2, <1>3, <1>4

(* A set of naturals has a least member.                                   *)
LEMMA LeastMember ==
    ASSUME NEW S \in SUBSET Nat, S # {}
    PROVE  \E s \in S : \A other \in S : s <= other
<1> DEFINE R == {pair \in Nat \X Nat : pair[1] < pair[2]}
<1>1. IsWellFoundedOn(R, Nat)
  BY NatLessThanWellFounded DEF OpToRel
<1> HIDE DEF R
<1>2. PICK s \in S : \A other \in S : <<other, s>> \notin R
  BY <1>1, WFMin
<1>3. ASSUME NEW other \in S PROVE s <= other
  <2>1. <<other, s>> \notin R
    BY <1>2
  <2>2. ~(other < s)
    BY <2>1 DEF R
  <2> QED
    BY <2>2
<1> QED
  BY <1>3

(* The events returned make the thread move on, or accept a request of the *)
(* device they were read from.                                             *)
LEMMA ReturnThread ==
    ASSUME ConnectInv, NEW t \in callers, NEW d \in Devices, Return(t, d)
    PROVE  LinksOK' /\ ThreadsOK'
<1>1. /\ t \in Devices /\ thread[t] \in Threads /\ thread[t].pc = "read" /\ thread[t].at = d
      /\ "read" \in Active /\ UNCHANGED <<sas, callers, events, linkVars>>
  BY DEF ConnectInv, ThreadsOK, Return, Reading, At, Active, Pcs
<1> DEFINE first == reader[d][t].first
           last == reader[d][t].last
           asks == IF d \in thread[t].verified THEN {} ELSE Asks(d, first, last)
           now == CHOOSE s \in asks : \A other \in asks : s <= other
<1>2. first \in Nat \ {0} /\ last \in 0..Len(events[d]) /\ events[d] \in Seq(Event)
  BY <1>1 DEF ConnectInv, ReadsOK, ReadOK
<1>3. /\ asks \in SUBSET Nat
      /\ \A s \in asks : /\ s \in 1..Len(events[d]) /\ d \notin thread[t].verified
                         /\ events[d][s].type = "verificationRequired"
  BY <1>2 DEF Asks
<1>4. \/ \E pc \in {"second", "source", "cancel"} : Moves(t, pc)
      \/ /\ asks # {}
         /\ Becomes(t, [thread[t] EXCEPT !.pc = "confirm", !.verified = @ \union {d},
                                         !.seen = [@ EXCEPT ![d] = events[d][now].link],
                                         !.broken = Fails(d, now, last)])
  BY DEF Return, Handles, PassedOver
<1>5. CASE \E pc \in {"second", "source", "cancel"} : Moves(t, pc)
  <2>1. {"second", "source", "cancel"} \subseteq Active \ {"confirm"}
    BY DEF Active, Pcs
  <2> QED
    BY <1>1, <1>5, <2>1, PlainStep
<1>6. CASE /\ asks # {}
           /\ Becomes(t, [thread[t] EXCEPT !.pc = "confirm", !.verified = @ \union {d},
                                           !.seen = [@ EXCEPT ![d] = events[d][now].link],
                                           !.broken = Fails(d, now, last)])
  <2> HIDE DEF asks
  <2>1. now \in asks
    BY <1>3, <1>6, LeastMember
  <2>2. /\ now \in 1..Len(events[d]) /\ events[d][now].type = "verificationRequired"
        /\ d \notin thread[t].verified
    BY <1>3, <2>1
  <2> HIDE DEF now
  <2>3. events[d][now] \in Event
    BY <1>2, <2>2
  <2> DEFINE link == events[d][now].link
             verified == thread[t].verified \cup {d}
             seen == [thread[t].seen EXCEPT ![d] = link]
             broken == Fails(d, now, last)
             own == [thread[t] EXCEPT !.pc = "confirm", !.verified = verified, !.seen = seen,
                                      !.broken = broken]
  <2>4. broken \in BOOLEAN /\ verified \in SUBSET Devices
        /\ thread[t].seen \in [Devices -> Devices \cup {"none"}]
    BY <1>1 DEF Threads, Fails
  <2>a. link \in Devices
    BY <2>3 DEF Event
  <2>5. seen \in [Devices -> Devices \cup {"none"}] /\ seen[d] = link
        /\ \A x \in Devices : x # d => seen[x] = thread[t].seen[x]
    BY <2>a, <2>4
  <2>6. Becomes(t, own)
    BY <1>6
  <2> HIDE DEF seen, verified, broken
  <2>7. /\ own \in Threads /\ own.pc = "confirm" /\ own.at = d /\ own.verified = verified
        /\ own.seen = seen /\ own.outcome = thread[t].outcome /\ own.shown = thread[t].shown
    BY <1>1, <2>4, <2>5 DEF Threads, Pcs
  <2> HIDE DEF own
  <2>8. OwnOK(t, own, attempt[t])
    <3>1. OwnOK(t, thread[t], attempt[t])
      BY <1>1 DEF ConnectInv, ThreadsOK
    <3> QED
      BY <1>1, <2>7, <3>1 DEF OwnOK
  <2>9. ASSUME callers = {t}
        PROVE  AloneOK(t, own, sas, attempt[t], confirmed[t], ready[t])
    <3>1. AloneOK(t, thread[t], sas, attempt[t], confirmed[t], ready[t]) /\ EventsOf(t)
      BY <1>1, <2>9 DEF ConnectInv, ThreadsOK
    <3>2. link = t /\ sas
      BY <2>2, <3>1 DEF EventsOf
    <3>3. \A x \in Devices : own.seen[x] = IF x \in own.verified THEN t ELSE "none"
      BY <2>5, <2>7, <3>1, <3>2 DEF AloneOK, verified
    <3>4. own.at \in own.verified /\ thread[t].verified \subseteq own.verified
      BY <2>7 DEF verified
    <3> QED
      BY <1>1, <2>7, <3>1, <3>2, <3>3, <3>4 DEF AloneOK
  <2> QED
    BY <1>1, <2>6, <2>7, <2>8, <2>9, QuietStep
<1> QED
  BY <1>4, <1>5, <1>6

(* The only attempt is that of the one caller.                             *)
LEMMA NoRival ==
    ASSUME ConnectInv, NEW t \in Devices, callers = {t}
    PROVE  /\ ready[Other(t)] = {}
           /\ \A l \in Devices : attempt[l] # "none" => l = t
<1> DEFINE o == Other(t)
<1>1. o \in Devices /\ Devices = {t, o}
  BY TwoDevices
<1>2. thread[o] = Begin(o)
  BY DEF ConnectInv, ThreadsOK
<1> HIDE DEF o
<1>3. OwnOK(o, thread[o], attempt[o])
  BY <1>1 DEF ConnectInv, ThreadsOK
<1>4. thread[o].pc = "start"
  BY <1>1, <1>2, BeginIs
<1>5. attempt[o] = "none"
  BY <1>3, <1>4 DEF OwnOK
<1>6. ready[o] = {}
  BY <1>1, <1>5 DEF ConnectInv, LinksOK
<1> QED
  BY <1>1, <1>5, <1>6 DEF o

(* The verdict at the end of an undisturbed connect(): every SAS that was  *)
(* compared is that of the connection which is READY at both ends.         *)
LEMMA VerdictSound ==
    ASSUME ConnectInv, NEW t \in Devices, callers = {t}, thread[t].pc = "target",
           thread[t].shown
    PROVE  /\ Verdict(t) \notin {"sasMissing", "sasDiffers"}
           /\ Verdict(t) = "verified" => sas
<1>1. /\ AloneOK(t, thread[t], sas, attempt[t], confirmed[t], ready[t])
      /\ thread[t].verified \in SUBSET Devices
  BY DEF ConnectInv, ThreadsOK, Threads
<1>2. CASE thread[t].verified = {}
  BY <1>2 DEF Verdict
<1>3. CASE thread[t].verified # {}
  <2>1. sas /\ thread[t].verified = Devices
    BY <1>1, <1>3 DEF AloneOK
  <2>2. \A d \in Devices : thread[t].seen[d] = t
    BY <1>1, <2>1 DEF AloneOK
  <2>3. thread[t].seen[D1] = thread[t].seen[D2]
    BY <2>2 DEF Devices
  <2>4. {d \in Devices : thread[t].seen[d] # "none"} = Devices
    BY <2>2, TwoDevices
  <2>5. Cardinality(Devices) = 2
    <3>1. IsFiniteSet({D1}) /\ Cardinality({D1}) = 1 /\ D2 \notin {D1}
      BY FS_Singleton, ConnectBounds
    <3>2. Cardinality({D1} \cup {D2}) = 2
      BY <3>1, FS_AddElement
    <3>3. {D1} \cup {D2} = Devices
      BY DEF Devices
    <3> QED
      BY <3>2, <3>3
  <2>6. ~(Cardinality({d \in Devices : thread[t].seen[d] # "none"}) < 2)
    BY <2>4, <2>5
  <2> QED
    BY <2>1, <2>3, <2>6 DEF Verdict
<1> QED
  BY <1>2, <1>3

(* The round of snapshots, and the verdict after it.                       *)
LEMMA SourceStep ==
    ASSUME ConnectInv, NEW t \in callers, SourceSnapshot(t)
    PROVE  LinksOK' /\ ThreadsOK'
<1> DEFINE own == [thread[t] EXCEPT !.pc = "target", !.shown = IsReady(t)]
<1>1. /\ t \in Devices /\ thread[t] \in Threads /\ thread[t].pc = "source"
      /\ OwnOK(t, thread[t], attempt[t]) /\ IsReady(t) \in BOOLEAN
  BY DEF ConnectInv, ThreadsOK, SourceSnapshot, At, IsReady
<1>2. /\ own \in Threads /\ own.pc = "target" /\ own.seen = thread[t].seen
      /\ own.verified = thread[t].verified /\ own.outcome = thread[t].outcome
      /\ own.shown = IsReady(t)
  BY <1>1 DEF Threads, Pcs
<1>3. Becomes(t, own) /\ UNCHANGED <<sas, callers, events, linkVars>>
  BY DEF SourceSnapshot, feedVars
<1> HIDE DEF own
<1>4. OwnOK(t, own, attempt[t])
  BY <1>1, <1>2 DEF OwnOK
<1>5. ASSUME callers = {t}
      PROVE  AloneOK(t, own, sas, attempt[t], confirmed[t], ready[t])
  <2>1. AloneOK(t, thread[t], sas, attempt[t], confirmed[t], ready[t])
    BY <1>1, <1>5 DEF ConnectInv, ThreadsOK
  <2>2. ready[Other(t)] = {}
    BY <1>1, <1>5, NoRival
  <2>3. IsReady(t) => t \in ready[t]
    BY <1>1, <2>2, TwoDevices DEF IsReady
  <2> QED
    BY <1>1, <1>2, <2>1, <2>3 DEF AloneOK
<1> QED
  BY <1>2, <1>3, <1>4, <1>5, QuietStep

(* The verdict ends the thread.                                            *)
LEMMA TargetStep ==
    ASSUME ConnectInv, NEW t \in callers, TargetSnapshot(t)
    PROVE  LinksOK' /\ ThreadsOK'
<1>1. /\ t \in Devices /\ thread[t].pc = "target" /\ "target" \in Active
      /\ "poll" \in Active \ {"confirm"} /\ UNCHANGED <<sas, callers, events, linkVars>>
  BY DEF ConnectInv, ThreadsOK, TargetSnapshot, At, Active, Pcs, feedVars
<1>2. CASE Moves(t, "poll")
  BY <1>1, <1>2, PlainStep
<1>3. CASE thread[t].shown /\ Ends(t, Verdict(t))
  <2> DEFINE how == Verdict(t)
             own == [Begin(t) EXCEPT !.pc = "done", !.outcome = how]
  <2>1. how \in Outcomes \ {"running"} /\ how # "failed"
    BY DEF Verdict, Outcomes
  <2>2. callers = {t} => how \notin {"sasMissing", "sasDiffers"} /\ (how = "verified" => sas)
    BY <1>1, <1>3, VerdictSound
  <2> HIDE DEF how
  <2>3. Becomes(t, own)
    BY <1>3 DEF Ends, how
  <2>4. own = [Begin(t) EXCEPT !.pc = "done", !.outcome = how]
    OBVIOUS
  <2> HIDE DEF own
  <2>5. own \in Threads /\ OwnOK(t, own, attempt[t])
    BY <1>1, <2>1, <2>4, EndsOK
  <2>6. ASSUME callers = {t}
        PROVE  AloneOK(t, own, sas, attempt[t], confirmed[t], ready[t])
    <3>1. AloneOK(t, thread[t], sas, attempt[t], confirmed[t], ready[t])
      BY <1>1, <2>6 DEF ConnectInv, ThreadsOK
    <3>2. /\ attempt[t] = "connected"
          /\ sas /\ (ready[t] # {} \/ attempt[t] = "connected") => confirmed[t] = Devices
      BY <1>3, <3>1 DEF AloneOK
    <3> QED
      BY <1>1, <2>1, <2>2, <2>4, <2>6, <3>2, EndsOK
  <2> QED
    BY <1>1, <2>3, <2>5, <2>6, QuietStep
<1> QED
  BY <1>2, <1>3 DEF TargetSnapshot, PollOn

(* The fixtures move one attempt, that of the one caller if there is one.  *)
LEMMA FixtureStep ==
    ASSUME ConnectInv, UNCHANGED <<sas, callers, thread>>, LinksOK',
           NEW l \in Devices, attempt[l] # "none", OwnOK(l, thread[l], attempt'[l]),
           \A t \in Devices : t # l => attempt'[t] = attempt[t],
           callers = {l} => /\ EventsOf(l)'
                            /\ AloneOK(l, thread[l], sas, attempt'[l], confirmed'[l], ready'[l])
    PROVE  ThreadsOK'
<1>1. \A t \in Devices : OwnOK(t, thread'[t], attempt'[t])
  BY DEF ConnectInv, ThreadsOK
<1>2. ASSUME NEW t \in Devices, callers = {t} PROVE t = l
  BY <1>2, NoRival
<1> QED
  BY <1>1, <1>2 DEF ConnectInv, ThreadsOK

(* An event about attempt l, recorded at e, is about the one caller's.     *)
LEMMA RecordedOf ==
    ASSUME ReadsOK, NEW t \in Devices, EventsOf(t), UNCHANGED sas, NEW e \in Devices,
           NEW type \in {"verificationRequired", "connectFailed"}, Recorded(e, type, t),
           type = "verificationRequired" => sas
    PROVE  EventsOf(t)'
<1> DEFINE event == [type |-> type, link |-> t]
<1>1. event \in Event /\ event.link = t /\ event.type = type
  BY DEF Event
<1>2. events' = [events EXCEPT ![e] = Append(events[e], event)]
  BY DEF Recorded
<1> HIDE DEF event
<1>3. ASSUME NEW d \in Devices, NEW s \in 1..Len(events'[d])
      PROVE  events'[d][s].link = t /\ (events'[d][s].type = "verificationRequired" => sas)
  <2>1. events[d] \in Seq(Event)
    BY DEF ReadsOK
  <2>2. CASE d = e /\ s = Len(events[d]) + 1
    <3>1. events'[d] = Append(events[d], event)
      BY <1>2, <2>2 DEF ReadsOK
    <3>2. events'[d][s] = event
      BY <1>1, <2>1, <2>2, <3>1
    <3> QED
      BY <1>1, <3>2
  <2>3. CASE ~(d = e /\ s = Len(events[d]) + 1)
    <3>1. s \in 1..Len(events[d]) /\ events'[d][s] = events[d][s]
      BY <1>1, <1>2, <1>3, <2>1, <2>3 DEF ReadsOK
    <3> QED
      BY <3>1 DEF EventsOf
  <2> QED
    BY <2>2, <2>3
<1> QED
  BY <1>3 DEF EventsOf

(* The steps of the fixtures.                                              *)
LEMMA AnnouncesStep ==
    ASSUME ConnectInv, NEW l \in Devices, NEW d \in Devices, Announces(l, d)
    PROVE  LinksOK' /\ ThreadsOK'
<1>1. /\ UNCHANGED <<sas, callers, thread, attempt, confirmed, ready>> /\ sas
      /\ attempt[l] = "open" /\ Recorded(d, "verificationRequired", l)
      /\ asked' = [asked EXCEPT ![l] = asked[l] \cup {d}] /\ inbound' \in {inbound, inbound \cup {d}}
  BY DEF Announces
<1>2. LinksOK'
  BY <1>1 DEF ConnectInv, LinksOK
<1>3. OwnOK(l, thread[l], attempt'[l])
  BY <1>1 DEF ConnectInv, ThreadsOK
<1>4. ASSUME callers = {l}
      PROVE  EventsOf(l)' /\ AloneOK(l, thread[l], sas, attempt'[l], confirmed'[l], ready'[l])
  <2>1. EventsOf(l) /\ AloneOK(l, thread[l], sas, attempt[l], confirmed[l], ready[l])
    BY <1>4 DEF ConnectInv, ThreadsOK
  <2> QED
    BY <1>1, <2>1, RecordedOf DEF ConnectInv
<1> QED
  BY <1>1, <1>2, <1>3, <1>4, FixtureStep

(* READY at one end.                                                       *)
LEMMA AuthenticatesStep ==
    ASSUME ConnectInv, NEW l \in Devices, NEW d \in Devices, Authenticates(l, d)
    PROVE  LinksOK' /\ ThreadsOK'
<1>1. /\ UNCHANGED <<sas, callers, thread, events, asked, confirmed, inbound>>
      /\ attempt[l] \in {"open", "connected"}
      /\ ready' = [ready EXCEPT ![l] = ready[l] \cup {d}]
      /\ attempt' = IF d = l THEN [attempt EXCEPT ![l] = "connected"] ELSE attempt
      /\ sas => confirmed[l] = Devices
  BY DEF Authenticates, feedVars
<1>2. /\ LinksOK' /\ ready'[l] = ready[l] \cup {d}
      /\ attempt'[l] = IF d = l THEN "connected" ELSE attempt[l]
      /\ \A t \in Devices : t # l => attempt'[t] = attempt[t]
  BY <1>1 DEF ConnectInv, LinksOK, AttemptStates
<1>3. OwnOK(l, thread[l], attempt'[l])
  BY <1>1, <1>2 DEF ConnectInv, ThreadsOK, OwnOK
<1>4. ASSUME callers = {l}
      PROVE  EventsOf(l)' /\ AloneOK(l, thread[l], sas, attempt'[l], confirmed'[l], ready'[l])
  <2>1. EventsOf(l) /\ AloneOK(l, thread[l], sas, attempt[l], confirmed[l], ready[l])
    BY <1>4 DEF ConnectInv, ThreadsOK
  <2>2. AloneOK(l, thread[l], sas, attempt'[l], confirmed[l], ready'[l])
    BY <1>1, <1>2, <2>1 DEF AloneOK
  <2> QED
    BY <1>1, <2>1, <2>2 DEF EventsOf
<1> QED
  BY <1>1, <1>2, <1>3, <1>4, FixtureStep

(* An attempt that fails by itself.                                        *)
LEMMA AttemptFailsStep ==
    ASSUME ConnectInv, NEW l \in Devices, AttemptFails(l)
    PROVE  LinksOK' /\ ThreadsOK'
<1>1. /\ UNCHANGED <<sas, callers, thread, inbound>> /\ attempt[l] = "open"
      /\ Over(l, "failed") /\ Recorded(l, "connectFailed", l)
  BY DEF AttemptFails
<1>2. /\ LinksOK' /\ attempt'[l] = "failed" /\ confirmed'[l] = {} /\ ready'[l] = {}
      /\ \A t \in Devices : t # l => attempt'[t] = attempt[t]
  BY <1>1 DEF ConnectInv, LinksOK, AttemptStates, Over
<1>3. OwnOK(l, thread[l], "failed")
  BY <1>1 DEF ConnectInv, ThreadsOK, OwnOK
<1>4. ASSUME callers = {l}
      PROVE  EventsOf(l)' /\ AloneOK(l, thread[l], sas, attempt'[l], confirmed'[l], ready'[l])
  <2>1. EventsOf(l) /\ AloneOK(l, thread[l], sas, attempt[l], confirmed[l], ready[l])
    BY <1>4 DEF ConnectInv, ThreadsOK
  <2>2. AloneOK(l, thread[l], sas, "failed", {}, {})
    BY <1>1, <2>1 DEF AloneOK
  <2> QED
    BY <1>1, <1>2, <2>1, <2>2, RecordedOf DEF ConnectInv
<1> QED
  BY <1>1, <1>2, <1>3, <1>4, FixtureStep

(* The calls of events() stay within what is recorded.                     *)
LEMMA ReadChange ==
    ASSUME ReadsOK, NEW d \in Devices, NEW t \in Devices, NEW read,
           ReadOK(read, Len(events[d])), Reads(t, d, read), UNCHANGED events,
           cursor' \in [Devices -> Nat]
    PROVE  ReadsOK'
<1>1. reader' = [reader EXCEPT ![d] = [reader[d] EXCEPT ![t] = read]]
  BY DEF Reads
<1>2. reader = [x \in Devices |-> [y \in Devices |-> reader[x][y]]]
  BY DEF ReadsOK
<1>3. reader' = [x \in Devices |-> [y \in Devices |->
                    IF x = d /\ y = t THEN read ELSE reader[x][y]]]
  BY <1>1, <1>2
<1>4. \A x, y \in Devices : reader'[x][y] = IF x = d /\ y = t THEN read ELSE reader[x][y]
  BY <1>3
<1>5. reader' = [x \in Devices |-> [y \in Devices |-> reader'[x][y]]]
  BY <1>3, <1>4
<1> QED
  BY <1>4, <1>5 DEF ReadsOK

(* An event that is recorded invalidates no call in progress.              *)
LEMMA RecordedKeeps ==
    ASSUME ReadsOK, NEW e \in Devices, NEW l \in Devices,
           NEW type \in {"verificationRequired", "connectFailed"}, Recorded(e, type, l),
           UNCHANGED <<cursor, reader>>
    PROVE  ReadsOK'
<1> DEFINE event == [type |-> type, link |-> l]
<1>1. event \in Event
  BY DEF Event
<1>2. events' = [events EXCEPT ![e] = Append(events[e], event)]
  BY DEF Recorded
<1> HIDE DEF event
<1>3. /\ events' \in [Devices -> Seq(Event)]
      /\ \A d \in Devices : Len(events[d]) \in Nat /\ Len(events'[d]) \in Nat
                            /\ Len(events'[d]) >= Len(events[d])
  BY <1>1, <1>2 DEF ReadsOK
<1>4. \A d, t \in Devices : ReadOK(reader[d][t], Len(events'[d]))
  BY <1>3 DEF ReadsOK, ReadOK
<1> QED
  BY <1>3, <1>4 DEF ReadsOK

(* The steps of a call, each of which keeps its numbers within the history. *)
LEMMA CallStep ==
    ASSUME ReadsOK, NEW t \in Devices, NEW d \in Devices,
           Ask(t, d) \/ Answer(t, d) \/ ReadFails(t, d) \/ Load(t, d) \/ Store(t, d) \/ Return(t, d)
    PROVE  ReadsOK'
<1> DEFINE r == reader[d][t]
           n == Len(events[d])
<1>1. ReadOK(r, n) /\ n \in Nat /\ cursor[d] \in Nat /\ cursor \in [Devices -> Nat]
  BY DEF ReadsOK
<1>2. ReadOK(NoRead, n)
  BY <1>1 DEF ReadOK, NoRead
<1>3. CASE Ask(t, d)
  <2> DEFINE read == [NoRead EXCEPT !.phase = "asked", !.after = cursor[d]]
  <2>1. ReadOK(read, n)
    BY <1>1 DEF ReadOK, NoRead
  <2>2. Reads(t, d, read) /\ UNCHANGED <<events, cursor>>
    BY <1>3 DEF Ask
  <2> HIDE DEF read
  <2> QED
    BY <1>1, <2>1, <2>2, ReadChange
<1>4. CASE Answer(t, d)
  <2> DEFINE first == Larger(r.after, n - MaxHistory) + 1
             read == [NoRead EXCEPT !.phase = "storing", !.first = first, !.last = n,
                                    !.next = first]
  <2>1. first \in Nat \ {0}
    BY <1>1, ConnectBounds DEF ReadOK, Larger
  <2>2. Reads(t, d, read) /\ UNCHANGED <<events, cursor>>
    BY <1>4 DEF Answer
  <2> HIDE DEF first
  <2>3. ReadOK(read, n)
    BY <1>1, <2>1 DEF ReadOK, NoRead
  <2> HIDE DEF read
  <2> QED
    BY <1>1, <2>2, <2>3, ReadChange
<1>5. CASE ReadFails(t, d) \/ Return(t, d)
  <2>1. Reads(t, d, NoRead) /\ UNCHANGED <<events, cursor>>
    BY <1>5 DEF ReadFails, Return
  <2> QED
    BY <1>1, <1>2, <2>1, ReadChange
<1>6. CASE Load(t, d)
  <2> DEFINE read == [r EXCEPT !.phase = "loaded", !.loaded = cursor[d]]
  <2>1. Reads(t, d, read) /\ UNCHANGED <<events, cursor>> /\ r.phase = "storing"
    BY <1>6 DEF Load, Reading
  <2>2. /\ read.after = r.after /\ read.next = r.next /\ read.first = r.first
        /\ read.last = r.last /\ (read.loaded = cursor[d] \/ read.loaded = r.loaded)
    OBVIOUS
  <2> HIDE DEF read
  <2>3. ReadOK(read, n)
    BY <1>1, <2>2 DEF ReadOK
  <2> QED
    BY <1>1, <2>1, <2>3, ReadChange
<1>7. CASE Store(t, d)
  <2> DEFINE read == [r EXCEPT !.phase = "storing", !.loaded = 0, !.next = r.next + 1]
  <2>1. /\ Reads(t, d, read) /\ UNCHANGED events
        /\ cursor' = [cursor EXCEPT ![d] = Latest(r.loaded, r.next)]
    BY <1>7 DEF Store
  <2>2. /\ read.after = r.after /\ read.first = r.first /\ read.last = r.last
        /\ read.loaded \in {0, r.loaded} /\ read.next \in {r.next, r.next + 1}
    OBVIOUS
  <2> HIDE DEF read
  <2>3. ReadOK(read, n)
    BY <1>1, <2>2 DEF ReadOK
  <2>4. cursor' \in [Devices -> Nat]
    BY <1>1, <2>1 DEF ReadOK, Latest, Larger
  <2> QED
    BY <2>1, <2>3, <2>4, ReadChange
<1> QED
  BY <1>3, <1>4, <1>5, <1>6, <1>7

(* So does every step.                                                     *)
LEMMA ReadsStep ==
    ASSUME ReadsOK, callers \subseteq Devices, Next
    PROVE  ReadsOK'
<1>1. ASSUME UNCHANGED feedVars PROVE ReadsOK'
  BY <1>1 DEF feedVars, ReadsOK
<1>2. ASSUME NEW t \in Devices, Proceeds(t) \/ GoesWrong(t) PROVE ReadsOK'
  <2>1. CASE Poll(t) \/ Second(t)
    BY <1>2, <2>1, CallStep, TwoDevices DEF Poll, Second
  <2>2. CASE \E d \in Devices : \/ Answer(t, d) \/ ReadFails(t, d) \/ Load(t, d)
                                \/ Store(t, d) \/ Return(t, d)
    BY <1>2, <2>2, CallStep
  <2>3. CASE \/ NotTried(t) \/ ConnectOk(t) \/ DeadlinePassed(t) \/ ConfirmOk(t)
             \/ ConfirmRefused(t) \/ SourceSnapshot(t) \/ TargetSnapshot(t) \/ CancelOk(t)
    BY <1>1, <2>3 DEF NotTried, ConnectOk, DeadlinePassed, ConfirmOk, ConfirmRefused,
                      SourceSnapshot, TargetSnapshot, CancelOk
  <2>4. CASE \/ ConnectUnanswered(t) \/ ConfirmUnanswered(t) \/ SnapshotFails(t)
             \/ CancelUnanswered(t)
    BY <1>1, <2>4 DEF ConnectUnanswered, ConfirmUnanswered, SnapshotFails, CancelUnanswered
  <2> QED
    BY <1>2, <2>1, <2>2, <2>3, <2>4 DEF Proceeds, GoesWrong
<1>3. ASSUME LinkMoves PROVE ReadsOK'
  <2>1. ASSUME NEW l \in Devices, NEW d \in Devices, Announces(l, d) PROVE ReadsOK'
    BY <2>1, RecordedKeeps DEF Announces
  <2>2. ASSUME NEW l \in Devices, NEW d \in Devices, Authenticates(l, d) PROVE ReadsOK'
    BY <1>1, <2>2 DEF Authenticates
  <2>3. ASSUME NEW l \in Devices, AttemptFails(l) PROVE ReadsOK'
    BY <2>3, RecordedKeeps DEF AttemptFails
  <2> QED
    BY <1>3, <2>1, <2>2, <2>3 DEF LinkMoves
<1> QED
  BY <1>2, <1>3 DEF Next

(* Every step of a thread keeps what is known of it and of the links.      *)
LEMMA CallerStep ==
    ASSUME ConnectInv, NEW t \in callers, Proceeds(t) \/ GoesWrong(t)
    PROVE  LinksOK' /\ ThreadsOK'
<1>1. t \in Devices /\ Active = Pcs \ {"start", "done"}
  BY DEF ConnectInv, ThreadsOK, Active
<1> DEFINE Quiet == UNCHANGED <<sas, callers, events, linkVars>>
<1>2. CASE NotTried(t)
  <2>1. thread[t].pc = "start" /\ Ends(t, "failed") /\ Quiet
    BY <1>2 DEF NotTried, At, feedVars
  <2>2. attempt[t] = "none"
    BY <1>1, <2>1 DEF ConnectInv, ThreadsOK, OwnOK
  <2> QED
    BY <2>1, <2>2, EndStep
<1>3. CASE ConnectOk(t)
  BY <1>3, OpenedStep DEF ConnectOk, At, feedVars
<1>4. CASE ConnectUnanswered(t)
  <2>1. /\ thread[t].pc = "start" /\ Ends(t, "abandoned") /\ UNCHANGED <<sas, callers, events>>
        /\ Opened(t) \/ UNCHANGED linkVars
    BY <1>4 DEF ConnectUnanswered, At, feedVars
  <2> QED
    BY <2>1, OpenedStep, EndStep
<1>5. CASE Poll(t) \/ Second(t) \/ DeadlinePassed(t)
  <2>1. /\ thread[t].pc \in Active /\ Quiet
        /\ \/ \E pc \in Active \ {"confirm"} : Moves(t, pc)
           \/ \E d \in Devices : Becomes(t, [thread[t] EXCEPT !.pc = "read", !.at = d])
    BY <1>1, <1>5, TwoDevices DEF Poll, Second, DeadlinePassed, Ask, At, Active, Pcs, feedVars
  <2> QED
    BY <2>1, PlainStep
<1>6. ASSUME NEW d \in Devices, Answer(t, d) \/ Load(t, d) \/ Store(t, d)
      PROVE  LinksOK' /\ ThreadsOK'
  <2>1. UNCHANGED <<sas, callers, thread, events, linkVars>>
    BY <1>6 DEF Answer, Load, Store
  <2> QED
    BY <2>1 DEF linkVars, ConnectInv, LinksOK, ThreadsOK, EventsOf
<1>7. ASSUME NEW d \in Devices, Return(t, d) PROVE LinksOK' /\ ThreadsOK'
  BY <1>7, ReturnThread
<1>8. CASE ConfirmOk(t) \/ ConfirmRefused(t) \/ ConfirmUnanswered(t)
  BY <1>8, ConfirmStep
<1>9. CASE SourceSnapshot(t)
  BY <1>9, SourceStep
<1>10. CASE TargetSnapshot(t)
  BY <1>10, TargetStep
<1>11. CASE (\E d \in Devices : ReadFails(t, d)) \/ SnapshotFails(t)
  <2>1. /\ thread[t].pc \in Active /\ Quiet
        /\ Ends(t, "abandoned") \/ Moves(t, "cancel")
    BY <1>11 DEF ReadFails, SnapshotFails, Reading, Leaves, At, Active, Pcs, feedVars
  <2>2. "cancel" \in Active \ {"confirm"}
    BY DEF Active, Pcs
  <2> QED
    BY <2>1, <2>2, PlainStep
<1>12. CASE CancelOk(t)
  BY <1>12, ClosedStep DEF CancelOk, At, feedVars
<1>13. CASE CancelUnanswered(t)
  <2>1. /\ thread[t].pc = "cancel" /\ Ends(t, "abandoned") /\ UNCHANGED <<sas, callers, events>>
        /\ Closed(t) \/ UNCHANGED linkVars
    BY <1>13 DEF CancelUnanswered, At, feedVars
  <2> QED
    BY <2>1, ClosedStep, EndStep
<1> QED
  BY <1>2, <1>3, <1>4, <1>5, <1>6, <1>7, <1>8, <1>9, <1>10, <1>11, <1>12, <1>13
     DEF Proceeds, GoesWrong

(* ConnectInv is inductive.                                                *)
LEMMA ConnectInvStep ==
    ASSUME ConnectInv, [Next]_vars
    PROVE  ConnectInv'
<1>1. CASE UNCHANGED vars
  BY <1>1 DEF vars, feedVars, linkVars, ConnectInv, LinksOK, ReadsOK, ThreadsOK, EventsOf
<1>2. CASE Next
  <2>1. callers \subseteq Devices
    BY DEF ConnectInv, ThreadsOK
  <2>2. ReadsOK'
    BY <1>2, <2>1, ReadsStep DEF ConnectInv
  <2>3. LinksOK' /\ ThreadsOK'
    BY <1>2, <2>1, CallerStep, AnnouncesStep, AuthenticatesStep, AttemptFailsStep
       DEF Next, LinkMoves
  <2> QED
    BY <2>2, <2>3 DEF ConnectInv
<1> QED
  BY <1>1, <1>2

(* It holds at first.                                                      *)
LEMMA ConnectInvInit == Init => ConnectInv
<1> SUFFICES ASSUME Init PROVE ConnectInv
  OBVIOUS
<1>1. LinksOK
  BY DEF Init, LinksOK, AttemptStates
<1>2. ReadsOK
  <2>1. events \in [Devices -> Seq(Event)] /\ \A d \in Devices : Len(events[d]) = 0
    BY DEF Init
  <2>2. ReadOK(NoRead, 0)
    BY DEF ReadOK, NoRead
  <2>3. /\ reader = [d \in Devices |-> [t \in Devices |-> reader[d][t]]]
        /\ \A d, t \in Devices : reader[d][t] = NoRead
        /\ cursor \in [Devices -> Nat]
    BY DEF Init
  <2> QED
    BY <2>1, <2>2, <2>3 DEF ReadsOK
<1>3. /\ callers \subseteq Devices /\ sas \in BOOLEAN
      /\ thread \in [Devices -> Threads] /\ \A t \in Devices : thread[t] = Begin(t)
      /\ \A t \in Devices : attempt[t] = "none" /\ confirmed[t] = {} /\ ready[t] = {}
  BY BeginIs DEF Init, Devices
<1>4. ASSUME NEW t \in Devices PROVE OwnOK(t, thread[t], attempt[t])
  BY <1>3, BeginIs DEF OwnOK
<1>5. ASSUME NEW t \in Devices
      PROVE  /\ EventsOf(t) /\ thread[Other(t)] = Begin(Other(t))
             /\ AloneOK(t, thread[t], sas, attempt[t], confirmed[t], ready[t])
  <2>1. EventsOf(t)
    BY DEF Init, EventsOf
  <2>2. AloneOK(t, thread[t], sas, attempt[t], confirmed[t], ready[t])
    BY <1>3, BeginIs DEF AloneOK
  <2> QED
    BY <1>3, <2>1, <2>2, TwoDevices
<1> QED
  BY <1>1, <1>2, <1>3, <1>4, <1>5 DEF ConnectInv, ThreadsOK

(* The inductive invariant holds throughout.                               *)
THEOREM ConnectInvariant == ConnectSpec => []ConnectInv
BY ConnectInvInit, ConnectInvStep, PTL DEF ConnectSpec

(* A connect() that failed with a RunnerFailure leaves no attempt of its   *)
(* own open, whatever went unanswered and however the rivals interleave.   *)
THEOREM ConnectLeavesNothingOpen == ConnectSpec => []NoAttemptLeftOpen
<1>1. ConnectInv => NoAttemptLeftOpen
  BY DEF ConnectInv, ThreadsOK, OwnOK, NoAttemptLeftOpen
<1> QED
  BY <1>1, ConnectInvariant, PTL

(* A lone connect() never raises a false SAS alarm, and what it reports as *)
(* verified both ends accepted, for any number of faults and any bound of  *)
(* the fixtures' histories.                                                *)
THEOREM ConnectVerdictSound == ConnectSpec => []SasVerdictSound
<1>1. ConnectInv => SasVerdictSound
  BY DEF ConnectInv, ThreadsOK, AloneOK, SasVerdictSound
<1> QED
  BY <1>1, ConnectInvariant, PTL

=============================================================================
