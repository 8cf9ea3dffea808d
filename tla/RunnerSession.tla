---------------------------- MODULE RunnerSession ----------------------------
(***************************************************************************)
(* main() of device_integration_runner.py: the scenarios of a command line *)
(* one after the other, each with a new Runner, its preflight and its      *)
(* entry in the report; and the scenarios that verify single messages,     *)
(* groups and checkpoints by the events the fixtures record.               *)
(*                                                                         *)
(* A new Runner starts its cursors at 0, so it is handed whatever evidence *)
(* the scenario before it left in the histories.  Sizes and digests are    *)
(* left out: within a scenario the type of an event and its device tell    *)
(* the messages apart.                                                     *)
(***************************************************************************)
EXTENDS RunnerFixture

CONSTANTS
    Provisioned,\* scenarios run with --provision-known-peers
    Plans,      \* the command lines: sequences of scenario names
    Rounds,     \* batches of IT-008 (20), rounds of IT-017 until its deadline
    MaxInvokes  \* bound: backend invocations the devices log

ASSUME SessionBounds == Rounds \in Nat \ {0} /\ MaxInvokes \in Nat

VARIABLES
    plan,       \* the command line
    results,    \* the statuses reported so far
    exit,       \* exit status of the process: "none", 0, 1 or "uncaught"
    past,       \* device -> evidence the runner has read and the history retains
    inflight,   \* messages and publications accepted and not yet delivered
    sends,      \* how many there were in this scenario
    received,   \* how many of them the runner has counted
    before,     \* device -> backend_resource_counts before the group
    invokes     \* backend invocations so far

messageVars == <<inflight, sends, received, before, invokes>>
mainVars == <<plan, results, exit, past>>
allVars == <<stepVars, fixtureVars, messageVars, mainVars>>

First == Apis[1]
Second == Apis[2]
Job == Len(results) + 1
Evidence == {"directMessageReceived", "groupMessageReceived", "checkpointAccepted", "durable"}

-----------------------------------------------------------------------------
(* Scenarios.                                                              *)

Pair == Connect(First, Second, "cancel", "done")
Group == FormGroup
To(name, d, e) == Command(name, d, e)
WaitForEvent(d, type) == Step("wait", <<Events("find", d, {type})>>)
Collect(d) == Events("collect", d, {"directMessageReceived"})
Steady == <<Shows("steady", First), Shows("steady", Second)>>
SendAndWait(name, d, e, type) == <<Cmd(To(name, d, e)), WaitForEvent(e, type)>>

Discovery == <<Step("wait", OnAll(LAMBDA d : Shows("discovered", d)))>>
Identities == Step("check", OnAll(Health))

Identity ==
    Pair \o <<Identities, PeerId(First, Second), Cmd(To("disconnectPeer", First, Second)),
              Step("wait", OnAll(LAMBDA d : Shows("gone", d)))>>
    \o Connect(First, Second, "cancel2", "done2") \o <<Identities>>

Messages ==
    Pair \o <<PeerId(First, Second)>>
    \o FlattenSeq([i \in 1..Rounds |->
         <<Cmd(To("sendReliable", First, Second)),
           Step("wait", <<Collect(Second), Shows("enough", Second)>>)>>])

LargeMessage ==
    Pair \o <<PeerId(First, Second), Cmd(To("sendReliable", First, Second)),
              Step("wait", <<Collect(Second)>> \o Steady \o <<Shows("enough", Second)>>)>>

Mixed ==
    Pair \o <<DrainEvents, PeerId(Second, First), PeerId(First, Second)>>
    \o FlattenSeq([i \in 1..4 |->
         IF i % 2 = 1 THEN SendAndWait("sendReliable", First, Second, "directMessageReceived")
         ELSE SendAndWait("sendReliable", Second, First, "directMessageReceived")])
    \o <<Step("check", Steady)>>

Soak ==
    Pair \o <<PeerId(First, Second)>>
    \o FlattenSeq([i \in 1..Rounds |->
         <<Cmd(To("sendReliable", First, Second)), Step("check", Steady \o <<Collect(Second)>>)>>])
    \o <<Step("wait", <<Collect(Second), Shows("enough", Second)>>),
         Step("check", <<Shows("exact", Second)>>)>>

(* backend_resource_counts counts the invocations in one answer of /events *)
(* and takes the cursor past them.                                         *)
Resources(d) == <<Step("note", <<Shows("resources", d)>>)>>

GroupRoutes ==
    Pair \o Resources(First) \o Resources(Second) \o Group
    \o FlattenSeq(OnAll(LAMBDA d : <<Step("compare", <<Shows("resources", d)>>),
                                     Step("check", <<Shows("one", d)>>)>>))
    \o <<PeerId(First, Second)>>
    \o SendAndWait("sendReliable", First, Second, "directMessageReceived")
    \o SendAndWait("sendGroup", First, Second, "groupMessageReceived")

OneReady(d) == Shows("oneReady", d)

BidirectionalGroupDrained ==
    Pair \o Group \o <<Step("wait", OnAll(OneReady)), PeerId(First, Second), PeerId(Second, First),
        Step("pair", <<To("sendGroup", First, Second), To("sendGroup", Second, First)>>), DrainEvents,
        WaitForEvent(Second, "groupMessageReceived"), WaitForEvent(First, "groupMessageReceived"),
        Step("check", OnAll(OneReady))>>

BidirectionalGroup ==
    Pair \o Group \o <<Step("wait", OnAll(OneReady)), DrainEvents,
        PeerId(First, Second), PeerId(Second, First),
        Step("pair", <<To("sendGroup", First, Second), To("sendGroup", Second, First)>>),
        WaitForEvent(Second, "groupMessageReceived"), WaitForEvent(First, "groupMessageReceived"),
        Step("check", OnAll(OneReady))>>

GroupLeave ==
    Pair \o Group \o <<PeerId(First, Second), Cmd(To("leaveGroup", First, First)),
        Step("wait", <<Shows("noGroup", First)>>)>>
    \o SendAndWait("sendReliable", First, Second, "directMessageReceived")

GroupOwnership ==
    Pair \o Group \o <<PeerId(First, Second), Cmd(To("releasePeerRetention", First, Second))>>
    \o SendAndWait("sendGroup", First, Second, "groupMessageReceived")
    \o <<Cmd(To("leaveGroup", First, First)), Cmd(To("leaveGroup", Second, Second)),
         Step("wait", OnAll(LAMBDA d : Shows("gone", d)))>>

Publication ==
    Group \o <<PickCoordinator, AtChosen(Cmd(To("publishCheckpoint", First, First))),
               AtChosen(WaitForEvent(First, "checkpointAccepted")),
               AtChosen(WaitForEvent(First, "durable"))>>

(* On two devices IT-018, IT-019 and IT-036 raise ScenarioBlocked before   *)
(* they touch a device, as run() does for a name it does not know.         *)
Blocked == <<Step("block", <<>>)>>

run == [
    IT001 |-> Discovery, IT003 |-> ResetAll \o Pair,
    IT004 |-> ResetAll \o Connect(Second, First, "cancel", "done"),
    IT005 |-> ResetAll \o Identity, IT008 |-> ResetAll \o Messages,
    IT009 |-> ResetAll \o LargeMessage, IT040 |-> ResetAll \o Mixed,
    IT042 |-> ResetAll \o BidirectionalGroup, IT017 |-> ResetAll \o Soak,
    IT018 |-> Blocked,
    IT028 |-> ResetAll \o Pair \o Publication,
    IT036 |-> Blocked,
    IT032 |-> ResetAll \o GroupRoutes, IT034 |-> ResetAll \o GroupLeave,
    IT035 |-> ResetAll \o GroupOwnership, IT099 |-> Blocked]

Scenarios == {"IT001", "IT003", "IT004", "IT005", "IT008", "IT009", "IT017", "IT018", "IT028",
              "IT032", "IT034", "IT035", "IT036", "IT040", "IT042", "IT099"}
SessionScripts ==
    [s \in Scenarios |-> Preflight \o (IF s \in Provisioned THEN ProvisionKnownPeers ELSE <<>>) \o run[s]]

TwoDevices == <<"a", "b">>
SomePlans == {
    <<"IT001", "IT003">>, <<"IT005", "IT034">>, <<"IT008", "IT009">>, <<"IT017", "IT032">>,
    <<"IT028", "IT040">>, <<"IT042", "IT035">>, <<"IT036", "IT018">>, <<"IT099", "IT004">>}

(* The module is about these scenarios on two devices, and --scenario is   *)
(* required, so that a command line names at least one.                    *)
ASSUME SessionScenario ==
    /\ Scripts = SessionScripts /\ Apis = TwoDevices /\ Watched = Evidence
    /\ \A p \in Plans : p \in Seq(Scenarios) /\ p # <<>>

EnoughButOne == received + 1 >= sends
Enough == received >= sends

Seen(c) ==
    \/ BaseSeen(c)
    \/ c.kind = "discovered" /\ From(c.on) \intersect endpoints # {}
    \/ c.kind = "steady" /\ \A p \in From(c.on) : conn[p] # "reconnecting"
    \/ c.kind = "oneReady" /\ \A p \in From(c.on) : conn[p] = "ready"
    \/ c.kind = "enough" /\ Enough
    \/ c.kind = "exact" /\ received = sends

-----------------------------------------------------------------------------
(* Reads.                                                                  *)

Invoked(d) == Matching(d, {"invoke"}) # {}

(* What an event read takes past the cursor is kept for the next Runner.   *)
Keep(d) == past' = IF Job < Len(plan)
                   THEN [past EXCEPT ![d] = @ \union {unread[d][i] : i \in DOMAIN unread[d]}]
                   ELSE past

Samples ==
    /\ Sample(Seen(Condition), <<fixtureVars, inflight, sends, before, invokes, plan, results, exit>>)
    /\ LET c == Condition
       IN  /\ IF c.kind \in EventKinds THEN Keep(c.on) ELSE UNCHANGED past
           /\ received' = IF c.kind = "collect" THEN received + Cardinality(Matching(c.on, c.types))
                          ELSE received

Counts ==
    /\ Busy({"note", "compare"})
    /\ LET d == Now.what[1].on
       IN  /\ before' = IF Now.op = "note" THEN [before EXCEPT ![d] = Invoked(d)] ELSE before
           /\ IF Now.op = "compare" /\ Invoked(d) # before[d] THEN Raise("failed") ELSE Goto(Now.then)
           /\ unread' = [unread EXCEPT ![d] = <<>>] /\ Keep(d)
    /\ UNCHANGED <<since, missed, fixtureVars, inflight, sends, received, invokes,
                   plan, results, exit, faults, late>>

Blocks ==
    /\ Busy({"block"}) /\ Raise("blocked")
    /\ UNCHANGED <<feedVars, faults, late, fixtureVars, messageVars, mainVars>>

-----------------------------------------------------------------------------
(* The fixtures.                                                           *)

Sending == {"sendReliable", "sendGroup", "publishCheckpoint"}

Accepts(c) ==
    /\ BaseAccepts(c)
    /\ c.name = "publishCheckpoint" => c.on \in leading /\ group[c.on] = "ready"

(* The completion of a publication is recorded by its publisher.           *)
Destination(c) == IF c.name = "publishCheckpoint" THEN c.on ELSE c.arg

SendEffect(c) ==
    /\ sends' = IF c.name \in Sending THEN sends + 1 ELSE sends
    /\ inflight' = IF c.name \in Sending
                   THEN inflight \union {[name |-> c.name, from |-> c.on, to |-> Destination(c), id |-> sends]}
                   ELSE IF Resets(c)
                   THEN {m \in inflight : c.on \notin {m.from, m.to}} ELSE inflight
    /\ UNCHANGED <<received, before, invokes, mainVars>>

Effect(c) ==
    /\ BaseEffect(c) /\ SendEffect(c)
    /\ IF c.name = "publishCheckpoint" THEN Record(c.on, "checkpointAccepted") ELSE UNCHANGED feedVars

Deliver(m) ==
    /\ IF m.name = "sendReliable" THEN conn[<<m.to, m.from>>] # "none" ELSE group[m.to] # "none"
    /\ inflight' = inflight \ {m}
    /\ Record(m.to, IF m.name = "sendReliable" THEN "directMessageReceived"
                    ELSE IF m.name = "sendGroup" THEN "groupMessageReceived" ELSE "durable")
    /\ UNCHANGED <<controlVars, faults, late, fixtureVars, sends, received, before, invokes,
                   mainVars>>

(* listenGatt, startAdvertising or startDiscovery is invoked (again).      *)
Invokes(d) ==
    /\ scenario = "IT032" /\ invokes < MaxInvokes /\ invokes' = invokes + 1
    /\ Record(d, "invoke")
    /\ UNCHANGED <<controlVars, faults, late, fixtureVars, inflight, sends, received, before, mainVars>>

-----------------------------------------------------------------------------
(* main().                                                                 *)

Stale(d) == LET all == SetToSeq(past[d] \ {"other", "unstable"}) \o unread[d]
            IN  SubSeq(all, IF Len(all) > MaxHistory THEN Len(all) - MaxHistory + 1 ELSE 1, Len(all))

ExitUnlessFailed(rs) == IF \A i \in DOMAIN rs : rs[i] # "failed" THEN "0" ELSE "1"
ExitStatus(rs) == IF \A i \in DOMAIN rs : rs[i] = "passed" THEN "0" ELSE "1"

(* The telemetry snapshots absorb a RunnerFailure and nothing else; a      *)
(* failed scenario is the last one, a blocked one is not.                  *)
Reports ==
    /\ exit = "none" /\ outcome \in {"passed", "failed", "blocked"}
    /\ results' = Append(results, outcome)
    /\ IF outcome # "failed" /\ Job < Len(plan)
       THEN /\ scenario' = plan[Job + 1] /\ pc' = 1 /\ sample' = 1 /\ open' = {}
            /\ chosen' = "none" /\ raised' = "no" /\ outcome' = "running"
            /\ unread' = [d \in Devices |-> Stale(d)] /\ past' = [d \in Devices |-> {}]
            /\ UNCHANGED exit
       ELSE /\ exit' = ExitStatus(results')
            /\ UNCHANGED <<controlVars, unread, past>>
    /\ sends' = 0 /\ received' = 0
    /\ UNCHANGED <<since, missed, faults, late, fixtureVars, inflight, before, invokes, plan>>

Uncaught ==
    /\ exit = "none"
    /\ IF outcome = "crashed" THEN UNCHANGED faults
       ELSE outcome # "running" /\ Fault
    /\ exit' = "uncaught"
    /\ UNCHANGED <<controlVars, feedVars, late, fixtureVars, messageVars, plan, results, past>>

-----------------------------------------------------------------------------
SessionInit ==
    /\ FixtureInit /\ plan \in Plans /\ ControlInit(plan[1])
    /\ results = <<>> /\ exit = "none" /\ past = [d \in Devices |-> {}]
    /\ inflight = {} /\ sends = 0 /\ received = 0 /\ before = [d \in Devices |-> FALSE]
    /\ invokes = 0

rest == <<fixtureVars, messageVars, mainVars>>

Commands ==
    \E i \in open :
        LET c == Now.what[i] IN
        \/ CommandOk(i, Accepts(c), Effect(c)) \/ CommandAnswerLost(i, Accepts(c), Effect(c))
        \/ CommandRefused(i, Accepts(c), rest) \/ CommandDelayed(i, rest)

Proceeds ==
    \/ Samples \/ Pick(Seen(Condition), rest) \/ Counts \/ Blocks \/ Commands \/ Reraise(rest)
    \/ Reports \/ Uncaught

SessionNext ==
    \/ Proceeds
    \/ PollAgain(rest) \/ DeadlinePassed(rest) \/ ReadFails(EndpointReads, rest)
    \/ \E c \in late : LateCommand(c, Accepts(c), Effect(c))
    \/ DevicesMove /\ UNCHANGED <<messageVars, mainVars>>
    \/ outcome = "running" /\ ((\E m \in inflight : Deliver(m)) \/ (\E d \in Devices : Invokes(d)))

SessionSpec == SessionInit /\ [][SessionNext]_allVars

-----------------------------------------------------------------------------
(* A scenario passes only when every message and publication it submitted  *)
(* was delivered: no event of an earlier scenario, which a new Runner is   *)
(* handed again, stands in for one of them.                                *)
PassedMeansDelivered == outcome = "passed" => inflight = {}

(* While a step waits for an event, the event is not already behind the    *)
(* cursor: an earlier read of this scenario took it along only in IT-028,  *)
(* where wait_for_event looks for two events of one device and discards    *)
(* the rest of the answer that held the first.                             *)
EvidenceStillAhead ==
    Busy({"wait"}) /\ Now.what[1].kind = "find" /\ Now.what[1].types # {"durable"}
        => LET d == Now.what[1].on
           IN  (\A m \in inflight : m.to # d) /\ d \notin missed
                   => Matching(d, Now.what[1].types) # {}

(* The process exits with 0 only when every scenario of the command line   *)
(* ran and passed; one that was blocked does not stop the others, one that *)
(* failed does.                                                            *)
ExitMeansAllPassed ==
    /\ exit = "0" => Len(results) = Len(plan) /\ \A i \in DOMAIN plan : results[i] = "passed"
    /\ exit = "1" => results[Len(results)] = "failed" \/ Len(results) = Len(plan)
=============================================================================
