---------------------------- MODULE RunnerTraffic ----------------------------
(***************************************************************************)
(* The sustained-load scenarios of device_integration_runner.py on two     *)
(* devices: IT-041 (fixed rate), IT-043 (size ramp) and IT-044 (checkpoint *)
(* ramp).  Each starts a producer in the fixture, stops it, reads the      *)
(* fixture's counters and requires every selected link to stay READY.      *)
(*                                                                         *)
(* Durations are left out: a producer sends as often as it likes between   *)
(* its start and its stop, and the thresholds of the code are constants.   *)
(***************************************************************************)
EXTENDS RunnerFixture

CONSTANTS
    Ramp,       \* the message size of each phase
    MaxSent,    \* device -> bound: messages its direct producers send
    MaxPublished, \* bound: checkpoints a device publishes
    MinSent,    \* messages a phase must have sent (295, or 16 checkpoints)
    MinBytes,   \* bytes that must have been delivered (200 B/s)
    LossBound   \* one message in LossBound may be lost, less one (10)

ASSUME TrafficBounds ==
    /\ Ramp \in Seq(Nat \ {0}) /\ Ramp # <<>> /\ \A d \in DOMAIN MaxSent : MaxSent[d] \in Nat
    /\ MaxPublished \in Nat /\ MinSent \in Nat /\ MinBytes \in Nat /\ LossBound \in Nat \ {0}

VARIABLES
    producer,   \* device -> the traffic or checkpoint run of its fixture
    totals,     \* device -> what the runner added up over the phases
    produced    \* ghost: device -> messages sent since the runtime was reset

trafficVars == <<producer, totals, produced>>
allVars == <<stepVars, fixtureVars, trafficVars>>

First == Apis[1]
Second == Apis[2]

Idle == [on |-> FALSE, size |-> 0, sent |-> 0, acked |-> 0, lost |-> 0,
         pending |-> 0, refused |-> 0]
Zero == [bytes |-> 0, sent |-> 0, lost |-> 0]

-----------------------------------------------------------------------------
(* The scenarios.                                                          *)

Both(Make(_)) == <<Make(First), Make(Second)>>
Start(size) == Step("pair", Both(LAMBDA d : Command("startSendTest", d, size)))
Stop == Step("pair", Both(LAMBDA d : Command("stopSendTest", d, 0)))
Assess(kind, size) == Step("assess", Both(LAMBDA d : Events(kind, d, {size})))
AssertReady == Step("check", SelectedReady)

Settled == <<DrainEvents>> \o WaitForSelected \o <<At("watch", StabilityWindow)>>
PeerIds == <<PeerId(First, Second), PeerId(Second, First)>>

FixedRate ==
    ResetAll \o EnsureReady(First, Second) \o PeerIds \o Settled
    \o <<Start(Ramp[1]), StabilityWindow, Stop, Assess("lossless", Ramp[1]), StabilityWindow>>

SizeRamp ==
    ResetAll \o EnsureReady(First, Second) \o PeerIds \o Settled
    \o FlattenSeq([i \in DOMAIN Ramp |->
         <<Start(Ramp[i]), StabilityWindow, Stop, Assess("accounted", Ramp[i]), AssertReady>>])
    \o <<Assess("bandwidth", 0), StabilityWindow>>

CheckpointPhaseUndrained(size) ==
    <<AtChosen(Cmd(Command("startCheckpointTest", First, size))),
      AtChosen(Cmd(Command("stopCheckpointTest", First, 0))),
      AtChosen(Step("check", <<Shows("counters", First)>>)),
      AtChosen(Step("assess", <<Shows("durable", First)>>)), AssertReady>>

CheckpointPhase(size) ==
    <<AtChosen(Cmd(Command("startCheckpointTest", First, size))),
      AtChosen(Cmd(Command("stopCheckpointTest", First, 0))),
      AtChosen(Step("wait", <<Shows("drained", First)>>)),
      AtChosen(Step("check", <<Shows("counters", First)>>)),
      AtChosen(Step("assess", <<Shows("durable", First)>>)), AssertReady>>

CheckpointRamp ==
    ResetAll \o Connect(First, Second, "cancel", "done") \o FormGroup \o <<PickCoordinator, DrainEvents>>
    \o PeerIds \o WaitForSelected \o <<At("watch", StabilityWindow)>>
    \o FlattenSeq([i \in DOMAIN Ramp |-> CheckpointPhase(Ramp[i])])
    \o <<StabilityWindow>>

TwoDevices == <<"a", "b">>
UnevenLoad == [d \in {"a", "b"} |-> IF d = "a" THEN 2 ELSE 1]
UpAndDown == <<1, 2>>
TrafficScripts ==
    [s \in {"IT-041", "IT-043", "IT-044"} |->
        IF s = "IT-041" THEN FixedRate ELSE IF s = "IT-043" THEN SizeRamp ELSE CheckpointRamp]

(* The module is about these scenarios on these devices.                   *)
ASSUME TrafficScenario == Scripts = TrafficScripts /\ Apis = TwoDevices /\ Watched = Unstable

Seen(c) ==
    \/ BaseSeen(c)
    \/ c.kind = "counters"
    \/ c.kind = "drained" /\ ~producer[c.on].on /\ producer[c.on].pending = 0

(* Assertions over counters the runner already holds.  The fixture keeps   *)
(* those of a stopped run until the next start, so they are read from it.  *)
Holds(kind, sizes, r, t) ==
    /\ kind \in {"lossless", "accounted"} => ~r.on /\ r.size \in sizes
    /\ kind = "lossless" => r.sent >= MinSent /\ r.acked = r.sent /\ r.lost = 0
    /\ kind = "accounted" => r.acked + r.lost = r.sent
    /\ kind = "bandwidth" => t.bytes >= MinBytes /\ t.sent > 0 /\ t.lost * LossBound < t.sent
    /\ kind = "durable" => /\ r.sent >= MinSent /\ r.acked * r.size >= MinBytes
                           /\ r.lost * LossBound < r.sent + r.lost /\ r.refused = 0

AddedLastPhase(t, r) == [bytes |-> t.bytes + r.acked * r.size, sent |-> r.sent, lost |-> r.lost]
Added(t, r) == [bytes |-> t.bytes + r.acked * r.size, sent |-> t.sent + r.sent,
                lost |-> t.lost + r.lost]

Assesses ==
    /\ Busy({"assess"})
    /\ LET ds == {Now.what[i].on : i \in DOMAIN Now.what}
           kind == Now.what[1].kind
       IN  IF \A d \in ds : Holds(kind, Now.what[1].types, producer[d], totals[d])
           THEN /\ totals' = [d \in Devices |-> IF kind = "accounted" THEN Added(totals[d], producer[d])
                                                ELSE totals[d]]
                /\ Goto(Now.then)
           ELSE UNCHANGED totals /\ Raise("failed")
    /\ UNCHANGED <<fixtureVars, producer, produced, feedVars, faults, late>>

-----------------------------------------------------------------------------
(* The fixture's producers.                                                *)

Accepts(c) ==
    /\ BaseAccepts(c)
    /\ c.name = "startCheckpointTest" => c.on \in leading /\ group[c.on] = "ready"

(* Stopping direct traffic waits for its ACKs and then counts the missing  *)
(* ones as timed out; a checkpoint run keeps its pending publications.  A  *)
(* start stops the run before it, a reset stops everything.                *)
Stopped(r, name) ==
    IF name = "stopCheckpointTest" THEN [r EXCEPT !.on = FALSE]
    ELSE [r EXCEPT !.on = FALSE, !.lost = @ + r.pending, !.pending = 0]

Effect(c) ==
    /\ BaseEffect(c) /\ UNCHANGED feedVars
    /\ producer' = [producer EXCEPT ![c.on] =
            IF Resets(c) THEN Idle
            ELSE IF c.name \in {"startSendTest", "startCheckpointTest"}
                 THEN [Idle EXCEPT !.on = TRUE, !.size = c.arg]
            ELSE IF c.name \in {"stopSendTest", "stopCheckpointTest"} THEN Stopped(@, c.name)
            ELSE @]
    /\ produced' = IF Resets(c) THEN [produced EXCEPT ![c.on] = 0] ELSE produced
    /\ UNCHANGED totals

Produce(d) ==
    /\ producer[d].on /\ produced[d] < (IF scenario = "IT-044" THEN MaxPublished ELSE MaxSent[d])
    /\ scenario = "IT-043" => producer[d].pending = 0
    /\ producer' = [producer EXCEPT ![d].sent = @ + 1, ![d].pending = @ + 1]
    /\ produced' = [produced EXCEPT ![d] = @ + 1]
    /\ UNCHANGED totals

(* The four-publications-per-second limit of the library.                  *)
Refuse(d) ==
    /\ scenario = "IT-044" /\ producer[d].on /\ producer[d].refused = 0
    /\ producer' = [producer EXCEPT ![d].refused = 1]
    /\ UNCHANGED <<totals, produced>>

Complete(d) ==
    /\ producer[d].pending > 0
    /\ \/ producer' = [producer EXCEPT ![d].pending = @ - 1, ![d].acked = @ + 1]
       \/ producer' = [producer EXCEPT ![d].pending = @ - 1, ![d].lost = @ + 1]
    /\ UNCHANGED <<totals, produced>>

(* The counters show only in the stop and in the drain, so what a producer *)
(* did while its link and its group lasted is left until then.             *)
ProducersMove ==
    /\ \/ Busy({"pair", "cmd"}) /\ Now.what[1].name \in {"stopSendTest", "stopCheckpointTest"}
       \/ Busy({"wait"}) /\ Now.what[1].kind = "drained"
    /\ \E d \in Devices : Produce(d) \/ Refuse(d) \/ Complete(d)
    /\ UNCHANGED <<stepVars, fixtureVars>>

-----------------------------------------------------------------------------
TrafficInit ==
    /\ FixtureInit /\ (\E s \in DOMAIN Scripts : ControlInit(s))
    /\ producer = [d \in Devices |-> Idle]
    /\ totals = [d \in Devices |-> Zero] /\ produced = [d \in Devices |-> 0]

rest == <<fixtureVars, trafficVars>>

Commands ==
    \E i \in open :
        LET c == Now.what[i] IN
        \/ CommandOk(i, Accepts(c), Effect(c)) \/ CommandAnswerLost(i, Accepts(c), Effect(c))
        \/ CommandRefused(i, Accepts(c), rest) \/ CommandDelayed(i, rest)

Proceeds ==
    \/ Sample(Seen(Condition), rest) \/ Pick(Seen(Condition), rest) \/ Assesses \/ Commands \/ Reraise(rest)

TrafficNext ==
    \/ Proceeds
    \/ PollAgain(rest) \/ DeadlinePassed(rest) \/ WindowEnds(rest)
    \/ ReadFails(EndpointReads, rest)
    \/ \E c \in late : LateCommand(c, Accepts(c), Effect(c))
    \/ DevicesMove /\ UNCHANGED trafficVars
    \/ ProducersMove

TrafficSpec == TrafficInit /\ [][TrafficNext]_allVars

-----------------------------------------------------------------------------
Watching == pc >= Jump("watch")

(* From the first stability window on, an end that leaves READY or an      *)
(* attempt that fails is either still unread or was evicted by the bounded *)
(* history: no read of the runner takes such an event off the feed without *)
(* failing the scenario, whichever step it belongs to.                     *)
NoFlapOverlooked ==
    Watching /\ outcome \in {"running", "passed"}
        => \A d \in Devices :
              d \notin since \/ d \in missed \/ Matching(d, Unstable) # {}

(* A pass accounts for every message the fixtures produced since the       *)
(* reset: IT-041 obtained an ACK for each, IT-043 added each of them up    *)
(* once over its phases, as delivered or as lost.                          *)
PassedAccountsForAll ==
    outcome = "passed"
        => \A d \in Devices :
             /\ scenario = "IT-041" => producer[d].acked = produced[d]
             /\ scenario = "IT-043" => totals[d].sent = produced[d]

(* A passing scenario leaves no producer running and no publication        *)
(* pending, whichever device became the coordinator in between.            *)
PassedLeavesQuiet ==
    outcome = "passed" => \A d \in Devices : ~producer[d].on /\ producer[d].pending = 0

(* Only an answer that is not JSON, or a coordinator that moves while the  *)
(* snapshots are read, ends a scenario with an exception main() does not   *)
(* report.                                                                 *)
CrashNeedsCause ==
    outcome = "crashed" => faults > 0 \/ (scenario = "IT-044" /\ flaps > 0)
=============================================================================
