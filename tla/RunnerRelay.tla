----------------------------- MODULE RunnerRelay -----------------------------
(***************************************************************************)
(* scenario_friend_relay of device_integration_runner.py (IT-046): break   *)
(* the A-C edge of three devices with a fixture command, exchange messages *)
(* over the relay B, hold, clear the block in a `finally`, and accept      *)
(* either a direct A-C link or a relay that still delivers.                *)
(*                                                                         *)
(* The mesh library is external: an end's A-C path changes as it likes,    *)
(* but is direct only while neither end blocks it and relayed only over    *)
(* READY links A-B and B-C; an accepted message is delivered at most once. *)
(***************************************************************************)
EXTENDS RunnerSteps

CONSTANTS
    Rounds,     \* messages sent in each direction (5 in the code)
    MaxStray    \* bound: application messages the scenario did not send

ASSUME RelayBounds == Rounds \in Nat \ {0} /\ MaxStray \in Nat

VARIABLES
    path,       \* end -> its A-C connection: "none", "direct" or "relay"
    near,       \* the links A-B and B-C that are READY
    blocked,    \* ends whose runtime blocks the A-C edge
    inflight,   \* end -> messages of the scenario accepted for it, not delivered
    delivered,  \* end -> messages of the scenario delivered to it
    stray,      \* device -> other messages its telemetry counted
    baseline,   \* device -> telemetry.messagesReceived when an exchange began
    unanswered, \* ends with a block or unblock command not answered with ok
    leaked      \* a message surfaced at B during the exchange

fixtureVars == <<path, near, blocked, inflight, delivered, stray, baseline, leaked>>
relayVars == <<fixtureVars, unanswered>>
allVars == <<stepVars, relayVars>>

Ends == {"a", "c"}
Peer(d) == IF d = "a" THEN "c" ELSE "a"
MessagesReceived(d) == stray[d] + (IF d \in Ends THEN delivered[d] ELSE 0)

Block(d, to) == [name |-> "setDirectPeerBlockedForTesting", on |-> d, blocked |-> to]
Send(d) == [name |-> "sendReliable", on |-> d, blocked |-> FALSE]

-----------------------------------------------------------------------------
(* The scenario.                                                           *)

Near == <<Shows("near", "ab"), Shows("near", "bc")>>
BothEnds(kind) == <<Shows(kind, "a"), Shows(kind, "c")>>
Baselines(ds) == [i \in DOMAIN ds |-> Step("note", <<Shows("received", ds[i])>>)]

Exchange == [i \in 1..(2 * Rounds) |-> Cmd(Send(IF i % 2 = 1 THEN "a" ELSE "c"))]

FriendRelay ==
    <<Step("wait", Near), Step("check", <<Events("drain", "a", {}), Events("drain", "b", {}),
                                          Events("drain", "c", {})>>)>>
    \o Finally("clearA",
        <<Cmd(Block("a", TRUE)), Cmd(Block("c", TRUE)), Step("wait", BothEnds("relay"))>>
        \o Baselines(<<"a", "c", "b">>)
        \o Exchange
        \o <<Step("wait", BothEnds("got")),
             Step("check", <<Shows("untouched", "b")>>),
             Step("window", BothEnds("relay") \o Near)>>)
    \o <<At("clearA", Catch("clearC", Cmd(Block("a", FALSE)))),
         At("clearC", Catch("cleared", Cmd(Block("c", FALSE)))),
         At("cleared", Step("reraise", <<>>)),
         Then("end", Catch("recheck", Step("wait", BothEnds("direct")))),
         At("recheck", Else("relayed", Then("end", Step("if", BothEnds("direct"))))),
         At("relayed", Step("check", BothEnds("relay")))>>
    \o Baselines(<<"a", "c">>)
    \o <<Cmd(Send("a")), Cmd(Send("c")), Step("wait", BothEnds("more"))>>

ThreeDevices == <<"a", "b", "c">>
RelayScripts == [s \in {"IT-046"} |-> FriendRelay]

(* The module is about this scenario on these devices.                     *)
ASSUME RelayScenario == Scripts = RelayScripts /\ Apis = ThreeDevices

SeenAnyArrival(c) ==
    \/ c.kind = "near" /\ c.on \in near
    \/ c.kind \in {"relay", "direct"} /\ path[c.on] = c.kind
    \/ c.kind \in {"got", "more"} /\ MessagesReceived(c.on) > baseline[c.on]
    \/ c.kind = "untouched" /\ MessagesReceived(c.on) = baseline[c.on]

SeenNoGrowth(c) ==
    \/ c.kind = "near" /\ c.on \in near
    \/ c.kind \in {"relay", "direct"} /\ path[c.on] = c.kind
    \/ c.kind = "got" /\ MessagesReceived(c.on) >= baseline[c.on] + Rounds
    \/ c.kind = "more" /\ MessagesReceived(c.on) >= baseline[c.on]
    \/ c.kind = "untouched" /\ MessagesReceived(c.on) = baseline[c.on]

Seen(c) ==
    \/ c.kind = "near" /\ c.on \in near
    \/ c.kind \in {"relay", "direct"} /\ path[c.on] = c.kind
    \/ c.kind = "got" /\ MessagesReceived(c.on) >= baseline[c.on] + Rounds
    \/ c.kind = "more" /\ MessagesReceived(c.on) > baseline[c.on]
    \/ c.kind = "untouched" /\ MessagesReceived(c.on) = baseline[c.on]

Note ==
    /\ Busy({"note"})
    /\ LET d == Now.what[1].on IN baseline' = [baseline EXCEPT ![d] = MessagesReceived(d)]
    /\ Goto(Now.then)
    /\ UNCHANGED <<path, near, blocked, inflight, delivered, stray, unanswered, leaked,
                   feedVars, faults, late>>

-----------------------------------------------------------------------------
(* The fixture commands: blocking disconnects a direct connection, sending *)
(* needs a connection to the peer.                                         *)

Accepts(c) == c.name = "sendReliable" => path[c.on] # "none"

Effect(c) ==
    /\ IF c.name = "sendReliable"
       THEN /\ inflight' = [inflight EXCEPT ![Peer(c.on)] = @ + 1]
            /\ UNCHANGED <<path, blocked>>
       ELSE /\ blocked' = IF c.blocked THEN blocked \union {c.on} ELSE blocked \ {c.on}
            /\ path' = IF c.blocked /\ path[c.on] = "direct"
                       THEN [path EXCEPT ![c.on] = "none"] ELSE path
            /\ UNCHANGED inflight
    /\ UNCHANGED <<near, delivered, stray, baseline, leaked, feedVars>>

(* An exception that is not a RunnerFailure also ends the finally loop, so *)
(* the other end is never sent its command.                                *)
NowUnanswered ==
    unanswered' = IF Now.what[1].name = "sendReliable" THEN unanswered
                  ELSE IF Now.at = "clearA" /\ outcome' = "crashed" THEN Ends
                  ELSE unanswered \union {Now.what[1].on}

Commands ==
    \/ CommandOk(1, Accepts(Now.what[1]), Effect(Now.what[1])) /\ UNCHANGED unanswered
    \/ CommandRefused(1, Accepts(Now.what[1]), fixtureVars) /\ NowUnanswered
    \/ CommandAnswerLost(1, Accepts(Now.what[1]), Effect(Now.what[1])) /\ NowUnanswered
    \/ CommandDelayed(1, fixtureVars) /\ NowUnanswered

-----------------------------------------------------------------------------
(* The devices.                                                            *)

PathChanges(d, to) ==
    /\ path[d] # to
    /\ to = "direct" => blocked = {}
    /\ to = "relay" => near = {"ab", "bc"}
    /\ path' = [path EXCEPT ![d] = to]
    /\ UNCHANGED <<near, blocked, inflight, delivered, stray, baseline, unanswered, leaked, stepVars>>

NearChanges(l) ==
    /\ near' = IF l \in near THEN near \ {l} ELSE near \union {l}
    /\ UNCHANGED <<path, blocked, inflight, delivered, stray, baseline, unanswered, leaked, stepVars>>

Deliver(d) ==
    /\ inflight[d] > 0 /\ path[d] # "none"
    /\ inflight' = [inflight EXCEPT ![d] = @ - 1]
    /\ delivered' = [delivered EXCEPT ![d] = @ + 1]
    /\ UNCHANGED <<path, near, blocked, stray, baseline, unanswered, leaked, stepVars>>

Exchanging ==
    /\ Busy({"cmd", "wait"})
    /\ \/ Now.what[1] \in {Send("a"), Send("c")} /\ Now.onFail = "clearA"
       \/ Now.what = BothEnds("got")

(* The scenario does not reset the devices: a test the user started, or    *)
(* one an earlier session left, is counted by the same telemetry.          *)
Stray(d) ==
    /\ stray["a"] + stray["b"] + stray["c"] < MaxStray
    /\ stray' = [stray EXCEPT ![d] = @ + 1]
    /\ leaked' = (leaked \/ (d = "b" /\ Exchanging))
    /\ UNCHANGED <<path, near, blocked, inflight, delivered, baseline, unanswered, stepVars>>

-----------------------------------------------------------------------------
RelayInit ==
    /\ ControlInit("IT-046")
    /\ path \in [Ends -> {"none", "direct", "relay"}] /\ near \in SUBSET {"ab", "bc"}
    /\ blocked = {} /\ inflight = [d \in Ends |-> 0] /\ delivered = [d \in Ends |-> 0]
    /\ stray = [d \in Devices |-> 0] /\ baseline = [d \in Devices |-> 0]
    /\ unanswered = {} /\ leaked = FALSE

Proceeds == Sample(Seen(Condition), relayVars) \/ Note \/ Commands \/ Reraise(relayVars)

RelayNext ==
    \/ Proceeds
    \/ PollAgain(relayVars) \/ DeadlinePassed(relayVars) \/ WindowEnds(relayVars)
    \/ ReadFails({}, relayVars)
    \/ \E c \in late : LateCommand(c, Accepts(c), Effect(c)) /\ UNCHANGED unanswered
    \/ \E d \in Ends : Deliver(d) \/ \E to \in {"none", "direct", "relay"} : PathChanges(d, to)
    \/ \E l \in {"ab", "bc"} : NearChanges(l)
    \/ \E d \in Devices : Stray(d)

(* The runner keeps executing, and every wait and window has a deadline.   *)
RelaySpec ==
    /\ RelayInit /\ [][RelayNext]_allVars
    /\ WF_allVars(Proceeds) /\ WF_allVars(PollAgain(relayVars))
    /\ SF_allVars(DeadlinePassed(relayVars)) /\ SF_allVars(WindowEnds(relayVars))

(* However the scenario ends, an end is left blocked only when one of the  *)
(* runner's commands to it was not answered with ok: every other exit,     *)
(* a crash inside the try block included, runs both unblock commands after *)
(* every block command.                                                    *)
BlockOutlivesOnlyUnanswered ==
    outcome # "running" => blocked \subseteq unanswered

(* A passing run delivered every message of the exchange in both           *)
(* directions, none of which surfaced at the intermediary; only traffic    *)
(* the scenario did not send can stand in for one, because arrivals are    *)
(* counted by the telemetry of a device that was not reset.                *)
PassedMeansExchanged ==
    outcome = "passed" => /\ ~leaked
                          /\ \A d \in Ends : delivered[d] >= Rounds \/ stray[d] > 0

(* When the direct edge did not come back, a pass rests on one more        *)
(* message delivered in each direction after the block was cleared.        *)
PassedFallbackDelivers ==
    outcome = "passed" /\ pc = Len(script)
        => \A d \in Ends : delivered[d] > Rounds \/ stray[d] > 0

(* No sequence of faults and path changes keeps the scenario from ending.  *)
RelayEnds == <>(outcome # "running")
=============================================================================
