---------------------------- MODULE RunnerFixture ----------------------------
(***************************************************************************)
(* What most scenarios of device_integration_runner.py share: preflight,   *)
(* reset_all, connect, ensure_bidirectional_ready, group formation and the *)
(* READY checks, as pieces of script, over the part of the device fixture  *)
(* they look at.  Verification by SAS is modelled in RunnerConnect; here   *)
(* the fixtures trust on first use.                                        *)
(*                                                                         *)
(* The library is external.  Each end of a connection becomes READY, drops *)
(* and recovers by itself; a first READY needs an attempt or known peers;  *)
(* the coordinator may move at any time.                                   *)
(***************************************************************************)
EXTENDS RunnerSteps, SequencesExt

CONSTANTS
    KnownPeers, \* whether the devices already know each other's PeerIds
    MaxFlaps    \* bound: an end leaves READY, an attempt fails, the coordinator moves

ASSUME FixtureBounds == KnownPeers \in BOOLEAN /\ MaxFlaps \in Nat

VARIABLES
    present,    \* devices whose snapshot has presenceActive
    known,      \* pairs: the first device persists the PeerId of the second
    endpoints,  \* pairs: the first device has discovered the second
    attempts,   \* pairs: the first device's fixture is connecting to the second
    conn,       \* pair -> how the first device sees the second
    group,      \* device -> its group: "none", "joining" or "ready"
    leading,    \* devices whose snapshot has localIsCoordinator
    flaps       \* how often one of the devices did so

fixtureVars == <<present, known, endpoints, attempts, conn, group, leading, flaps>>

Pairs == {p \in Devices \X Devices : p[1] # p[2]}
Mirror(p) == <<p[2], p[1]>>
From(d) == {p \in Pairs : p[1] = d}

(* peerReconnecting, peerReconnected and peerDisconnected are all recorded *)
(* as "unstable", and what no scenario looks for as "other".               *)
Unstable == {"unstable", "connectFailed"}

-----------------------------------------------------------------------------
(* Pieces of script.                                                       *)

Command(name, d, arg) == [name |-> name, on |-> d, arg |-> arg]
OnAll(Make(_)) == [i \in DOMAIN Apis |-> Make(Apis[i])]
Drain(d) == Events("drain", d, {})
DrainEvents == Step("check", OnAll(Drain))

(* /health is a request like any other; presence is polled, and every poll *)
(* drains the events up to then.                                           *)
Health(d) == Shows("health", d)
Presence(d) == Events("presence", d, {})
Preflight == <<Step("check", OnAll(Health)), Step("wait", OnAll(Presence))>>

ResetRuntime(d) == Cmd(Command("resetRuntime", d, d))
ResetAll == OnAll(ResetRuntime) \o Preflight

ProvisionKnownPeers ==
    LET ps == SetToSeq(Pairs)
    IN  <<Step("check", OnAll(Health))>>
        \o [i \in DOMAIN ps |-> Cmd(Command("provisionKnownPeer", ps[i][1], ps[i][2]))]
        \o <<Step("wait", [i \in DOMAIN ps |-> Shows("known", ps[i])])>>

Ready(p) == Shows("ready", p)

Connect(source, target, cancel, done) ==
    LET p == <<source, target>>
        bothReady == <<Events("quiet", source, {"connectFailed"}),
                       Events("quiet", target, {"connectFailed"}), Ready(p), Ready(Mirror(p))>>
    IN  <<Step("wait", <<Shows("endpoint", p)>>), Cmd(Command("connect", source, target))>>
        \o Except(cancel, <<Then(done, Step("wait", bothReady))>>)
        \o <<At(cancel, Catch(done, Cmd(Command("cancelConnect", source, target)))),
             At(done, Step("reraise", <<>>))>>

PeerId(d, e) == Step("check", <<Shows("linked", <<d, e>>)>>)

EnsureReady(first, second) ==
    LET auto == Step("wait", <<Ready(<<first, second>>), Ready(<<second, first>>)>>)
        there == Handled("second", Connect(first, second, "cancel1", "done1"))
        back == Connect(second, first, "cancel2", "done2")
    IN  <<Then("paired", Catch("first", auto)), At("first", there[1])>>
        \o SubSeq(there, 2, Len(there) - 1) \o <<Then("paired", there[Len(there)])>>
        \o <<At("second", back[1])>> \o Tail(back)
        \o <<At("paired", Step("reraise", <<>>))>>

(* The links among the selected devices: the events of a device first,     *)
(* then its connections.                                                   *)
LinksOf(d) == SetToSeq({Ready(p) : p \in From(d)})
SelectedReadyLenient == FlattenSeq(OnAll(LAMBDA d : <<Events("quiet", d, {"connectFailed"})>> \o LinksOf(d)))
SelectedReady == FlattenSeq(OnAll(LAMBDA d : <<Events("quiet", d, Unstable)>> \o LinksOf(d)))
WaitForSelected == <<Step("wait", FlattenSeq(OnAll(LinksOf))), DrainEvents>>
StabilityWindow == Step("window", SelectedReady)

CreateGroup(d) == Cmd(Command("createGroup", d, d))
WaitGroup == Step("wait", OnAll(LAMBDA d : Shows("group", d)))
FormGroupUnconverged == OnAll(CreateGroup)
FormGroup == OnAll(CreateGroup) \o <<WaitGroup>>

PickCoordinator == Step("pick", OnAll(LAMBDA d : Shows("leads", d)))

BaseSeen(c) ==
    \/ c.kind = "health"
    \/ c.kind = "presence" /\ c.on \in present
    \/ c.kind = "known" /\ c.on \in known
    \/ c.kind = "endpoint" /\ c.on \in endpoints
    \/ c.kind = "ready" /\ conn[c.on] = "ready"
    \/ c.kind = "linked" /\ conn[c.on] # "none"
    \/ c.kind = "gone" /\ \A p \in From(c.on) : conn[p] = "none"
    \/ c.kind = "one" /\ Cardinality({p \in From(c.on) : conn[p] # "none"}) = 1
    \/ c.kind = "group" /\ group[c.on] = "ready"
    \/ c.kind = "noGroup" /\ group[c.on] = "none"
    \/ c.kind = "leads" /\ c.on \in leading

EndpointReads == {"endpoint"}

-----------------------------------------------------------------------------
(* The fixture's commands.                                                 *)

Cleared(f, keys, v) == [k \in DOMAIN f |-> IF k \in keys THEN v ELSE f[k]]

(* cancelConnect and the commands of a torn-down group or peer find        *)
(* nothing to do; the others need a connection or a group.                 *)
BaseAccepts(c) ==
    /\ c.name = "connect" => <<c.on, c.arg>> \in endpoints
    /\ c.name \in {"sendReliable", "sendGroup", "disconnectPeer"} => conn[<<c.on, c.arg>>] # "none"
    /\ c.name = "sendGroup" => group[c.on] = "ready"
    /\ c.name = "createGroup" => group[c.on] = "none"

(* The first known peer of a device also resets its runtime, because the   *)
(* configuration of a runtime is immutable.                                *)
Resets(c) ==
    \/ c.name = "resetRuntime"
    \/ c.name = "provisionKnownPeer" /\ \A p \in From(c.on) : p \notin known

BaseEffect(c) ==
    /\ present' = IF Resets(c) THEN present \ {c.on} ELSE present
    /\ known' = IF c.name = "provisionKnownPeer" THEN known \union {<<c.on, c.arg>>} ELSE known
    /\ endpoints' = IF Resets(c) THEN endpoints \ From(c.on) ELSE endpoints
    /\ attempts' = IF Resets(c) THEN attempts \ From(c.on)
                   ELSE IF c.name = "connect" THEN attempts \union {<<c.on, c.arg>>}
                   ELSE IF c.name = "cancelConnect" THEN attempts \ {<<c.on, c.arg>>}
                   ELSE attempts
    /\ conn' = IF Resets(c) THEN Cleared(conn, From(c.on), "none")
               ELSE IF c.name = "disconnectPeer" THEN Cleared(conn, {<<c.on, c.arg>>}, "none")
               ELSE conn
    /\ group' = IF Resets(c) \/ c.name = "leaveGroup" THEN [group EXCEPT ![c.on] = "none"]
                ELSE IF c.name = "createGroup" THEN [group EXCEPT ![c.on] = "joining"]
                ELSE group
    /\ leading' = IF Resets(c) \/ c.name = "leaveGroup" THEN leading \ {c.on} ELSE leading
    /\ UNCHANGED flaps

-----------------------------------------------------------------------------
(* The devices.                                                            *)

PresenceStarts(d) ==
    /\ d \notin present /\ present' = present \union {d}
    /\ UNCHANGED <<known, endpoints, attempts, conn, group, leading, flaps, stepVars>>

(* Discovery shows only in the wait for an endpoint, so it is left until   *)
(* then.                                                                   *)
Discovers(p) ==
    /\ Busy({"wait"})
    /\ \/ Now.what[1].kind = "endpoint" /\ p = Now.what[1].on
       \/ Now.what[1].kind = "discovered"
    /\ p[1] \in present /\ p \notin endpoints /\ endpoints' = endpoints \union {p}
    /\ UNCHANGED <<present, known, attempts, conn, group, leading, flaps, stepVars>>

(* _watchPeer of a new connection, or PeerReconnected of the old one.      *)
BecomesReady(p) ==
    /\ \/ conn[p] = "reconnecting" /\ Record(p[1], "unstable")
       \/ /\ conn[p] = "none" /\ p[1] \in present
          /\ {p, Mirror(p)} \intersect (known \union attempts) # {} \/ conn[Mirror(p)] # "none"
          /\ Record(p[1], "other")
    /\ conn' = [conn EXCEPT ![p] = "ready"]
    /\ attempts' = attempts \ {p}
    /\ UNCHANGED <<present, known, endpoints, group, leading, flaps, controlVars, faults, late>>

(* The other end of a connection that was closed follows; otherwise an end *)
(* leaves READY by itself.                                                 *)
Drops(p, to) ==
    /\ \/ flaps < MaxFlaps /\ flaps' = flaps + 1
       \/ /\ to = "none" /\ conn[Mirror(p)] = "none" /\ {p, Mirror(p)} \intersect attempts = {}
          /\ UNCHANGED flaps
    /\ conn[p] # "none" /\ conn[p] # to
    /\ conn' = [conn EXCEPT ![p] = to]
    /\ Record(p[1], "unstable")
    /\ UNCHANGED <<present, known, endpoints, attempts, group, leading, controlVars, faults, late>>

AttemptFails(p) ==
    /\ flaps < MaxFlaps /\ flaps' = flaps + 1
    /\ p \in attempts /\ attempts' = attempts \ {p}
    /\ Record(p[1], "connectFailed")
    /\ UNCHANGED <<present, known, endpoints, conn, group, leading, controlVars, faults, late>>

GroupForms(d) ==
    /\ group[d] = "joining" /\ \A e \in Devices : group[e] # "none"
    /\ \A p \in From(d) : conn[p] = "ready"
    /\ group' = [group EXCEPT ![d] = "ready"]
    /\ leading' = IF leading = {} THEN {d} ELSE leading
    /\ UNCHANGED <<present, known, endpoints, attempts, conn, flaps, stepVars>>

CoordinatorMoves(d, e) ==
    /\ flaps < MaxFlaps /\ flaps' = flaps + 1
    /\ d \in leading /\ group[e] = "ready" /\ e \notin leading
    /\ leading' = (leading \ {d}) \union {e}
    /\ UNCHANGED <<present, known, endpoints, attempts, conn, group, stepVars>>

(* What the devices do once the runner has ended concerns nobody.          *)
DevicesMove ==
    /\ outcome = "running"
    /\ \/ \E d \in Devices : PresenceStarts(d) \/ GroupForms(d)
       \/ \E p \in Pairs : Discovers(p) \/ BecomesReady(p) \/ AttemptFails(p)
                           \/ (\E to \in {"none", "reconnecting"} : Drops(p, to))
                           \/ CoordinatorMoves(p[1], p[2])

FixtureInit ==
    /\ present = Devices /\ known = (IF KnownPeers THEN Pairs ELSE {}) /\ endpoints = {} /\ attempts = {}
    /\ conn = [p \in Pairs |-> "none"] /\ group = [d \in Devices |-> "none"] /\ leading = {}
    /\ flaps = 0
=============================================================================
