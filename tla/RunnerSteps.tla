----------------------------- MODULE RunnerSteps -----------------------------
(***************************************************************************)
(* How device_integration_runner.py drives the devices.  A scenario is a   *)
(* script: a sequence of steps that poll (`wait`), assert (`check`), branch*)
(* (`if`), assert over a period (`window`), read a value (`note`), look for *)
(* the coordinator (`pick`), issue one command (`cmd`) or two from a thread *)
(* pool (`pair`), or re-raise the exception of a handler (`reraise`).      *)
(* Scenario modules supply the scripts, what a snapshot shows (`seen`),    *)
(* and whether a command is `accepted` and its `effect`.                   *)
(*                                                                         *)
(* A snapshot, an /events read and a command are requests of their own, so *)
(* a condition over several devices is sampled one request at a time while *)
(* the devices move on.  A request may be refused, may take effect and     *)
(* lose its answer, may take effect after the runner gave up, or may       *)
(* return a body that is not JSON, which DeviceApi.request does not turn   *)
(* into a RunnerFailure: `crashed` is an exception nothing catches.        *)
(***************************************************************************)
EXTENDS Integers, Sequences, FiniteSets

CONSTANTS
    Apis,       \* the devices, in the order of --device
    Scripts,    \* scenario name -> its steps
    Watched,    \* the event types the ghosts since and missed are about
    MaxHistory, \* maxEventHistory of the fixture (1000 in the code)
    MaxFaults   \* bound: requests that go wrong

ASSUME RunnerBounds == Len(Apis) > 1 /\ MaxHistory \in Nat \ {0} /\ MaxFaults \in Nat

Devices == {Apis[i] : i \in DOMAIN Apis}

VARIABLES
    unread,     \* device -> the events beyond DeviceApi.cursor its fixture retains
    since,      \* ghost: devices that recorded a watched event since the last drain
    missed,     \* ghost: those that evicted one before the runner read it
    scenario,   \* the scenario being run
    pc,         \* its current step
    sample,     \* the condition of that step sampled next
    open,       \* the commands of a pair whose future has no result yet
    chosen,     \* the device the scenario took for the coordinator
    raised,     \* the exception a handler is going to re-raise, or "no"
    outcome,    \* "running", or how run() ended
    faults,     \* requests that went wrong so far
    late        \* commands the runner gave up on that have not yet run

feedVars == <<unread, since, missed>>
controlVars == <<scenario, pc, sample, open, chosen, raised, outcome>>
stepVars == <<feedVars, controlVars, faults, late>>

-----------------------------------------------------------------------------
(* The fixture's event history and DeviceApi.events.                       *)

Retained(h) == IF Len(h) > MaxHistory THEN Tail(h) ELSE h

(* The history evicts its oldest event, which is an unread one only when   *)
(* all of them are.                                                        *)
Record(d, type) ==
    /\ unread' = [unread EXCEPT ![d] = Retained(Append(@, type))]
    /\ since' = IF type \in Watched THEN since \union {d} ELSE since
    /\ missed' = IF Len(unread[d]) = MaxHistory /\ unread[d][1] \in Watched
                 THEN missed \union {d} ELSE missed

(* The places of the unread events of some types.                          *)
Matching(d, types) == {i \in DOMAIN unread[d] : unread[d][i] \in types}

Reading(c) ==
    /\ unread' = [unread EXCEPT ![c.on] = <<>>]
    /\ IF c.kind \in {"drain", "presence"} THEN since' = since \ {c.on} /\ missed' = missed \ {c.on}
       ELSE UNCHANGED <<since, missed>>

-----------------------------------------------------------------------------
(* Steps.  `what` lists conditions or commands; an exception goes to the   *)
(* step named by onFail, or by onCrash when it is not a RunnerFailure;     *)
(* `swallow` marks a handler that does not re-raise; the label "end" ends  *)
(* the scenario.                                                           *)

Step(op, what) == [op |-> op, what |-> what, at |-> "", then |-> "next", orElse |-> "end",
                   onFail |-> "end", onCrash |-> "end", swallow |-> FALSE, toChosen |-> FALSE]
At(label, s) == [s EXCEPT !.at = label]
Then(label, s) == [s EXCEPT !.then = label]
Else(label, s) == [s EXCEPT !.orElse = label]
Catch(label, s) == [s EXCEPT !.onFail = label, !.swallow = TRUE]
AtChosen(s) == [s EXCEPT !.toChosen = TRUE]
Cmd(c) == Step("cmd", <<c>>)

(* try: steps except RunnerFailure: go to label; the handler does not      *)
(* re-raise in Handled and does in Except; Finally is for any exception.   *)
Handled(label, steps) ==
    [i \in DOMAIN steps |-> IF steps[i].onFail = "end" THEN Catch(label, steps[i]) ELSE steps[i]]
Except(label, steps) == [i \in DOMAIN steps |-> [steps[i] EXCEPT !.onFail = label]]
FinallyForFailure(label, steps) == Except(label, steps)
Finally(label, steps) ==
    [i \in DOMAIN steps |-> [steps[i] EXCEPT !.onFail = label, !.onCrash = label]]

Events(kind, d, types) == [kind |-> kind, on |-> d, types |-> types]
Shows(kind, d) == [kind |-> kind, on |-> d, types |-> {}]
EventKinds == {"drain", "quiet", "find", "presence", "collect"}

(* Conditions over values the runner already holds need no request.        *)
LocalKinds == {"enough", "exact"}

script == Scripts[scenario]
Resolved(s) == IF s.toChosen
               THEN [s EXCEPT !.what = [i \in DOMAIN @ |-> [@[i] EXCEPT !.on = chosen]]] ELSE s
Now == Resolved(script[pc])
Condition == Now.what[sample]
Busy(ops) == outcome = "running" /\ Now.op \in ops

End(how) == /\ outcome' = how /\ sample' = 1 /\ open' = {}
            /\ UNCHANGED <<scenario, pc, chosen, raised>>

Jump(label) == CHOOSE i \in DOMAIN script : script[i].at = label

Enter(i) == /\ pc' = i /\ sample' = 1 /\ UNCHANGED <<scenario, chosen, outcome>>
            /\ open' = IF script[i].op \in {"cmd", "pair"} THEN DOMAIN script[i].what ELSE {}

Goto(label) ==
    IF label = "end" \/ (label = "next" /\ pc = Len(script)) THEN End("passed")
    ELSE Enter(IF label = "next" THEN pc + 1 ELSE Jump(label)) /\ UNCHANGED raised

Raise(how) ==
    LET label == IF how = "crashed" THEN Now.onCrash ELSE Now.onFail
    IN  IF label = "end" THEN End(how)
        ELSE /\ Enter(Jump(label))
             /\ raised' = IF ~Now.swallow THEN how ELSE IF Now.op = "reraise" THEN "no" ELSE raised

Reraise(rest) ==
    /\ Busy({"reraise"})
    /\ IF raised = "no" THEN Goto(Now.then) ELSE Raise(raised)
    /\ UNCHANGED <<rest, feedVars, faults, late>>

-----------------------------------------------------------------------------
(* Polls and assertions.  An event read that finds what it looks for still *)
(* moves the cursor past everything in the same answer.                    *)

Verdict(c, seen) ==
    IF c.kind \in {"drain", "collect"} THEN "yes"
    ELSE IF c.kind = "quiet" THEN IF Matching(c.on, c.types) = {} THEN "yes" ELSE "raise"
    ELSE IF c.kind = "find" THEN IF Matching(c.on, c.types) # {} THEN "yes" ELSE "no"
    ELSE IF seen THEN "yes"
    ELSE IF c.kind = "steady" THEN "raise" ELSE "no"

Sample(seen, rest) ==
    /\ Busy({"wait", "check", "if", "window"}) /\ sample > 0
    /\ LET c == Condition
           v == Verdict(c, seen)
       IN  /\ IF c.kind \in EventKinds THEN Reading(c) ELSE UNCHANGED feedVars
           /\ \/ /\ v = "yes" /\ sample < Len(Now.what)
                 /\ sample' = sample + 1
                 /\ UNCHANGED <<scenario, pc, open, chosen, raised, outcome>>
              \/ v = "yes" /\ sample = Len(Now.what) /\ Now.op # "window" /\ Goto(Now.then)
              \/ v = "yes" /\ sample = Len(Now.what) /\ Now.op = "window"
                 /\ sample' = 0 /\ UNCHANGED <<scenario, pc, open, chosen, raised, outcome>>
              \/ v = "no" /\ Now.op = "wait" /\ sample' = 0
                 /\ UNCHANGED <<scenario, pc, open, chosen, raised, outcome>>
              \/ v = "no" /\ Now.op = "if" /\ Goto(Now.orElse)
              \/ v = "no" /\ Now.op \in {"check", "window"} /\ Raise("failed")
              \/ v = "raise" /\ Raise("failed")
    /\ UNCHANGED <<rest, faults, late>>

(* Runner.wait and a window look at the clock between two rounds, after a  *)
(* sleep (sample 0): the last sample of a window comes before its end.     *)
PollAgain(rest) ==
    /\ Busy({"wait", "window"}) /\ sample = 0 /\ sample' = 1
    /\ UNCHANGED <<rest, feedVars, faults, late, scenario, pc, open, chosen, raised, outcome>>

DeadlineIgnored(rest) == PollAgain(rest)
DeadlinePassed(rest) ==
    /\ Busy({"wait"}) /\ sample = 0
    /\ Raise("failed")
    /\ UNCHANGED <<rest, feedVars, faults, late>>

WindowEnds(rest) ==
    /\ Busy({"window"}) /\ sample = 0
    /\ Goto(Now.then)
    /\ UNCHANGED <<rest, feedVars, faults, late>>

(* The coordinator is the first device whose snapshot said so; the         *)
(* generator passed to next() may be empty, because the snapshots are read *)
(* one by one: StopIteration is not a RunnerFailure.                       *)
Pick(seen, rest) ==
    /\ Busy({"pick"})
    /\ LET found == IF chosen = "none" /\ seen THEN Condition.on ELSE chosen
       IN  IF sample < Len(Now.what)
           THEN /\ chosen' = found /\ sample' = sample + 1
                /\ UNCHANGED <<scenario, pc, open, raised, outcome>>
           ELSE IF found = "none" THEN Raise("crashed")
           ELSE /\ chosen' = found /\ pc' = pc + 1 /\ sample' = 1
                /\ open' = IF script[pc + 1].op = "cmd" THEN {1} ELSE {}
                /\ UNCHANGED <<scenario, raised, outcome>>
    /\ UNCHANGED <<rest, feedVars, faults, late>>

Fault == faults < MaxFaults /\ faults' = faults + 1

(* Any GET can fail; an answer that is not JSON escapes.  Only the wait    *)
(* for an endpoint takes a failed request for a poll that found nothing.   *)
ReadFails(AbsorbedReads, rest) ==
    /\ Busy({"wait", "check", "if", "window", "note", "pick"}) /\ sample > 0 /\ Fault
    /\ Condition.kind \notin LocalKinds
    /\ \/ Raise("crashed")
       \/ Condition.kind \notin AbsorbedReads /\ Raise("failed")
    /\ UNCHANGED <<rest, feedVars, late>>

-----------------------------------------------------------------------------
(* Commands.  future.result() of a pair re-raises only after both ended,   *)
(* because the pool is left before the exception leaves the `with`.        *)

Settle(i, how) ==
    IF open # {i}
    THEN /\ open' = open \ {i}
         /\ raised' = IF how = "ok" \/ raised # "no" THEN raised ELSE how
         /\ UNCHANGED <<scenario, pc, sample, chosen, outcome>>
    ELSE IF how # "ok" THEN Raise(how)
    ELSE IF Now.op = "pair" /\ raised # "no" THEN Raise(raised)
    ELSE Goto(Now.then)

CommandOk(i, accepted, effect) ==
    /\ Busy({"cmd", "pair"}) /\ i \in open /\ accepted
    /\ effect /\ Settle(i, "ok")
    /\ UNCHANGED <<faults, late>>

CommandRefused(i, accepted, rest) ==
    /\ Busy({"cmd", "pair"}) /\ i \in open
    /\ IF accepted THEN Fault ELSE UNCHANGED faults
    /\ Settle(i, "failed")
    /\ UNCHANGED <<rest, feedVars, late>>

CommandAnswerLost(i, accepted, effect) ==
    /\ Busy({"cmd", "pair"}) /\ i \in open /\ accepted /\ Fault
    /\ effect
    /\ \E how \in {"failed", "crashed"} : Settle(i, how)
    /\ UNCHANGED late

CommandDelayed(i, rest) ==
    /\ Busy({"cmd", "pair"}) /\ i \in open /\ Fault
    /\ late' = late \union {Now.what[i]}
    /\ Settle(i, "failed")
    /\ UNCHANGED <<rest, feedVars>>

LateCommand(c, accepted, effect) ==
    /\ c \in late /\ late' = late \ {c}
    /\ accepted /\ effect
    /\ UNCHANGED <<controlVars, faults>>

-----------------------------------------------------------------------------
ControlInit(s) ==
    /\ unread = [d \in Devices |-> <<>>] /\ since = {} /\ missed = {}
    /\ scenario = s /\ pc = 1 /\ sample = 1 /\ chosen = "none" /\ raised = "no"
    /\ open = IF Scripts[s][1].op \in {"cmd", "pair"} THEN DOMAIN Scripts[s][1].what ELSE {}
    /\ outcome = "running" /\ faults = 0 /\ late = {}
=============================================================================
