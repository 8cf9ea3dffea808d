------------------------- MODULE RunnerSessionProofs -------------------------
(***************************************************************************)
(* Proofs about main() and the scenarios of RunnerSession, for every set   *)
(* of command lines, number of rounds, faulty requests, flaps and history  *)
(* bound.                                                                  *)
(*                                                                         *)
(* What the steps of the scripts are is not computed by place: the scripts *)
(* are put together from fragments in which every step is of one of a few  *)
(* kinds, and a message is followed by the steps that wait for it.  The    *)
(* invariant relates the kind of the current step to the messages under    *)
(* way and to the events the runner has not read.                          *)
(***************************************************************************)
EXTENDS RunnerSession, SequenceTheorems, FiniteSetTheorems, WellFoundedInduction, TLAPS

-----------------------------------------------------------------------------
(* Sequences.                                                              *)

(* s is a sequence of n elements.                                          *)
IsSeq(s, n) == n \in Nat /\ \E S : s \in Seq(S) /\ Len(s) = n

(* A function over an interval from 1 is one.                              *)
LEMMA FunctionIsSeq ==
    ASSUME NEW n \in Nat, NEW f, f = [i \in 1..n |-> f[i]]
    PROVE  IsSeq(f, n)
<1> DEFINE S == {f[i] : i \in 1..n}
<1>1. f \in [1..n -> S]
  OBVIOUS
<1> HIDE DEF S
<1>2. f \in Seq(S) /\ Len(f) = n
  BY <1>1
<1> QED
  BY <1>2 DEF IsSeq

(* Its domain.                                                             *)
LEMMA SeqDomain ==
    ASSUME NEW s, NEW n, IsSeq(s, n)
    PROVE  n \in Nat /\ DOMAIN s = 1..n /\ Len(s) = n
BY LenProperties DEF IsSeq

(* Concatenation, for sequences whose elements are of no common type: r,   *)
(* of k elements, is s, of m, followed by t, of n.                         *)
Joins(r, k, s, m, t, n) == r = s \o t /\ k = m + n /\ IsSeq(s, m) /\ IsSeq(t, n)

(* Such an r is a sequence and has the elements of both.                   *)
LEMMA Concat ==
    ASSUME NEW r, NEW k, NEW s, NEW m, NEW t, NEW n, Joins(r, k, s, m, t, n)
    PROVE  /\ IsSeq(r, k)
           /\ \A i \in 1..m : r[i] = s[i]
           /\ \A i \in 1..n : r[m + i] = t[i]
<1>1. m \in Nat /\ n \in Nat
  BY DEF IsSeq, Joins
<1>2. PICK S : s \in Seq(S) /\ Len(s) = m
  BY DEF IsSeq, Joins
<1>3. PICK T : t \in Seq(T) /\ Len(t) = n
  BY DEF IsSeq, Joins
<1>4. s \in Seq(S \cup T) /\ t \in Seq(S \cup T)
  BY <1>2, <1>3
<1>5. /\ r \in Seq(S \cup T) /\ Len(r) = m + n
      /\ \A i \in 1..(m + n) : r[i] = IF i =< m THEN s[i] ELSE t[i - m]
  BY <1>2, <1>3, <1>4, ConcatProperties DEF Joins
<1>6. IsSeq(r, k)
  BY <1>1, <1>5 DEF IsSeq, Joins
<1>7. ASSUME NEW i \in 1..m PROVE r[i] = s[i]
  BY <1>1, <1>5
<1>8. ASSUME NEW i \in 1..n PROVE r[m + i] = t[i]
  <2>1. m + i \in 1..(m + n) /\ ~(m + i =< m) /\ (m + i) - m = i
    BY <1>1
  <2> QED
    BY <1>5, <2>1
<1> QED
  BY <1>6, <1>7, <1>8

(* A set of naturals that has 0 and every successor of a member has all:   *)
(* induction, for a set instead of a predicate.                            *)
LEMMA NatSetInduction ==
    ASSUME NEW S \in SUBSET Nat, 0 \in S, \A n \in S : n + 1 \in S
    PROVE  S = Nat
<1> DEFINE R == {pair \in Nat \X Nat : pair[1] < pair[2]}
<1>1. IsWellFoundedOn(R, Nat)
  BY NatLessThanWellFounded DEF OpToRel
<1> HIDE DEF R
<1>2. ASSUME Nat \ S # {} PROVE FALSE
  <2>1. PICK n \in Nat \ S : \A m \in Nat \ S : <<m, n>> \notin R
    BY <1>1, <1>2, WFMin
  <2>2. n # 0
    BY <2>1
  <2>3. n - 1 \in Nat /\ n - 1 < n
    BY <2>1, <2>2
  <2>4. <<n - 1, n>> \in R
    BY <2>1, <2>3 DEF R
  <2>5. n - 1 \in S
    BY <2>1, <2>3, <2>4
  <2>6. (n - 1) + 1 \in S
    BY <2>5
  <2> QED
    BY <2>1, <2>6
<1> QED
  BY <1>2


(* f[i] is the concatenation of the first i.                               *)
Flattens(f, ss, n) ==
    f = [i \in 1..n |-> IF i = 1 THEN ss[i] ELSE f[i - 1] \o ss[i]]

(* There is such an f.                                                     *)
LEMMA FlattensExists ==
    ASSUME NEW n \in Nat, NEW ss
    PROVE  \E f : Flattens(f, ss, n)
<1> DEFINE S == {k \in Nat : \E f : Flattens(f, ss, k)}
<1>1. 0 \in S
  <2>1. Flattens([i \in 1..0 |-> i], ss, 0)
    BY DEF Flattens
  <2> QED
    BY <2>1
<1>2. ASSUME NEW k \in S PROVE k + 1 \in S
  <2>1. PICK f : Flattens(f, ss, k)
    OBVIOUS
  <2>2. k \in Nat
    OBVIOUS
  <2> DEFINE one == IF k = 0 THEN ss[1] ELSE f[k] \o ss[k + 1]
  <2>3. one = IF k = 0 THEN ss[1] ELSE f[k] \o ss[k + 1]
    OBVIOUS
  <2> HIDE DEF one
  <2> DEFINE more == [i \in 1..(k + 1) |-> IF i = k + 1 THEN one ELSE f[i]]
  <2>4. ASSUME NEW i \in 1..(k + 1)
        PROVE  more[i] = IF i = 1 THEN ss[i] ELSE more[i - 1] \o ss[i]
    <3>1. CASE i = k + 1
      <4>1. more[i] = one
        BY <3>1
      <4>2. CASE k = 0
        BY <2>2, <2>3, <3>1, <4>1, <4>2
      <4>3. CASE k # 0
        <5>1. i # 1 /\ i - 1 = k /\ k \in 1..(k + 1) /\ k # k + 1
          BY <2>2, <3>1, <4>3
        <5>2. more[k] = f[k]
          BY <5>1
        <5> QED
          BY <2>3, <3>1, <4>1, <4>3, <5>1, <5>2
      <4> QED
        BY <4>2, <4>3
    <3>2. CASE i # k + 1
      <4>1. i \in 1..k
        BY <2>2, <3>2
      <4>2. f[i] = IF i = 1 THEN ss[i] ELSE f[i - 1] \o ss[i]
        BY <2>1, <4>1 DEF Flattens
      <4>3. i # 1 => i - 1 \in 1..(k + 1) /\ i - 1 # k + 1
        BY <2>2, <4>1
      <4> QED
        BY <3>2, <4>2, <4>3
    <3> QED
      BY <3>1, <3>2
  <2>5. more = [i \in 1..(k + 1) |-> IF i = 1 THEN ss[i] ELSE more[i - 1] \o ss[i]]
    BY <2>4
  <2> HIDE DEF more
  <2>6. Flattens(more, ss, k + 1)
    BY <2>5 DEF Flattens
  <2> QED
    BY <2>2, <2>6
<1> HIDE DEF S
<1>3. S \subseteq Nat
  BY DEF S
<1>4. S = Nat
  BY <1>1, <1>2, <1>3, NatSetInduction
<1> QED
  BY <1>4 DEF S
-----------------------------------------------------------------------------
(* The devices, and short sequences.                                       *)

(* The scenarios run on two devices.                                       *)
LEMMA DevicesAre ==
    /\ Apis = <<"a", "b">> /\ First = "a" /\ Second = "b"
    /\ Devices = {"a", "b"} /\ DOMAIN Apis = 1..2 /\ Len(Apis) = 2
    /\ Apis[1] = "a" /\ Apis[2] = "b"
<1>1. Apis = <<"a", "b">>
  BY SessionScenario DEF TwoDevices
<1>2. DOMAIN Apis = 1..2 /\ Len(Apis) = 2
  BY <1>1
<1> QED
  BY <1>1, <1>2 DEF Devices, First, Second

(* Tuples are sequences.                                                   *)
LEMMA OneStep == ASSUME NEW x PROVE IsSeq(<<x>>, 1) /\ <<x>>[1] = x
<1>1. <<x>> = [i \in 1..1 |-> <<x>>[i]]
  OBVIOUS
<1> QED
  BY <1>1, FunctionIsSeq

LEMMA TwoSteps ==
    ASSUME NEW x, NEW y
    PROVE  IsSeq(<<x, y>>, 2) /\ <<x, y>>[1] = x /\ <<x, y>>[2] = y
<1>1. <<x, y>> = [i \in 1..2 |-> <<x, y>>[i]]
  OBVIOUS
<1>2. IsSeq(<<x, y>>, 2)
  BY <1>1, FunctionIsSeq
<1> QED
  BY <1>2

LEMMA ThreeSteps ==
    ASSUME NEW x, NEW y, NEW z
    PROVE  IsSeq(<<x, y, z>>, 3) /\ <<x, y, z>>[1] = x /\ <<x, y, z>>[2] = y /\ <<x, y, z>>[3] = z
<1>1. <<x, y, z>> = [i \in 1..3 |-> <<x, y, z>>[i]]
  OBVIOUS
<1>2. IsSeq(<<x, y, z>>, 3)
  BY <1>1, FunctionIsSeq
<1> QED
  BY <1>2

LEMMA FourSteps ==
    ASSUME NEW x, NEW y, NEW z, NEW u
    PROVE  /\ IsSeq(<<x, y, z, u>>, 4) /\ <<x, y, z, u>>[1] = x /\ <<x, y, z, u>>[2] = y
           /\ <<x, y, z, u>>[3] = z /\ <<x, y, z, u>>[4] = u
<1>1. <<x, y, z, u>> = [i \in 1..4 |-> <<x, y, z, u>>[i]]
  OBVIOUS
<1>2. IsSeq(<<x, y, z, u>>, 4)
  BY <1>1, FunctionIsSeq
<1> QED
  BY <1>2

(* What OnAll makes for the two devices.                                   *)
LEMMA OnBoth ==
    ASSUME NEW s, NEW x, NEW y,
           s = [i \in DOMAIN Apis |-> IF i = 1 THEN x ELSE y]
    PROVE  IsSeq(s, 2) /\ s[1] = x /\ s[2] = y
<1>1. s = [i \in 1..2 |-> s[i]] /\ s[1] = x /\ s[2] = y
  BY DevicesAre
<1>2. IsSeq(s, 2)
  BY <1>1, FunctionIsSeq
<1> QED
  BY <1>1, <1>2

-----------------------------------------------------------------------------
(* The kinds of step the scripts consist of.                               *)

Tracked == {"directMessageReceived", "groupMessageReceived", "durable"}
Shown(m) == IF m.name = "sendReliable" THEN "directMessageReceived"
            ELSE IF m.name = "sendGroup" THEN "groupMessageReceived" ELSE "durable"

CancelLabels == {"cancel", "cancel2"}
DoneLabels == {"done", "done2"}

Plain(t) == t.at = "" /\ t.then = "next" /\ t.onFail = "end" /\ t.onCrash = "end"
Conditions(t) == IsSeq(t.what, Len(t.what)) /\ Len(t.what) >= 1 /\ ~t.toChosen
Unrelated(t) ==
    Conditions(t) /\ \A k \in 1..Len(t.what) : t.what[k].kind \notin {"find", "collect"}
Single(t) == DOMAIN t.what = {1}
Leads(s, i, labels) == \E j \in 1..Len(s) : s[j].at = i /\ s[j].at \in labels

Neutral(t) ==
    /\ Plain(t) /\ ~t.toChosen
    /\ \/ t.op \in {"check", "wait"} /\ Unrelated(t)
       \/ t.op \in {"note", "compare"}
       \/ t.op = "cmd" /\ Single(t) /\ t.what[1].name \notin Sending

(* ScenarioBlocked is raised.                                              *)
Stops(t) == Plain(t) /\ ~t.toChosen /\ t.op = "block"

(* The wait of connect() for both ends, its cancelling handler, and the    *)
(* end of that handler.                                                    *)
Guarded(s, i) ==
    /\ s[i].at = "" /\ s[i].op = "wait" /\ Unrelated(s[i]) /\ s[i].onCrash = "end" /\ ~s[i].swallow
    /\ Leads(s, s[i].onFail, CancelLabels) /\ Leads(s, s[i].then, DoneLabels)
Cancels(s, i) ==
    /\ i > 1 /\ Guarded(s, i - 1)
    /\ s[i].at \in CancelLabels /\ s[i].op = "cmd" /\ Single(s[i]) /\ ~s[i].toChosen
    /\ s[i].what[1].name \notin Sending /\ s[i].then = "next" /\ s[i].swallow
    /\ s[i].onCrash = "end" /\ Leads(s, s[i].onFail, DoneLabels)
    /\ i + 1 \in 1..Len(s) /\ s[i + 1].at \in DoneLabels
Rethrows(t) ==
    /\ t.at \in DoneLabels /\ t.op = "reraise" /\ t.then = "next" /\ ~t.toChosen
    /\ t.onFail = "end" /\ t.onCrash = "end"

Picks(s, i) ==
    /\ Plain(s[i]) /\ s[i].op = "pick" /\ Unrelated(s[i])
    /\ \A k \in 1..Len(s[i].what) : s[i].what[k].on \in Devices
    /\ i + 1 \in 1..Len(s) /\ s[i + 1].op = "cmd"

(* One message, two messages from a thread pool, a publication; each is    *)
(* followed by the steps that wait for it.                                 *)
SendsOne(s, i) ==
    /\ i + 1 \in 1..Len(s)
    /\ \E name \in {"sendReliable", "sendGroup"}, d \in Devices, e \in Devices :
         /\ s[i] = Cmd(To(name, d, e))
         /\ s[i + 1] = WaitForEvent(e, Shown(To(name, d, e)))
SendsTwo(s, i) ==
    /\ i + 2 \in 1..Len(s)
    /\ s[i] = Step("pair", <<To("sendGroup", First, Second), To("sendGroup", Second, First)>>)
    /\ s[i + 1] = WaitForEvent(Second, "groupMessageReceived")
    /\ s[i + 2] = WaitForEvent(First, "groupMessageReceived")
Publishes(s, i) ==
    /\ i > 1 /\ s[i - 1].op = "pick" /\ i + 2 \in 1..Len(s)
    /\ s[i] = AtChosen(Cmd(To("publishCheckpoint", First, First)))
    /\ s[i + 1] = AtChosen(WaitForEvent(First, "checkpointAccepted"))
    /\ s[i + 2] = AtChosen(WaitForEvent(First, "durable"))
FindsFirst(s, i) == i > 1 /\ (SendsOne(s, i - 1) \/ SendsTwo(s, i - 1) \/ Publishes(s, i - 1))
FindsSecond(s, i) == i > 2 /\ (SendsTwo(s, i - 2) \/ Publishes(s, i - 2))

(* In IT-008, IT-009 and IT-017 the runner counts instead.                 *)
Counted == {"IT008", "IT009", "IT017"}
SendsCounted(t) == t = Cmd(To("sendReliable", First, Second))
Tallies(t) ==
    /\ Plain(t) /\ t.op \in {"check", "wait"} /\ Conditions(t)
    /\ \A k \in 1..Len(t.what) :
         \/ t.what[k] = Collect(Second)
         \/ t.what[k].kind \in {"steady", "enough", "exact"}

Allowed(s, i, counting) ==
    \/ Neutral(s[i]) \/ Guarded(s, i) \/ Cancels(s, i) \/ Rethrows(s[i])
    \/ counting /\ (SendsCounted(s[i]) \/ Tallies(s[i]))
    \/ ~counting /\ (Stops(s[i]) \/ Picks(s, i) \/ SendsOne(s, i) \/ SendsTwo(s, i) \/ Publishes(s, i)
                     \/ FindsFirst(s, i) \/ FindsSecond(s, i))
Fragment(s, counting) == IsSeq(s, Len(s)) /\ \A i \in 1..Len(s) : Allowed(s, i, counting)

LastCondition(t) == t.what[Len(t.what)]
EndsCounting(s) ==
    Len(s) >= 1 /\ Tallies(s[Len(s)]) /\ LastCondition(s[Len(s)]).kind \in {"enough", "exact"}

WellFormed(s, counting) ==
    /\ Fragment(s, counting) /\ Len(s) > 2 /\ s[1] = Preflight[1] /\ s[2] = Preflight[2]
    /\ counting => EndsCounting(s)

-----------------------------------------------------------------------------
(* Fragments and their concatenations.                                     *)

(* r has s from place k + 1 on.                                            *)
Embeds(s, r, k) ==
    /\ k \in Nat /\ Len(s) \in Nat /\ Len(r) \in Nat /\ k + Len(s) =< Len(r)
    /\ \A i \in 1..Len(s) : r[k + i] = s[i]

LEMMA LeadsEmbeds ==
    ASSUME NEW s, NEW r, NEW k, Embeds(s, r, k), NEW x, NEW labels, Leads(s, x, labels)
    PROVE  Leads(r, x, labels)
<1>1. PICK j \in 1..Len(s) : s[j].at = x /\ s[j].at \in labels
  BY DEF Leads
<1>2. k + j \in 1..Len(r) /\ r[k + j] = s[j]
  BY DEF Embeds
<1> QED
  BY <1>1, <1>2 DEF Leads

(* What is allowed at a place of s is allowed at that place of r.          *)
LEMMA AllowedEmbeds ==
    ASSUME NEW s, NEW r, NEW k, Embeds(s, r, k),
           NEW i \in 1..Len(s), NEW counting \in BOOLEAN, Allowed(s, i, counting)
    PROVE  Allowed(r, k + i, counting)
<1>0. k \in Nat /\ i \in Nat /\ i >= 1 /\ k + i \in 1..Len(r)
  BY DEF Embeds
<1>1. r[k + i] = s[i]
  BY DEF Embeds
<1>2. ASSUME NEW j \in 1..Len(s), Guarded(s, j) PROVE Guarded(r, k + j)
  <2>1. r[k + j] = s[j]
    BY DEF Embeds
  <2>2. Leads(s, s[j].onFail, CancelLabels) /\ Leads(s, s[j].then, DoneLabels)
    BY <1>2 DEF Guarded
  <2>3. Leads(r, s[j].onFail, CancelLabels) /\ Leads(r, s[j].then, DoneLabels)
    BY <2>2, LeadsEmbeds
  <2> QED
    BY <1>2, <2>1, <2>3 DEF Guarded
<1>3. ASSUME NEW j \in 1..Len(s), j + 1 \in 1..Len(s)
      PROVE  k + j + 1 \in 1..Len(r) /\ r[k + j + 1] = s[j + 1]
  <2>1. r[k + (j + 1)] = s[j + 1] /\ k + (j + 1) = k + j + 1
    BY <1>0, <1>3 DEF Embeds
  <2> QED
    BY <1>0, <1>3, <2>1 DEF Embeds
<1>4. ASSUME NEW j \in 1..Len(s), j + 2 \in 1..Len(s)
      PROVE  k + j + 2 \in 1..Len(r) /\ r[k + j + 2] = s[j + 2]
  <2>1. r[k + (j + 2)] = s[j + 2] /\ k + (j + 2) = k + j + 2
    BY <1>0, <1>4 DEF Embeds
  <2> QED
    BY <1>0, <1>4, <2>1 DEF Embeds
<1>5. ASSUME NEW j \in 1..Len(s), j > 1
      PROVE  k + j > 1 /\ j - 1 \in 1..Len(s) /\ k + (j - 1) = k + j - 1 /\ r[k + j - 1] = s[j - 1]
  <2>1. j - 1 \in 1..Len(s) /\ k + (j - 1) = k + j - 1
    BY <1>0, <1>5
  <2>2. r[k + (j - 1)] = s[j - 1]
    BY <2>1 DEF Embeds
  <2> QED
    BY <1>0, <1>5, <2>1, <2>2
<1>6. ASSUME NEW j \in 1..Len(s) PROVE r[k + j] = s[j] /\ k + j \in 1..Len(r)
  BY <1>0 DEF Embeds
<1>7. ASSUME NEW j \in 1..Len(s), SendsOne(s, j) PROVE SendsOne(r, k + j)
  BY <1>3, <1>6, <1>7 DEF SendsOne
<1>8. ASSUME NEW j \in 1..Len(s), SendsTwo(s, j) PROVE SendsTwo(r, k + j)
  <2>1. j + 1 \in 1..Len(s) /\ j + 2 \in 1..Len(s)
    BY <1>8 DEF SendsTwo
  <2> QED
    BY <1>3, <1>4, <1>6, <1>8, <2>1 DEF SendsTwo
<1>9. ASSUME NEW j \in 1..Len(s), Publishes(s, j) PROVE Publishes(r, k + j)
  <2>1. j + 1 \in 1..Len(s) /\ j + 2 \in 1..Len(s) /\ j > 1
    BY <1>9 DEF Publishes
  <2>2. r[k + j] = s[j] /\ r[k + j + 1] = s[j + 1] /\ r[k + j + 2] = s[j + 2]
        /\ k + j + 2 \in 1..Len(r)
    BY <1>3, <1>4, <1>6, <2>1
  <2>3. k + j > 1 /\ r[k + j - 1] = s[j - 1]
    BY <1>5, <2>1
  <2>4. PICK p \in Nat : p = k + j
    BY <1>0
  <2>5. p > 1 /\ r[p - 1] = s[j - 1] /\ p + 2 \in 1..Len(r)
    BY <1>0, <2>2, <2>3, <2>4
  <2>6. r[p] = s[j] /\ r[p + 1] = s[j + 1] /\ r[p + 2] = s[j + 2]
    BY <2>2, <2>4
  <2>7. Publishes(r, p)
    BY <1>9, <2>5, <2>6 DEF Publishes
  <2> QED
    BY <2>4, <2>7
<1>10. CASE Neutral(s[i])
  BY <1>1, <1>10 DEF Allowed
<1>11. CASE Guarded(s, i)
  BY <1>2, <1>11 DEF Allowed
<1>12. CASE Cancels(s, i)
  <2>1. i > 1 /\ i - 1 \in 1..Len(s) /\ Guarded(s, i - 1)
    BY <1>5, <1>12 DEF Cancels
  <2>2. Guarded(r, k + i - 1) /\ k + i > 1
    BY <1>2, <1>5, <2>1
  <2>3. k + i + 1 \in 1..Len(r) /\ r[k + i + 1] = s[i + 1]
    BY <1>3, <1>12 DEF Cancels
  <2>4. Leads(r, s[i].onFail, DoneLabels)
    BY <1>12, LeadsEmbeds DEF Cancels
  <2>5. PICK p \in Nat : p = k + i
    BY <1>0
  <2>6. p > 1 /\ Guarded(r, p - 1) /\ r[p] = s[i] /\ p + 1 \in 1..Len(r) /\ r[p + 1] = s[i + 1]
    BY <1>0, <1>1, <2>2, <2>3, <2>5
  <2>7. Cancels(r, p)
    BY <1>12, <2>4, <2>6 DEF Cancels
  <2> QED
    BY <2>5, <2>7 DEF Allowed
<1>13. CASE Rethrows(s[i])
  BY <1>1, <1>13 DEF Allowed
<1>14. CASE counting /\ (SendsCounted(s[i]) \/ Tallies(s[i]))
  BY <1>1, <1>14 DEF Allowed
<1>15. CASE ~counting /\ Picks(s, i)
  <2>1. Picks(r, k + i)
    BY <1>1, <1>3, <1>15 DEF Picks
  <2> QED
    BY <1>15, <2>1 DEF Allowed
<1>16. CASE ~counting /\ (SendsOne(s, i) \/ SendsTwo(s, i) \/ Publishes(s, i))
  BY <1>7, <1>8, <1>9, <1>16 DEF Allowed
<1>17. CASE ~counting /\ FindsFirst(s, i)
  <2>1. i > 1 /\ i - 1 \in 1..Len(s)
    BY <1>0, <1>17 DEF FindsFirst
  <2>2. k + (i - 1) = k + i - 1 /\ k + i > 1
    BY <1>0, <2>1
  <2> DEFINE j == i - 1
  <2>3. SendsOne(s, j) \/ SendsTwo(s, j) \/ Publishes(s, j)
    BY <1>17 DEF FindsFirst
  <2>4. j \in 1..Len(s) /\ k + j = k + i - 1
    BY <2>1, <2>2
  <2> HIDE DEF j
  <2>5. SendsOne(r, k + j) \/ SendsTwo(r, k + j) \/ Publishes(r, k + j)
    BY <1>7, <1>8, <1>9, <2>3, <2>4
  <2>6. PICK p \in Nat : p = k + i
    BY <1>0
  <2>7. PICK q \in Nat : q = k + j
    BY <1>0, <2>1, <2>4
  <2>8. p > 1 /\ p - 1 = q
    BY <1>0, <2>1, <2>2, <2>4, <2>6, <2>7
  <2>9. SendsOne(r, q) \/ SendsTwo(r, q) \/ Publishes(r, q)
    BY <2>5, <2>7
  <2>10. FindsFirst(r, p)
    BY <2>8, <2>9 DEF FindsFirst
  <2> QED
    BY <1>17, <2>6, <2>10 DEF Allowed
<1>18. CASE ~counting /\ FindsSecond(s, i)
  <2>1. i > 2 /\ i - 2 \in 1..Len(s)
    BY <1>0, <1>18 DEF FindsSecond
  <2>2. k + (i - 2) = k + i - 2 /\ k + i > 2
    BY <1>0, <2>1
  <2> DEFINE j == i - 2
  <2>3. SendsTwo(s, j) \/ Publishes(s, j)
    BY <1>18 DEF FindsSecond
  <2>4. j \in 1..Len(s) /\ k + j = k + i - 2
    BY <2>1, <2>2
  <2> HIDE DEF j
  <2>5. SendsTwo(r, k + j) \/ Publishes(r, k + j)
    BY <1>8, <1>9, <2>3, <2>4
  <2>6. PICK p \in Nat : p = k + i
    BY <1>0
  <2>7. PICK q \in Nat : q = k + j
    BY <1>0, <2>1, <2>4
  <2>8. p > 2 /\ p - 2 = q
    BY <1>0, <2>1, <2>2, <2>4, <2>6, <2>7
  <2>9. SendsTwo(r, q) \/ Publishes(r, q)
    BY <2>5, <2>7
  <2>10. FindsSecond(r, p)
    BY <2>8, <2>9 DEF FindsSecond
  <2> QED
    BY <1>18, <2>6, <2>10 DEF Allowed
<1>19. CASE ~counting /\ Stops(s[i])
  BY <1>1, <1>19 DEF Allowed
<1> QED
  BY <1>10, <1>11, <1>12, <1>13, <1>14, <1>15, <1>16, <1>17, <1>18, <1>19 DEF Allowed

(* Two fragments in a row are a fragment, which ends as the second does.   *)
LEMMA FragmentsJoin ==
    ASSUME NEW counting \in BOOLEAN, NEW s, Fragment(s, counting), NEW t, Fragment(t, counting)
    PROVE  /\ Fragment(s \o t, counting) /\ Len(s \o t) = Len(s) + Len(t)
           /\ \A i \in 1..Len(s) : (s \o t)[i] = s[i]
           /\ Len(t) >= 1 => (s \o t)[Len(s \o t)] = t[Len(t)]
<1>1. IsSeq(s, Len(s)) /\ IsSeq(t, Len(t))
  BY DEF Fragment
<1>2. Len(s) \in Nat /\ Len(t) \in Nat
  BY <1>1, SeqDomain
<1> DEFINE r == s \o t
<1>3. Joins(r, Len(s) + Len(t), s, Len(s), t, Len(t))
  BY <1>1 DEF Joins
<1> HIDE DEF r
<1>4. /\ IsSeq(r, Len(s) + Len(t))
      /\ \A i \in 1..Len(s) : r[i] = s[i]
      /\ \A i \in 1..Len(t) : r[Len(s) + i] = t[i]
  BY <1>3, Concat
<1>5. Len(r) = Len(s) + Len(t)
  BY <1>4, SeqDomain
<1>6. Embeds(s, r, 0) /\ Embeds(t, r, Len(s))
  BY <1>2, <1>4, <1>5 DEF Embeds
<1>7. ASSUME NEW i \in 1..Len(r) PROVE Allowed(r, i, counting)
  <2>1. CASE i =< Len(s)
    <3>1. i \in 1..Len(s) /\ 0 + i = i
      BY <1>2, <1>5, <2>1
    <3>2. Allowed(s, i, counting)
      BY <3>1 DEF Fragment
    <3>3. Allowed(r, 0 + i, counting)
      BY <1>6, <3>1, <3>2, AllowedEmbeds
    <3> QED
      BY <3>1, <3>3
  <2>2. CASE i > Len(s)
    <3>1. i - Len(s) \in 1..Len(t) /\ Len(s) + (i - Len(s)) = i
      BY <1>2, <1>5, <2>2
    <3>2. Allowed(t, i - Len(s), counting)
      BY <3>1 DEF Fragment
    <3>3. Allowed(r, Len(s) + (i - Len(s)), counting)
      BY <1>6, <3>1, <3>2, AllowedEmbeds
    <3> QED
      BY <3>1, <3>3
  <2> QED
    BY <1>2, <2>1, <2>2
<1>8. Fragment(r, counting)
  BY <1>4, <1>5, <1>7 DEF Fragment
<1>9. Len(t) >= 1 => r[Len(r)] = t[Len(t)]
  BY <1>2, <1>4, <1>5
<1> QED
  BY <1>4, <1>5, <1>8, <1>9 DEF r

(* So are any number of them.                                              *)
LEMMA FragmentsFlatten ==
    ASSUME NEW counting \in BOOLEAN, NEW ss, NEW n, IsSeq(ss, n), n >= 1,
           \A i \in 1..n : Fragment(ss[i], counting) /\ Len(ss[i]) >= 1
    PROVE  /\ Fragment(FlattenSeq(ss), counting) /\ Len(FlattenSeq(ss)) >= 1
           /\ FlattenSeq(ss)[Len(FlattenSeq(ss))] = ss[n][Len(ss[n])]
<1>1. n \in Nat /\ Len(ss) = n
  BY SeqDomain
<1> DEFINE flat == CHOOSE f : Flattens(f, ss, n)
<1>2. FlattenSeq(ss) = flat[n]
  BY <1>1 DEF FlattenSeq, Flattens
<1>3. Flattens(flat, ss, n)
  BY <1>1, FlattensExists
<1> HIDE DEF flat
<1> DEFINE Good(k) ==
               /\ Fragment(flat[k], counting) /\ Len(flat[k]) >= 1
               /\ flat[k][Len(flat[k])] = ss[k][Len(ss[k])]
           S == {k \in Nat : k < n => Good(k + 1)}
<1> HIDE DEF Good
<1>4. 0 \in S
  <2>1. flat[1] = ss[1]
    BY <1>1, <1>3 DEF Flattens
  <2>2. Good(1)
    BY <1>1, <2>1 DEF Good
  <2> QED
    BY <2>2
<1>5. ASSUME NEW k \in S PROVE k + 1 \in S
  <2>0. k \in Nat
    OBVIOUS
  <2>1. SUFFICES ASSUME k + 1 < n PROVE Good((k + 1) + 1)
    BY <2>0
  <2> DEFINE p == k + 1
             q == p + 1
  <2>2. p \in 1..n /\ q \in 1..n /\ q = p + 1 /\ q - 1 = p /\ q # 1 /\ p \in Nat
    BY <1>1, <2>0, <2>1
  <2>3. Good(p)
    BY <1>1, <2>0, <2>1
  <2> HIDE DEF p
  <2> HIDE DEF q
  <2>4. flat[q] = flat[p] \o ss[q]
    BY <1>3, <2>2 DEF Flattens
  <2>5. Fragment(flat[p], counting) /\ Fragment(ss[q], counting) /\ Len(flat[p]) >= 1 /\ Len(ss[q]) >= 1
    BY <2>2, <2>3 DEF Good
  <2> DEFINE u == flat[p]
             v == ss[q]
  <2>6. flat[q] = u \o v /\ Fragment(u, counting) /\ Fragment(v, counting) /\ Len(v) >= 1
    BY <2>4, <2>5
  <2> HIDE DEF u
  <2> HIDE DEF v
  <2>7. /\ Fragment(u \o v, counting) /\ Len(u \o v) = Len(u) + Len(v)
        /\ (u \o v)[Len(u \o v)] = v[Len(v)]
    BY <2>6, FragmentsJoin
  <2>8. /\ Fragment(flat[q], counting) /\ Len(flat[q]) = Len(flat[p]) + Len(ss[q])
        /\ flat[q][Len(flat[q])] = ss[q][Len(ss[q])]
    BY <2>6, <2>7 DEF u, v
  <2>9. IsSeq(flat[p], Len(flat[p])) /\ IsSeq(ss[q], Len(ss[q]))
    BY <2>5 DEF Fragment
  <2>10. Len(flat[p]) \in Nat /\ Len(ss[q]) \in Nat
    BY <2>9, SeqDomain
  <2>11. Len(flat[p]) >= 1 /\ Len(ss[q]) >= 1
    BY <2>5
  <2>12. \A x, y \in Nat : x >= 1 => x + y >= 1
    OBVIOUS
  <2>13. Len(flat[p]) + Len(ss[q]) >= 1
    BY <2>10, <2>11, <2>12
  <2>14. Len(flat[q]) >= 1
    BY <2>8, <2>13
  <2>15. Good(q)
    BY <2>8, <2>14 DEF Good
  <2> QED
    BY <2>15 DEF p, q
<1> HIDE DEF S
<1>6. S \subseteq Nat
  BY DEF S
<1>7. S = Nat
  BY <1>4, <1>5, <1>6, NatSetInduction
<1>8. n - 1 \in S /\ n - 1 < n /\ (n - 1) + 1 = n
  BY <1>1, <1>7
<1>9. Good(n)
  BY <1>8 DEF S
<1> QED
  BY <1>2, <1>9 DEF Good

-----------------------------------------------------------------------------
(* The fragments the scripts are put together from.                        *)

Piece(s, counting) == Fragment(s, counting) /\ Len(s) >= 1

LEMMA PiecesJoin ==
    ASSUME NEW counting \in BOOLEAN, NEW s, Piece(s, counting), NEW t, Piece(t, counting)
    PROVE  Piece(s \o t, counting) /\ (s \o t)[Len(s \o t)] = t[Len(t)]
<1>1. Fragment(s \o t, counting) /\ Len(s \o t) = Len(s) + Len(t)
      /\ (s \o t)[Len(s \o t)] = t[Len(t)]
  BY FragmentsJoin DEF Piece
<1>2. IsSeq(s, Len(s)) /\ IsSeq(t, Len(t))
  BY DEF Piece, Fragment
<1>3. Len(s) \in Nat /\ Len(t) \in Nat /\ Len(s) >= 1
  BY <1>2, SeqDomain DEF Piece
<1>4. \A x, y \in Nat : x >= 1 => x + y >= 1
  OBVIOUS
<1> QED
  BY <1>1, <1>3, <1>4 DEF Piece

LEMMA Numbers == 1 >= 1 /\ 2 >= 1 /\ 3 >= 1 /\ 4 >= 1 /\ 5 >= 1 /\ 8 >= 1 /\ FALSE \in BOOLEAN
OBVIOUS

LEMMA PieceFrom ==
    ASSUME NEW counting \in BOOLEAN, NEW s, NEW n, IsSeq(s, n), n >= 1,
           \A i \in 1..n : Allowed(s, i, counting)
    PROVE  Piece(s, counting)
<1>1. Len(s) = n
  BY SeqDomain
<1> QED
  BY <1>1 DEF Piece, Fragment

LEMMA UnrelatedFrom ==
    ASSUME NEW t, NEW w, NEW n, t.what = w, ~t.toChosen, IsSeq(w, n), n >= 1,
           \A k \in 1..n : w[k].kind \notin {"find", "collect"}
    PROVE  Unrelated(t) /\ Len(w) = n
<1>1. Len(w) = n
  BY SeqDomain
<1> QED
  BY <1>1 DEF Unrelated, Conditions

Simple(t, verb, w) == t.op = verb /\ t.what = w /\ Plain(t) /\ ~t.toChosen /\ ~t.swallow

LEMMA StepIs == ASSUME NEW verb, NEW w, NEW t, t = Step(verb, w) PROVE Simple(t, verb, w)
BY DEF Step, Plain, Simple

(* Polls and assertions about snapshots and commands that send nothing.    *)
LEMMA PollIsNeutral ==
    ASSUME NEW op \in {"check", "wait"}, NEW what, NEW n, IsSeq(what, n), n >= 1,
           \A k \in 1..n : what[k].kind \notin {"find", "collect"}
    PROVE  Neutral(Step(op, what))
<1>1. Len(what) = n
  BY SeqDomain
<1> DEFINE t == Step(op, what)
<1>2. /\ t.op = op /\ t.what = what /\ t.at = "" /\ t.then = "next" /\ t.onFail = "end"
      /\ t.onCrash = "end" /\ t.toChosen = FALSE
  BY DEF Step
<1> HIDE DEF t
<1>3. Plain(t) /\ Conditions(t)
  BY <1>1, <1>2 DEF Plain, Conditions
<1>4. Unrelated(t)
  BY <1>1, <1>2, <1>3 DEF Unrelated
<1> QED
  BY <1>2, <1>3, <1>4 DEF Neutral, t

LEMMA ShowsIsNeutral ==
    ASSUME NEW op \in {"check", "wait"}, NEW kind, kind \notin {"find", "collect"}, NEW d
    PROVE  Neutral(Step(op, <<Shows(kind, d)>>))
<1>1. IsSeq(<<Shows(kind, d)>>, 1) /\ <<Shows(kind, d)>>[1] = Shows(kind, d)
  BY OneStep
<1>2. Shows(kind, d).kind = kind
  BY DEF Shows
<1> QED
  BY <1>1, <1>2, PollIsNeutral

LEMMA PairIsNeutral ==
    ASSUME NEW op \in {"check", "wait"}, NEW what, NEW x, NEW y,
           what = [i \in DOMAIN Apis |-> IF i = 1 THEN x ELSE y],
           x.kind \notin {"find", "collect"}, y.kind \notin {"find", "collect"}
    PROVE  Neutral(Step(op, what))
<1>1. IsSeq(what, 2) /\ what[1] = x /\ what[2] = y
  BY OnBoth
<1> QED
  BY <1>1, PollIsNeutral

LEMMA CmdIsNeutral ==
    ASSUME NEW name, name \notin Sending, NEW d, NEW e
    PROVE  Neutral(Cmd(Command(name, d, e)))
<1> DEFINE c == Command(name, d, e)
           t == Cmd(c)
<1>1. c.name = name
  BY DEF Command
<1>2. /\ t.op = "cmd" /\ t.what = <<c>> /\ t.at = "" /\ t.then = "next" /\ t.onFail = "end"
      /\ t.onCrash = "end" /\ t.toChosen = FALSE
  BY DEF Cmd, Step
<1> HIDE DEF c, t
<1>3. DOMAIN <<c>> = {1} /\ <<c>>[1] = c
  OBVIOUS
<1> QED
  BY <1>1, <1>2, <1>3 DEF Neutral, Plain, Single, t, c

LEMMA OtherIsNeutral ==
    ASSUME NEW op \in {"note", "compare"}, NEW what
    PROVE  Neutral(Step(op, what))
BY DEF Neutral, Plain, Step

LEMMA NeutralFragment ==
    ASSUME NEW counting \in BOOLEAN, NEW s, NEW n, IsSeq(s, n), \A i \in 1..n : Neutral(s[i])
    PROVE  Fragment(s, counting) /\ Len(s) = n
<1>1. Len(s) = n
  BY SeqDomain
<1> QED
  BY <1>1 DEF Fragment, Allowed

LEMMA NeutralOne ==
    ASSUME NEW counting \in BOOLEAN, NEW x, Neutral(x)
    PROVE  Piece(<<x>>, counting)
BY OneStep, NeutralFragment DEF Piece

LEMMA NeutralTwo ==
    ASSUME NEW counting \in BOOLEAN, NEW x, Neutral(x), NEW y, Neutral(y)
    PROVE  Piece(<<x, y>>, counting) /\ Len(<<x, y>>) = 2
<1> DEFINE s == <<x, y>>
<1>1. IsSeq(s, 2) /\ s[1] = x /\ s[2] = y
  BY TwoSteps
<1> HIDE DEF s
<1>2. \A i \in 1..2 : Neutral(s[i])
  BY <1>1
<1>3. Fragment(s, counting) /\ Len(s) = 2
  BY <1>1, <1>2, NeutralFragment
<1> QED
  BY <1>3 DEF s, Piece

LEMMA NeutralPair ==
    ASSUME NEW counting \in BOOLEAN, NEW s, NEW x, Neutral(x), NEW y, Neutral(y),
           s = [i \in DOMAIN Apis |-> IF i = 1 THEN x ELSE y]
    PROVE  Piece(s, counting)
<1>1. IsSeq(s, 2) /\ s[1] = x /\ s[2] = y
  BY OnBoth
<1>2. \A i \in 1..2 : Neutral(s[i])
  BY <1>1
<1> QED
  BY <1>1, <1>2, NeutralFragment DEF Piece

(* What a Runner does first, and the reset.                                *)
LEMMA PreflightPiece ==
    ASSUME NEW counting \in BOOLEAN
    PROVE  Piece(Preflight, counting) /\ Len(Preflight) = 2
<1>1. OnAll(Health) = [i \in DOMAIN Apis |-> IF i = 1 THEN Health("a") ELSE Health("b")]
  BY DevicesAre DEF OnAll
<1>2. OnAll(Presence) = [i \in DOMAIN Apis |-> IF i = 1 THEN Presence("a") ELSE Presence("b")]
  BY DevicesAre DEF OnAll
<1>3. \A d \in {"a", "b"} : Health(d).kind = "health" /\ Presence(d).kind = "presence"
  BY DEF Health, Presence, Shows, Events
<1>4. Neutral(Step("check", OnAll(Health))) /\ Neutral(Step("wait", OnAll(Presence)))
  BY <1>1, <1>2, <1>3, PairIsNeutral
<1> QED
  BY <1>4, NeutralTwo DEF Preflight

LEMMA ResetPiece == ASSUME NEW counting \in BOOLEAN PROVE Piece(ResetAll, counting)
<1>1. OnAll(ResetRuntime)
          = [i \in DOMAIN Apis |-> IF i = 1 THEN ResetRuntime("a") ELSE ResetRuntime("b")]
  BY DevicesAre DEF OnAll
<1>2. \A d \in {"a", "b"} : Neutral(ResetRuntime(d))
  BY CmdIsNeutral DEF ResetRuntime, Sending
<1>3. Piece(OnAll(ResetRuntime), counting)
  BY <1>1, <1>2, NeutralPair
<1> QED
  BY <1>3, PreflightPiece, PiecesJoin DEF ResetAll

LEMMA ProvisionPiece == ASSUME NEW counting \in BOOLEAN PROVE Piece(ProvisionKnownPeers, counting)
<1> DEFINE ps == SetToSeq(Pairs)
           cmds == [i \in DOMAIN ps |-> Cmd(Command("provisionKnownPeer", ps[i][1], ps[i][2]))]
           shown == [i \in DOMAIN ps |-> Shows("known", ps[i])]
<1>1. DOMAIN ps = 1..2
  <2> DEFINE x == <<"a", "b">>
             y == <<"b", "a">>
  <2>1. Pairs = {x, y}
    <3>1. ASSUME NEW p \in Pairs PROVE p \in {x, y}
      BY DevicesAre DEF Pairs
    <3>2. x \in Devices \X Devices /\ y \in Devices \X Devices
      BY DevicesAre
    <3>3. x[1] # x[2] /\ y[1] # y[2]
      OBVIOUS
    <3> QED
      BY <3>1, <3>2, <3>3 DEF Pairs
  <2>2. x # y
    OBVIOUS
  <2> HIDE DEF x, y
  <2>3. IsFiniteSet({x}) /\ Cardinality({x}) = 1
    BY FS_Singleton
  <2>4. Cardinality({x} \cup {y}) = 2
    BY <2>2, <2>3, FS_AddElement
  <2>5. {x} \cup {y} = {x, y}
    OBVIOUS
  <2>6. Cardinality(Pairs) = 2
    BY <2>1, <2>4, <2>5
  <2>7. <<x, y>> \in [1..2 -> Pairs] /\ IsInjective(<<x, y>>)
    BY <2>1, <2>2 DEF IsInjective
  <2> QED
    BY <2>6, <2>7 DEF SetToSeq
<1>2. IsSeq(cmds, 2) /\ IsSeq(shown, 2)
  <2>1. cmds = [i \in 1..2 |-> cmds[i]] /\ shown = [i \in 1..2 |-> shown[i]]
    BY <1>1
  <2> QED
    BY <2>1, FunctionIsSeq
<1>3. \A i \in 1..2 : cmds[i] = Cmd(Command("provisionKnownPeer", ps[i][1], ps[i][2]))
  BY <1>1
<1>4. \A i \in 1..2 : shown[i] = Shows("known", ps[i])
  BY <1>1
<1>5. ProvisionKnownPeers = <<Step("check", OnAll(Health))>> \o cmds \o <<Step("wait", shown)>>
  BY DEF ProvisionKnownPeers
<1> HIDE DEF ps, cmds, shown
<1>6. \A i \in 1..2 : Neutral(cmds[i])
  BY <1>3, CmdIsNeutral DEF Sending
<1>7. Piece(cmds, counting)
  BY <1>2, <1>6, NeutralFragment DEF Piece
<1>8. \A i \in 1..2 : shown[i].kind = "known"
  BY <1>4 DEF Shows
<1>9. Neutral(Step("wait", shown))
  BY <1>2, <1>8, PollIsNeutral
<1>10. Neutral(Step("check", OnAll(Health)))
  <2>1. OnAll(Health) = [i \in DOMAIN Apis |-> IF i = 1 THEN Health("a") ELSE Health("b")]
    BY DevicesAre DEF OnAll
  <2>2. \A d \in {"a", "b"} : Health(d).kind = "health"
    BY DEF Health, Shows
  <2> QED
    BY <2>1, <2>2, PairIsNeutral
<1>11. Piece(<<Step("check", OnAll(Health))>>, counting) /\ Piece(<<Step("wait", shown)>>, counting)
  BY <1>9, <1>10, NeutralOne
<1>12. Piece(<<Step("check", OnAll(Health))>> \o cmds, counting)
  BY <1>7, <1>11, PiecesJoin
<1> QED
  BY <1>5, <1>11, <1>12, PiecesJoin

-----------------------------------------------------------------------------
(* The steps of connect().                                                 *)

AwaitEndpoint(s, t) == Step("wait", <<Shows("endpoint", <<s, t>>)>>)
ConnectTo(s, t) == Cmd(Command("connect", s, t))
BothReady(s, t) ==
    <<Events("quiet", s, {"connectFailed"}), Events("quiet", t, {"connectFailed"}),
      Ready(<<s, t>>), Ready(Mirror(<<s, t>>))>>
AwaitBoth(s, t, cancel, done) ==
    [Then(done, Step("wait", BothReady(s, t))) EXCEPT !.onFail = cancel]
CancelTo(s, t, cancel, done) == At(cancel, Catch(done, Cmd(Command("cancelConnect", s, t))))
Ended(done) == At(done, Step("reraise", <<>>))

Connects(c, s, t, cancel, done) == c = Connect(s, t, cancel, done)

LEMMA ConnectIs ==
    ASSUME NEW c, NEW s, NEW t, NEW cancel, NEW done, Connects(c, s, t, cancel, done)
    PROVE  /\ IsSeq(c, 5)
           /\ c[1] = AwaitEndpoint(s, t) /\ c[2] = ConnectTo(s, t)
           /\ c[3] = AwaitBoth(s, t, cancel, done) /\ c[4] = CancelTo(s, t, cancel, done)
           /\ c[5] = Ended(done)
<1> DEFINE ahead == <<AwaitEndpoint(s, t), ConnectTo(s, t)>>
           inside == <<Then(done, Step("wait", BothReady(s, t)))>>
           guarded == Except(cancel, inside)
           after == <<CancelTo(s, t, cancel, done), Ended(done)>>
           three == ahead \o guarded
<1>1. c = three \o after
  BY DEF Connects, Connect, AwaitEndpoint, ConnectTo, BothReady, CancelTo, Ended
<1>2. IsSeq(ahead, 2) /\ ahead[1] = AwaitEndpoint(s, t) /\ ahead[2] = ConnectTo(s, t)
  BY TwoSteps
<1>3. IsSeq(after, 2) /\ after[1] = CancelTo(s, t, cancel, done) /\ after[2] = Ended(done)
  BY TwoSteps
<1>4. IsSeq(guarded, 1) /\ guarded[1] = AwaitBoth(s, t, cancel, done)
  <2>1. DOMAIN inside = 1..1 /\ inside[1] = Then(done, Step("wait", BothReady(s, t)))
    OBVIOUS
  <2> HIDE DEF inside
  <2>2. guarded = [i \in 1..1 |-> guarded[i]]
    BY <2>1 DEF Except
  <2>3. guarded[1] = AwaitBoth(s, t, cancel, done)
    BY <2>1 DEF Except, AwaitBoth
  <2> HIDE DEF guarded
  <2> QED
    BY <2>2, <2>3, FunctionIsSeq
<1>5. three = ahead \o guarded
  OBVIOUS
<1> HIDE DEF ahead, guarded, after, three
<1>6. Joins(three, 3, ahead, 2, guarded, 1)
  BY <1>2, <1>4, <1>5 DEF Joins
<1>7. IsSeq(three, 3) /\ (\A i \in 1..2 : three[i] = ahead[i])
      /\ \A i \in 1..1 : three[2 + i] = guarded[i]
  BY <1>6, Concat
<1>8. Joins(c, 5, three, 3, after, 2)
  BY <1>1, <1>3, <1>7 DEF Joins
<1>9. IsSeq(c, 5) /\ (\A i \in 1..3 : c[i] = three[i]) /\ \A i \in 1..2 : c[3 + i] = after[i]
  BY <1>8, Concat
<1>10. c[1] = three[1] /\ c[2] = three[2] /\ c[3] = three[3]
  BY <1>9
<1>11. three[1] = ahead[1] /\ three[2] = ahead[2] /\ three[2 + 1] = guarded[1]
  BY <1>7
<1>12. c[3 + 1] = after[1] /\ c[3 + 2] = after[2]
  BY <1>9
<1>13. 2 + 1 = 3 /\ 3 + 1 = 4 /\ 3 + 2 = 5
  OBVIOUS
<1> QED
  BY <1>2, <1>3, <1>4, <1>9, <1>10, <1>11, <1>12, <1>13

LEMMA ConnectPiece ==
    ASSUME NEW counting \in BOOLEAN, NEW s, NEW t,
           NEW cancel \in CancelLabels, NEW done \in DoneLabels
    PROVE  Piece(Connect(s, t, cancel, done), counting)
<1> DEFINE c == Connect(s, t, cancel, done)
<1>0. Connects(c, s, t, cancel, done)
  BY DEF Connects
<1> HIDE DEF c
<1>1. /\ IsSeq(c, 5)
      /\ c[1] = AwaitEndpoint(s, t) /\ c[2] = ConnectTo(s, t)
      /\ c[3] = AwaitBoth(s, t, cancel, done) /\ c[4] = CancelTo(s, t, cancel, done)
      /\ c[5] = Ended(done)
  BY <1>0, ConnectIs
<1>2. Len(c) = 5
  BY <1>1, SeqDomain
<1>3. Neutral(c[1]) /\ Neutral(c[2])
  BY <1>1, ShowsIsNeutral, CmdIsNeutral DEF AwaitEndpoint, ConnectTo, Sending
<1>4. /\ c[4].at = cancel /\ c[4].op = "cmd" /\ c[4].what = <<Command("cancelConnect", s, t)>>
      /\ ~c[4].toChosen /\ c[4].then = "next" /\ c[4].swallow /\ c[4].onCrash = "end" /\ c[4].onFail = done
  BY <1>1 DEF CancelTo, At, Catch, Cmd, Step
<1>5. /\ c[5].at = done /\ c[5].op = "reraise" /\ c[5].then = "next" /\ ~c[5].toChosen
      /\ c[5].onFail = "end" /\ c[5].onCrash = "end"
  BY <1>1 DEF Ended, At, Step
<1>6. /\ c[3].at = "" /\ c[3].op = "wait" /\ c[3].what = BothReady(s, t) /\ c[3].onCrash = "end"
      /\ c[3].onFail = cancel /\ c[3].then = done /\ ~c[3].toChosen /\ ~c[3].swallow
  BY <1>1 DEF AwaitBoth, Then, Step
<1>7. Leads(c, cancel, CancelLabels) /\ Leads(c, done, DoneLabels)
  BY <1>2, <1>4, <1>5 DEF Leads
<1>8. Unrelated(c[3])
  <2> DEFINE w == BothReady(s, t)
  <2>1. IsSeq(w, 4) /\ w[1].kind = "quiet" /\ w[2].kind = "quiet" /\ w[3].kind = "ready" /\ w[4].kind = "ready"
    BY FourSteps DEF BothReady, Events, Ready, Shows
  <2>2. c[3].what = w
    BY <1>6
  <2> HIDE DEF w
  <2>3. \A k \in 1..4 : w[k].kind \notin {"find", "collect"}
    BY <2>1
  <2> QED
    BY <1>6, <2>1, <2>2, <2>3, Numbers, UnrelatedFrom
<1>9. Guarded(c, 3)
  BY <1>6, <1>7, <1>8 DEF Guarded
<1>10. Cancels(c, 4)
  <2>1. Single(c[4]) /\ c[4].what[1].name \notin Sending
    BY <1>4 DEF Single, Command, Sending
  <2>2. 4 > 1 /\ 4 - 1 = 3 /\ 4 + 1 = 5 /\ 5 \in 1..5
    OBVIOUS
  <2>3. c[4 + 1].at \in DoneLabels /\ 4 + 1 \in 1..Len(c)
    BY <1>2, <1>5, <2>2
  <2>4. Guarded(c, 4 - 1)
    BY <1>9, <2>2
  <2> QED
    BY <1>4, <1>7, <2>1, <2>2, <2>3, <2>4 DEF Cancels
<1>11. Rethrows(c[5])
  BY <1>5 DEF Rethrows
<1>12. ASSUME NEW i \in 1..5 PROVE Allowed(c, i, counting)
  BY <1>3, <1>9, <1>10, <1>11 DEF Allowed
<1> QED
  BY <1>1, <1>12, Numbers, PieceFrom DEF c

LEMMA PairPiece == ASSUME NEW counting \in BOOLEAN PROVE Piece(Pair, counting)
BY ConnectPiece DEF Pair, CancelLabels, DoneLabels

(* Messages, each followed by the wait for it.                             *)
LEMMA SendPiece ==
    ASSUME NEW name \in {"sendReliable", "sendGroup"}, NEW d \in Devices, NEW e \in Devices, NEW type,
           type = Shown(To(name, d, e))
    PROVE  Piece(SendAndWait(name, d, e, type), FALSE)
<1> DEFINE s == SendAndWait(name, d, e, type)
<1>1. IsSeq(s, 2) /\ s[1] = Cmd(To(name, d, e)) /\ s[2] = WaitForEvent(e, type)
  BY TwoSteps DEF SendAndWait
<1> HIDE DEF s
<1>2. Len(s) = 2
  BY <1>1, SeqDomain
<1>3. s[1 + 1] = s[2] /\ 1 + 1 \in 1..2 /\ 2 > 1 /\ s[2 - 1] = s[1] /\ 2 - 1 = 1
  OBVIOUS
<1>4. SendsOne(s, 1)
  BY <1>1, <1>2, <1>3 DEF SendsOne
<1>5. FindsFirst(s, 2)
  BY <1>3, <1>4 DEF FindsFirst
<1>6. ASSUME NEW i \in 1..2 PROVE Allowed(s, i, FALSE)
  BY <1>4, <1>5 DEF Allowed
<1> QED
  BY <1>1, <1>6, Numbers, PieceFrom DEF s

Messages2 ==
    <<Step("pair", <<To("sendGroup", First, Second), To("sendGroup", Second, First)>>),
      WaitForEvent(Second, "groupMessageReceived"), WaitForEvent(First, "groupMessageReceived")>>

LEMMA ThreeAllowed ==
    ASSUME NEW s, IsSeq(s, 3), SendsTwo(s, 1)
    PROVE  Piece(s, FALSE)
<1>2. 2 > 1 /\ 2 - 1 = 1 /\ 3 > 2 /\ 3 - 2 = 1
  OBVIOUS
<1>3. FindsFirst(s, 2) /\ FindsSecond(s, 3)
  BY <1>2 DEF FindsFirst, FindsSecond
<1>4. ASSUME NEW i \in 1..3 PROVE Allowed(s, i, FALSE)
  BY <1>3 DEF Allowed
<1> QED
  BY <1>4, Numbers, PieceFrom

LEMMA Messages2Piece == Piece(Messages2, FALSE)
<1> DEFINE s == Messages2
<1>1. /\ IsSeq(s, 3)
      /\ s[1] = Step("pair", <<To("sendGroup", First, Second), To("sendGroup", Second, First)>>)
      /\ s[2] = WaitForEvent(Second, "groupMessageReceived")
      /\ s[3] = WaitForEvent(First, "groupMessageReceived")
  BY ThreeSteps DEF Messages2
<1> HIDE DEF s
<1>2. Len(s) = 3
  BY <1>1, SeqDomain
<1>3. 1 + 1 = 2 /\ 1 + 2 = 3 /\ 3 \in 1..3
  OBVIOUS
<1>4. SendsTwo(s, 1)
  BY <1>1, <1>2, <1>3 DEF SendsTwo
<1> QED
  BY <1>1, <1>4, ThreeAllowed DEF s

(* The choice of the coordinator and its publication.                      *)
Published ==
    <<PickCoordinator, AtChosen(Cmd(To("publishCheckpoint", First, First))),
      AtChosen(WaitForEvent(First, "checkpointAccepted")), AtChosen(WaitForEvent(First, "durable"))>>

LEMMA PublishedPiece == Piece(Published, FALSE)
<1> DEFINE s == Published
<1>1. /\ IsSeq(s, 4) /\ s[1] = PickCoordinator
      /\ s[2] = AtChosen(Cmd(To("publishCheckpoint", First, First)))
      /\ s[3] = AtChosen(WaitForEvent(First, "checkpointAccepted"))
      /\ s[4] = AtChosen(WaitForEvent(First, "durable"))
  BY FourSteps DEF Published
<1> HIDE DEF s
<1>2. Len(s) = 4
  BY <1>1, SeqDomain
<1>3. /\ 1 + 1 = 2 /\ 2 + 2 = 4 /\ 2 + 1 = 3 /\ 2 - 1 = 1 /\ 3 - 1 = 2 /\ 4 - 2 = 2
      /\ 2 > 1 /\ 3 > 1 /\ 4 > 2 /\ 4 \in 1..4 /\ 2 \in 1..4
  OBVIOUS
<1>4. PICK w : s[1] = Step("pick", w) /\ w = [i \in DOMAIN Apis |-> Shows("leads", Apis[i])]
  BY <1>1 DEF PickCoordinator, OnAll
<1>5. s[1].op = "pick" /\ Plain(s[1]) /\ ~s[1].toChosen /\ s[1].what = w
  <2>1. s[1] = Step("pick", w)
    BY <1>4
  <2>2. Simple(s[1], "pick", w)
    BY <2>1, StepIs
  <2> QED
    BY <2>2 DEF Simple
<1>6. IsSeq(w, 2) /\ w[1] = Shows("leads", "a") /\ w[2] = Shows("leads", "b")
  <2> DEFINE x == Shows("leads", "a")
             y == Shows("leads", "b")
  <2>1. w = [i \in DOMAIN Apis |-> IF i = 1 THEN x ELSE y]
    BY <1>4, DevicesAre
  <2> HIDE DEF x, y
  <2>2. IsSeq(w, 2) /\ w[1] = x /\ w[2] = y
    BY <2>1, OnBoth
  <2> QED
    BY <2>2 DEF x, y
<1>7. \A k \in 1..2 : w[k].kind = "leads" /\ w[k].on \in Devices
  BY <1>6, DevicesAre DEF Shows
<1>8. Unrelated(s[1]) /\ Len(w) = 2
  BY <1>5, <1>6, <1>7, Numbers, UnrelatedFrom
<1>9. s[2].op = "cmd"
  BY <1>1 DEF AtChosen, Cmd, Step
<1>10. Picks(s, 1)
  BY <1>2, <1>3, <1>5, <1>7, <1>8, <1>9 DEF Picks
<1>11. Publishes(s, 2)
  BY <1>1, <1>2, <1>3, <1>5 DEF Publishes
<1>12. FindsFirst(s, 3) /\ FindsSecond(s, 4)
  BY <1>3, <1>11 DEF FindsFirst, FindsSecond
<1>13. ASSUME NEW i \in 1..4 PROVE Allowed(s, i, FALSE)
  BY <1>10, <1>11, <1>12 DEF Allowed
<1> QED
  BY <1>1, <1>13, Numbers, PieceFrom DEF s


-----------------------------------------------------------------------------
(* The scenarios.                                                          *)

LEMMA FlattenPiece ==
    ASSUME NEW counting \in BOOLEAN, NEW ss, NEW n, IsSeq(ss, n), n >= 1,
           \A i \in 1..n : Piece(ss[i], counting)
    PROVE  Piece(FlattenSeq(ss), counting)
<1>1. \A i \in 1..n : Fragment(ss[i], counting) /\ Len(ss[i]) >= 1
  BY DEF Piece
<1> QED
  BY <1>1, FragmentsFlatten DEF Piece

LEMMA NeutralThree ==
    ASSUME NEW counting \in BOOLEAN, NEW x, Neutral(x), NEW y, Neutral(y), NEW z, Neutral(z)
    PROVE  Piece(<<x, y, z>>, counting)
<1> DEFINE s == <<x, y, z>>
<1>1. IsSeq(s, 3) /\ s[1] = x /\ s[2] = y /\ s[3] = z
  BY ThreeSteps
<1> HIDE DEF s
<1>2. \A i \in 1..3 : Neutral(s[i])
  BY <1>1
<1>3. Fragment(s, counting) /\ Len(s) = 3
  BY <1>1, <1>2, NeutralFragment
<1> QED
  BY <1>3, Numbers DEF s, Piece

LEMMA NeutralFour ==
    ASSUME NEW counting \in BOOLEAN, NEW x, Neutral(x), NEW y, Neutral(y), NEW z, Neutral(z),
           NEW u, Neutral(u)
    PROVE  Piece(<<x, y, z, u>>, counting)
<1> DEFINE s == <<x, y, z, u>>
<1>1. IsSeq(s, 4) /\ s[1] = x /\ s[2] = y /\ s[3] = z /\ s[4] = u
  BY FourSteps
<1> HIDE DEF s
<1>2. \A i \in 1..4 : Neutral(s[i])
  BY <1>1
<1>3. Fragment(s, counting) /\ Len(s) = 4
  BY <1>1, <1>2, NeutralFragment
<1> QED
  BY <1>3, Numbers DEF s, Piece

(* A step about every device.                                              *)
LEMMA AllNeutral ==
    ASSUME NEW verb \in {"check", "wait"}, NEW what, NEW kind, kind \notin {"find", "collect"},
           what = [i \in DOMAIN Apis |-> Shows(kind, Apis[i])]
    PROVE  Neutral(Step(verb, what))
<1>1. what = [i \in DOMAIN Apis |-> IF i = 1 THEN Shows(kind, "a") ELSE Shows(kind, "b")]
  BY DevicesAre
<1>2. Shows(kind, "a").kind = kind /\ Shows(kind, "b").kind = kind
  BY DEF Shows
<1> QED
  BY <1>1, <1>2, PairIsNeutral

LEMMA IdentitiesNeutral == Neutral(Identities)
<1>1. OnAll(Health) = [i \in DOMAIN Apis |-> Shows("health", Apis[i])]
  BY DEF OnAll, Health
<1> QED
  BY <1>1, AllNeutral DEF Identities

LEMMA DrainNeutral == Neutral(DrainEvents)
<1>1. OnAll(Drain) = [i \in DOMAIN Apis |-> IF i = 1 THEN Drain("a") ELSE Drain("b")]
  BY DevicesAre DEF OnAll
<1>2. Drain("a").kind = "drain" /\ Drain("b").kind = "drain"
  BY DEF Drain, Events
<1> QED
  BY <1>1, <1>2, PairIsNeutral DEF DrainEvents

LEMMA PeerIdNeutral == ASSUME NEW d, NEW e PROVE Neutral(PeerId(d, e))
BY ShowsIsNeutral DEF PeerId

LEMMA SteadyNeutral == Neutral(Step("check", Steady))
<1>1. IsSeq(Steady, 2) /\ Steady[1] = Shows("steady", First) /\ Steady[2] = Shows("steady", Second)
  BY TwoSteps DEF Steady
<1>2. \A k \in 1..2 : Steady[k].kind = "steady"
  BY <1>1 DEF Shows
<1> QED
  BY <1>1, <1>2, Numbers, PollIsNeutral

LEMMA ToNeutral == ASSUME NEW name, name \notin Sending, NEW d, NEW e PROVE Neutral(Cmd(To(name, d, e)))
BY CmdIsNeutral DEF To

LEMMA WaitsNeutral ==
    /\ Neutral(WaitGroup)
    /\ Neutral(Step("wait", OnAll(LAMBDA d : Shows("gone", d))))
    /\ Neutral(Step("wait", OnAll(LAMBDA d : Shows("discovered", d))))
    /\ Neutral(Step("wait", OnAll(OneReady))) /\ Neutral(Step("check", OnAll(OneReady)))
<1>1. \A what : what = [i \in DOMAIN Apis |-> Shows("group", Apis[i])] => Neutral(Step("wait", what))
  BY AllNeutral
<1>2. \A what : what = [i \in DOMAIN Apis |-> Shows("gone", Apis[i])] => Neutral(Step("wait", what))
  BY AllNeutral
<1>3. \A what : what = [i \in DOMAIN Apis |-> Shows("discovered", Apis[i])] => Neutral(Step("wait", what))
  BY AllNeutral
<1>4. \A what : what = [i \in DOMAIN Apis |-> Shows("oneReady", Apis[i])]
          => Neutral(Step("wait", what)) /\ Neutral(Step("check", what))
  BY AllNeutral
<1> QED
  BY <1>1, <1>2, <1>3, <1>4 DEF WaitGroup, OnAll, OneReady

LEMMA GroupPiece == Piece(Group, FALSE)
<1>1. OnAll(CreateGroup)
          = [i \in DOMAIN Apis |-> IF i = 1 THEN CreateGroup("a") ELSE CreateGroup("b")]
  BY DevicesAre DEF OnAll
<1>2. \A d \in {"a", "b"} : Neutral(CreateGroup(d))
  BY CmdIsNeutral DEF CreateGroup, Sending
<1>3. Piece(OnAll(CreateGroup), FALSE)
  BY <1>1, <1>2, NeutralPair, Numbers
<1>4. Piece(<<WaitGroup>>, FALSE)
  BY WaitsNeutral, NeutralOne, Numbers
<1> QED
  BY <1>3, <1>4, PiecesJoin, Numbers DEF Group, FormGroup

LEMMA DiscoveryPiece == Piece(Discovery, FALSE)
BY WaitsNeutral, NeutralOne, Numbers DEF Discovery

LEMMA BlockedPiece == Piece(Blocked, FALSE)
<1>1. IsSeq(Blocked, 1) /\ Blocked[1] = Step("block", <<>>)
  BY OneStep DEF Blocked
<1>2. Stops(Blocked[1])
  <2>1. Simple(Step("block", <<>>), "block", <<>>)
    BY StepIs
  <2> QED
    BY <1>1, <2>1 DEF Simple, Stops
<1>3. ASSUME NEW i \in 1..1 PROVE Allowed(Blocked, i, FALSE)
  BY <1>2 DEF Allowed
<1> QED
  BY <1>1, <1>3, PieceFrom, Numbers

LEMMA IdentityPiece == Piece(Identity, FALSE)
<1>1. Neutral(Cmd(To("disconnectPeer", First, Second)))
  BY ToNeutral DEF Sending
<1>2. Piece(<<Identities, PeerId(First, Second), Cmd(To("disconnectPeer", First, Second)),
              Step("wait", OnAll(LAMBDA d : Shows("gone", d)))>>, FALSE)
  BY <1>1, IdentitiesNeutral, PeerIdNeutral, WaitsNeutral, NeutralFour, Numbers
<1>3. Piece(<<Identities>>, FALSE)
  BY IdentitiesNeutral, NeutralOne, Numbers
<1>4. Piece(Connect(First, Second, "cancel2", "done2"), FALSE)
  BY ConnectPiece, Numbers DEF CancelLabels, DoneLabels
<1> QED
  BY <1>2, <1>3, <1>4, PairPiece, PiecesJoin, Numbers DEF Identity

LEMMA ReliablePiece ==
    /\ Piece(SendAndWait("sendReliable", First, Second, "directMessageReceived"), FALSE)
    /\ Piece(SendAndWait("sendReliable", Second, First, "directMessageReceived"), FALSE)
    /\ Piece(SendAndWait("sendGroup", First, Second, "groupMessageReceived"), FALSE)
<1>1. First \in Devices /\ Second \in Devices
  BY DevicesAre
<1>2. \A d \in Devices, e \in Devices :
          /\ Shown(To("sendReliable", d, e)) = "directMessageReceived"
          /\ Shown(To("sendGroup", d, e)) = "groupMessageReceived"
  BY DEF To, Command, Shown
<1> QED
  BY <1>1, <1>2, SendPiece

LEMMA MixedPiece == Piece(Mixed, FALSE)
<1> DEFINE x == SendAndWait("sendReliable", First, Second, "directMessageReceived")
           y == SendAndWait("sendReliable", Second, First, "directMessageReceived")
           ss == [i \in 1..4 |-> IF i % 2 = 1 THEN x ELSE y]
<1>1. Piece(x, FALSE) /\ Piece(y, FALSE)
  BY ReliablePiece
<1>2. Mixed = Pair \o <<DrainEvents, PeerId(Second, First), PeerId(First, Second)>>
                \o FlattenSeq(ss) \o <<Step("check", Steady)>>
  BY DEF Mixed
<1> HIDE DEF x, y
<1>3. ss = [i \in 1..4 |-> ss[i]] /\ \A i \in 1..4 : ss[i] \in {x, y}
  OBVIOUS
<1> HIDE DEF ss
<1>4. IsSeq(ss, 4)
  BY <1>3, FunctionIsSeq
<1>5. \A i \in 1..4 : Piece(ss[i], FALSE)
  BY <1>1, <1>3
<1>6. Piece(FlattenSeq(ss), FALSE)
  BY <1>4, <1>5, FlattenPiece, Numbers
<1>7. Piece(<<DrainEvents, PeerId(Second, First), PeerId(First, Second)>>, FALSE)
  BY DrainNeutral, PeerIdNeutral, NeutralThree, Numbers
<1>8. Piece(<<Step("check", Steady)>>, FALSE)
  BY SteadyNeutral, NeutralOne, Numbers
<1> QED
  BY <1>2, <1>6, <1>7, <1>8, PairPiece, PiecesJoin, Numbers

LEMMA GroupRoutesPiece == Piece(GroupRoutes, FALSE)
<1> DEFINE ss == [i \in DOMAIN Apis |-> <<Step("compare", <<Shows("resources", Apis[i])>>),
                                          Step("check", <<Shows("one", Apis[i])>>)>>]
<1>1. GroupRoutes =
          Pair \o Resources(First) \o Resources(Second) \o Group \o FlattenSeq(ss)
          \o <<PeerId(First, Second)>>
          \o SendAndWait("sendReliable", First, Second, "directMessageReceived")
          \o SendAndWait("sendGroup", First, Second, "groupMessageReceived")
  BY DEF GroupRoutes, OnAll
<1>2. \A d : Piece(<<Step("compare", <<Shows("resources", d)>>), Step("check", <<Shows("one", d)>>)>>, FALSE)
  <2>1. \A d : Neutral(Step("compare", <<Shows("resources", d)>>))
    BY OtherIsNeutral
  <2>2. \A d : Neutral(Step("check", <<Shows("one", d)>>))
    BY ShowsIsNeutral
  <2> QED
    BY <2>1, <2>2, NeutralTwo, Numbers
<1>3. ss = [i \in 1..2 |-> ss[i]]
  BY DevicesAre
<1>4. \A i \in 1..2 : Piece(ss[i], FALSE)
  BY <1>2, DevicesAre
<1> HIDE DEF ss
<1>5. Piece(FlattenSeq(ss), FALSE)
  <2>1. IsSeq(ss, 2)
    BY <1>3, FunctionIsSeq
  <2> QED
    BY <2>1, <1>4, FlattenPiece, Numbers
<1>6. \A d : Piece(Resources(d), FALSE)
  BY OtherIsNeutral, NeutralOne, Numbers DEF Resources
<1>7. Piece(<<PeerId(First, Second)>>, FALSE)
  BY PeerIdNeutral, NeutralOne, Numbers
<1>8. Piece(Pair \o Resources(First) \o Resources(Second) \o Group \o FlattenSeq(ss), FALSE)
  BY <1>5, <1>6, PairPiece, GroupPiece, PiecesJoin, Numbers
<1> QED
  BY <1>1, <1>7, <1>8, ReliablePiece, PiecesJoin, Numbers

LEMMA GroupLeavePiece == Piece(GroupLeave, FALSE)
<1>1. Neutral(Cmd(To("leaveGroup", First, First)))
  BY ToNeutral DEF Sending
<1>2. Neutral(Step("wait", <<Shows("noGroup", First)>>))
  BY ShowsIsNeutral
<1>3. Piece(<<PeerId(First, Second), Cmd(To("leaveGroup", First, First)),
              Step("wait", <<Shows("noGroup", First)>>)>>, FALSE)
  BY <1>1, <1>2, PeerIdNeutral, NeutralThree, Numbers
<1> QED
  BY <1>3, PairPiece, GroupPiece, ReliablePiece, PiecesJoin, Numbers DEF GroupLeave

LEMMA GroupOwnershipPiece == Piece(GroupOwnership, FALSE)
<1>1. /\ Neutral(Cmd(To("leaveGroup", First, First))) /\ Neutral(Cmd(To("leaveGroup", Second, Second)))
      /\ Neutral(Cmd(To("releasePeerRetention", First, Second)))
  BY ToNeutral DEF Sending
<1>2. Piece(<<PeerId(First, Second), Cmd(To("releasePeerRetention", First, Second))>>, FALSE)
  BY <1>1, PeerIdNeutral, NeutralTwo, Numbers
<1>3. Piece(<<Cmd(To("leaveGroup", First, First)), Cmd(To("leaveGroup", Second, Second)),
              Step("wait", OnAll(LAMBDA d : Shows("gone", d)))>>, FALSE)
  BY <1>1, WaitsNeutral, NeutralThree, Numbers
<1> QED
  BY <1>2, <1>3, PairPiece, GroupPiece, ReliablePiece, PiecesJoin, Numbers DEF GroupOwnership

LEMMA PublicationPiece == Piece(Publication, FALSE)
BY GroupPiece, PublishedPiece, PiecesJoin, Numbers DEF Publication, Published

LEMMA BidirectionalPiece == Piece(BidirectionalGroup, FALSE)
<1> DEFINE s == <<Step("wait", OnAll(OneReady)), DrainEvents,
                  PeerId(First, Second), PeerId(Second, First)>>
           check == Step("check", OnAll(OneReady))
           t == Messages2 \o <<check>>
           u == <<Step("wait", OnAll(OneReady)), DrainEvents,
                  PeerId(First, Second), PeerId(Second, First),
                  Step("pair", <<To("sendGroup", First, Second), To("sendGroup", Second, First)>>),
                  WaitForEvent(Second, "groupMessageReceived"), WaitForEvent(First, "groupMessageReceived"),
                  check>>
<1>1. BidirectionalGroup = Pair \o Group \o u
  BY DEF BidirectionalGroup
<1>2. u = s \o t
  BY DEF Messages2
<1>3. Piece(s, FALSE)
  BY WaitsNeutral, DrainNeutral, PeerIdNeutral, NeutralFour, Numbers
<1>4. Piece(t, FALSE)
  BY WaitsNeutral, NeutralOne, Messages2Piece, PiecesJoin, Numbers
<1> HIDE DEF s, t, u
<1> QED
  BY <1>1, <1>2, <1>3, <1>4, PairPiece, GroupPiece, PiecesJoin, Numbers

(* The scenarios that count.                                               *)
LEMMA StepTallies ==
    ASSUME NEW verb \in {"check", "wait"}, NEW w, NEW n, IsSeq(w, n), n >= 1,
           \A k \in 1..n : w[k] = Collect(Second) \/ w[k].kind \in {"steady", "enough", "exact"}
    PROVE  Tallies(Step(verb, w)) /\ LastCondition(Step(verb, w)) = w[n]
<1>1. Len(w) = n
  BY SeqDomain
<1> DEFINE t == Step(verb, w)
<1>2. Simple(t, verb, w)
  BY StepIs
<1> HIDE DEF t
<1>3. t.op = verb /\ t.what = w /\ Plain(t) /\ ~t.toChosen
  BY <1>2 DEF Simple
<1>4. Conditions(t)
  BY <1>1, <1>3 DEF Conditions
<1>5. Tallies(t) /\ LastCondition(t) = w[n]
  BY <1>1, <1>3, <1>4 DEF Tallies, LastCondition
<1> QED
  BY <1>5 DEF t

LEMMA CountingPiece ==
    ASSUME NEW s, NEW n, IsSeq(s, n), n >= 1,
           \A i \in 1..n : Neutral(s[i]) \/ SendsCounted(s[i]) \/ Tallies(s[i])
    PROVE  Piece(s, TRUE) /\ Len(s) = n
<1>1. \A i \in 1..n : Allowed(s, i, TRUE)
  BY DEF Allowed
<1> QED
  BY <1>1, PieceFrom, SeqDomain

LEMMA EndsJoin ==
    ASSUME NEW s, Piece(s, TRUE), NEW t, Piece(t, TRUE), EndsCounting(t)
    PROVE  Piece(s \o t, TRUE) /\ EndsCounting(s \o t)
<1>1. Piece(s \o t, TRUE) /\ (s \o t)[Len(s \o t)] = t[Len(t)]
  BY PiecesJoin
<1> QED
  BY <1>1 DEF EndsCounting, Piece

Accumulated == Step("wait", <<Collect(Second), Shows("enough", Second)>>)

LEMMA AccumulatedTallies ==
    Tallies(Accumulated) /\ LastCondition(Accumulated).kind = "enough"
<1> DEFINE w == <<Collect(Second), Shows("enough", Second)>>
<1>1. IsSeq(w, 2) /\ w[1] = Collect(Second) /\ w[2] = Shows("enough", Second)
  BY TwoSteps
<1>2. Accumulated = Step("wait", w)
  BY DEF Accumulated
<1> HIDE DEF w
<1>3. w[2].kind = "enough"
  BY <1>1 DEF Shows
<1>4. \A k \in 1..2 : w[k] = Collect(Second) \/ w[k].kind \in {"steady", "enough", "exact"}
  BY <1>1, <1>3
<1> QED
  BY <1>1, <1>2, <1>3, <1>4, StepTallies, Numbers

SendCounted == Cmd(To("sendReliable", First, Second))

LEMMA MessagesPiece == Piece(Messages, TRUE) /\ EndsCounting(Messages)
<1> DEFINE x == <<SendCounted, Accumulated>>
           ss == [i \in 1..Rounds |-> x]
<1>1. Messages = Pair \o <<PeerId(First, Second)>> \o FlattenSeq(ss)
  BY DEF Messages, SendCounted, Accumulated
<1>2. IsSeq(x, 2) /\ x[1] = SendCounted /\ x[2] = Accumulated
  BY TwoSteps
<1> HIDE DEF x
<1>3. \A i \in 1..2 : SendsCounted(x[i]) \/ Tallies(x[i])
  BY <1>2, AccumulatedTallies DEF SendsCounted, SendCounted
<1>4. Piece(x, TRUE) /\ Len(x) = 2
  BY <1>2, <1>3, CountingPiece, Numbers
<1>5. Rounds \in Nat /\ Rounds >= 1
  BY SessionBounds
<1>6. ss = [i \in 1..Rounds |-> ss[i]] /\ \A i \in 1..Rounds : ss[i] = x
  OBVIOUS
<1> HIDE DEF ss
<1>7. IsSeq(ss, Rounds)
  BY <1>5, <1>6, FunctionIsSeq
<1>8. \A i \in 1..Rounds : Fragment(ss[i], TRUE) /\ Len(ss[i]) >= 1
  BY <1>4, <1>6 DEF Piece
<1>9. /\ Fragment(FlattenSeq(ss), TRUE) /\ Len(FlattenSeq(ss)) >= 1
      /\ FlattenSeq(ss)[Len(FlattenSeq(ss))] = ss[Rounds][Len(ss[Rounds])]
  BY <1>5, <1>7, <1>8, FragmentsFlatten
<1>10. ss[Rounds] = x
  BY <1>5, <1>6
<1>11. FlattenSeq(ss)[Len(FlattenSeq(ss))] = Accumulated
  BY <1>2, <1>4, <1>9, <1>10
<1>12. Piece(FlattenSeq(ss), TRUE) /\ EndsCounting(FlattenSeq(ss))
  BY <1>9, <1>11, AccumulatedTallies DEF Piece, EndsCounting
<1>13. Piece(<<PeerId(First, Second)>>, TRUE)
  BY PeerIdNeutral, NeutralOne
<1>14. Piece(Pair \o <<PeerId(First, Second)>>, TRUE)
  BY <1>13, PairPiece, PiecesJoin
<1> QED
  BY <1>1, <1>12, <1>14, EndsJoin

LEMMA OneThenTwo ==
    ASSUME NEW p, NEW q, NEW s, Joins(s, 3, p, 1, q, 2)
    PROVE  IsSeq(s, 3) /\ s[1] = p[1] /\ s[2] = q[1] /\ s[3] = q[2]
<1>1. 1 + 2 = 3 /\ 1 + 1 = 2 /\ 1 \in 1..1 /\ 1 \in 1..2 /\ 2 \in 1..2
  OBVIOUS
<1>3. IsSeq(s, 3) /\ (\A i \in 1..1 : s[i] = p[i]) /\ \A i \in 1..2 : s[1 + i] = q[i]
  BY Concat
<1>4. s[1] = p[1] /\ s[1 + 1] = q[1] /\ s[1 + 2] = q[2]
  BY <1>1, <1>3
<1> QED
  BY <1>1, <1>3, <1>4

LEMMA TwoThenOne ==
    ASSUME NEW p, NEW q, NEW s, Joins(s, 3, p, 2, q, 1)
    PROVE  IsSeq(s, 3) /\ s[1] = p[1] /\ s[2] = p[2] /\ s[3] = q[1]
<1>1. 2 + 1 = 3 /\ 1 \in 1..1 /\ 1 \in 1..2 /\ 2 \in 1..2
  OBVIOUS
<1>3. IsSeq(s, 3) /\ (\A i \in 1..2 : s[i] = p[i]) /\ \A i \in 1..1 : s[2 + i] = q[i]
  BY Concat
<1>4. s[1] = p[1] /\ s[2] = p[2] /\ s[2 + 1] = q[1]
  BY <1>1, <1>3
<1> QED
  BY <1>1, <1>3, <1>4

LEMMA ThreeThenOne ==
    ASSUME NEW p, NEW q, NEW s, Joins(s, 4, p, 3, q, 1)
    PROVE  IsSeq(s, 4) /\ s[1] = p[1] /\ s[2] = p[2] /\ s[3] = p[3] /\ s[4] = q[1]
<1>1. 3 + 1 = 4 /\ 1 \in 1..1 /\ 1 \in 1..3 /\ 2 \in 1..3 /\ 3 \in 1..3
  OBVIOUS
<1>3. IsSeq(s, 4) /\ (\A i \in 1..3 : s[i] = p[i]) /\ \A i \in 1..1 : s[3 + i] = q[i]
  BY Concat
<1>4. s[1] = p[1] /\ s[2] = p[2] /\ s[3] = p[3] /\ s[3 + 1] = q[1]
  BY <1>1, <1>3
<1> QED
  BY <1>1, <1>3, <1>4

LEMMA LargeMessagePiece == Piece(LargeMessage, TRUE) /\ EndsCounting(LargeMessage)
<1> DEFINE w == <<Collect(Second)>> \o Steady \o <<Shows("enough", Second)>>
           s == <<PeerId(First, Second), SendCounted, Step("wait", w)>>
<1>1. LargeMessage = Pair \o s
  BY DEF LargeMessage, SendCounted
<1>2. w = <<Collect(Second)>> \o <<Shows("steady", First), Shows("steady", Second)>>
            \o <<Shows("enough", Second)>>
  BY DEF Steady
<1>4. IsSeq(s, 3) /\ s[1] = PeerId(First, Second) /\ s[2] = SendCounted /\ s[3] = Step("wait", w)
  BY ThreeSteps
<1> HIDE DEF w, s
<1>3. /\ IsSeq(w, 4) /\ w[1] = Collect(Second) /\ w[2] = Shows("steady", First)
      /\ w[3] = Shows("steady", Second) /\ w[4] = Shows("enough", Second)
  <2> DEFINE p == <<Collect(Second)>>
             q == <<Shows("steady", First), Shows("steady", Second)>>
             r == <<Shows("enough", Second)>>
             pq == p \o q
  <2>1. IsSeq(p, 1) /\ p[1] = Collect(Second) /\ IsSeq(r, 1) /\ r[1] = Shows("enough", Second)
    BY OneStep
  <2>2. IsSeq(q, 2) /\ q[1] = Shows("steady", First) /\ q[2] = Shows("steady", Second)
    BY TwoSteps
  <2>3. w = pq \o r /\ pq = p \o q
    BY <1>2
  <2> HIDE DEF p, q, r, pq
  <2> Joins(pq, 3, p, 1, q, 2)
    BY <2>1, <2>2, <2>3 DEF Joins
  <2>4. IsSeq(pq, 3) /\ pq[1] = p[1] /\ pq[2] = q[1] /\ pq[3] = q[2]
    BY OneThenTwo
  <2> Joins(w, 4, pq, 3, r, 1)
    BY <2>1, <2>3, <2>4 DEF Joins
  <2>5. IsSeq(w, 4) /\ w[1] = pq[1] /\ w[2] = pq[2] /\ w[3] = pq[3] /\ w[4] = r[1]
    BY ThreeThenOne
  <2> QED
    BY <2>1, <2>2, <2>4, <2>5
<1>5. w[2].kind = "steady" /\ w[3].kind = "steady" /\ w[4].kind = "enough"
  BY <1>3 DEF Shows
<1>6. \A k \in 1..4 : w[k] = Collect(Second) \/ w[k].kind \in {"steady", "enough", "exact"}
  BY <1>3, <1>5
<1>7. Tallies(s[3]) /\ LastCondition(s[3]).kind = "enough"
  BY <1>3, <1>4, <1>5, <1>6, StepTallies, Numbers
<1>8. \A i \in 1..3 : Neutral(s[i]) \/ SendsCounted(s[i]) \/ Tallies(s[i])
  BY <1>4, <1>7, PeerIdNeutral DEF SendsCounted, SendCounted
<1>9. Piece(s, TRUE) /\ Len(s) = 3
  BY <1>4, <1>8, CountingPiece, Numbers
<1>10. EndsCounting(s)
  BY <1>7, <1>9, Numbers DEF EndsCounting
<1> QED
  BY <1>1, <1>9, <1>10, PairPiece, EndsJoin

LEMMA SoakPiece == Piece(Soak, TRUE) /\ EndsCounting(Soak)
<1> DEFINE w == Steady \o <<Collect(Second)>>
           look == Step("check", w)
           x == <<SendCounted, look>>
           ss == [i \in 1..Rounds |-> x]
           exact == Step("check", <<Shows("exact", Second)>>)
           s == <<Accumulated, exact>>
<1>1. Soak = Pair \o <<PeerId(First, Second)>> \o FlattenSeq(ss) \o s
  BY DEF Soak, SendCounted, Accumulated
<1>2. IsSeq(x, 2) /\ x[1] = SendCounted /\ x[2] = look
  BY TwoSteps
<1>3. IsSeq(s, 2) /\ s[1] = Accumulated /\ s[2] = exact
  BY TwoSteps
<1>4. Tallies(look)
  <2>1. w = <<Shows("steady", First), Shows("steady", Second)>> \o <<Collect(Second)>>
    BY DEF Steady
  <2>3. look = Step("check", w)
    OBVIOUS
  <2> HIDE DEF w, look
  <2>2. /\ IsSeq(w, 3) /\ w[1] = Shows("steady", First) /\ w[2] = Shows("steady", Second)
        /\ w[3] = Collect(Second)
    <3> DEFINE p == <<Shows("steady", First), Shows("steady", Second)>>
               q == <<Collect(Second)>>
    <3>1. IsSeq(p, 2) /\ p[1] = Shows("steady", First) /\ p[2] = Shows("steady", Second)
      BY TwoSteps
    <3>2. IsSeq(q, 1) /\ q[1] = Collect(Second)
      BY OneStep
    <3>3. w = p \o q
      BY <2>1
    <3> HIDE DEF p, q
    <3> Joins(w, 3, p, 2, q, 1)
      BY <3>1, <3>2, <3>3 DEF Joins
    <3>4. IsSeq(w, 3) /\ w[1] = p[1] /\ w[2] = p[2] /\ w[3] = q[1]
      BY TwoThenOne
    <3> QED
      BY <3>1, <3>2, <3>4
  <2>4. w[1].kind = "steady" /\ w[2].kind = "steady"
    BY <2>2 DEF Shows
  <2>5. \A k \in 1..3 : w[k] = Collect(Second) \/ w[k].kind \in {"steady", "enough", "exact"}
    BY <2>2, <2>4
  <2> QED
    BY <2>2, <2>3, <2>5, StepTallies, Numbers
<1>5. Tallies(exact) /\ LastCondition(exact).kind = "exact"
  <2> DEFINE e == <<Shows("exact", Second)>>
  <2>1. IsSeq(e, 1) /\ e[1] = Shows("exact", Second)
    BY OneStep
  <2>2. exact = Step("check", e)
    OBVIOUS
  <2> HIDE DEF e, exact
  <2>3. e[1].kind = "exact"
    BY <2>1 DEF Shows
  <2>4. \A k \in 1..1 : e[k].kind \in {"steady", "enough", "exact"}
    BY <2>3
  <2> QED
    BY <2>1, <2>2, <2>3, <2>4, StepTallies, Numbers
<1> HIDE DEF look, exact, s, x
<1>6. \A i \in 1..2 : SendsCounted(x[i]) \/ Tallies(x[i])
  BY <1>2, <1>4 DEF SendsCounted, SendCounted
<1>7. Piece(x, TRUE)
  BY <1>2, <1>6, CountingPiece, Numbers
<1>8. \A i \in 1..2 : Tallies(s[i])
  BY <1>3, <1>5, AccumulatedTallies
<1>9. Piece(s, TRUE) /\ Len(s) = 2
  BY <1>3, <1>8, CountingPiece, Numbers
<1>10. EndsCounting(s)
  BY <1>3, <1>5, <1>9, Numbers DEF EndsCounting
<1>11. Rounds \in Nat /\ Rounds >= 1
  BY SessionBounds
<1>12. ss = [i \in 1..Rounds |-> ss[i]] /\ \A i \in 1..Rounds : ss[i] = x
  OBVIOUS
<1> HIDE DEF ss
<1>13. IsSeq(ss, Rounds)
  BY <1>11, <1>12, FunctionIsSeq
<1>14. \A i \in 1..Rounds : Piece(ss[i], TRUE)
  BY <1>7, <1>12
<1>15. Piece(FlattenSeq(ss), TRUE)
  BY <1>11, <1>13, <1>14, FlattenPiece
<1>16. Piece(<<PeerId(First, Second)>>, TRUE)
  BY PeerIdNeutral, NeutralOne
<1>17. Piece(Pair \o <<PeerId(First, Second)>> \o FlattenSeq(ss), TRUE)
  BY <1>15, <1>16, PairPiece, PiecesJoin
<1> QED
  BY <1>1, <1>9, <1>10, <1>17, EndsJoin

-----------------------------------------------------------------------------
(* The scripts.                                                            *)

Provisioning(sc) == IF sc \in Provisioned THEN ProvisionKnownPeers ELSE <<>>

LEMMA StartPiece ==
    ASSUME NEW sc, NEW counting \in BOOLEAN, NEW head, head = Preflight \o Provisioning(sc)
    PROVE  Piece(head, counting) /\ Len(head) >= 2 /\ head[1] = Preflight[1] /\ head[2] = Preflight[2]
<1> DEFINE p == Preflight
           q == Provisioning(sc)
<1>1. Fragment(q, counting)
  <2>1. CASE sc \in Provisioned
    BY <2>1, ProvisionPiece DEF Piece, Provisioning
  <2>2. CASE sc \notin Provisioned
    <3>1. q = <<>>
      BY <2>2 DEF Provisioning
    <3> HIDE DEF q
    <3>2. <<>> = [i \in 1..0 |-> <<>>[i]]
      OBVIOUS
    <3>3. IsSeq(<<>>, 0)
      BY <3>2, FunctionIsSeq
    <3>4. Len(<<>>) = 0 /\ 1..0 = {}
      OBVIOUS
    <3> QED
      BY <3>1, <3>3, <3>4 DEF Fragment
  <2> QED
    BY <2>1, <2>2
<1>2. Piece(p, counting) /\ Len(p) = 2
  BY PreflightPiece
<1>3. head = p \o q
  OBVIOUS
<1> HIDE DEF p, q
<1>4. /\ Fragment(head, counting) /\ Len(head) = Len(p) + Len(q)
      /\ \A i \in 1..Len(p) : head[i] = p[i]
  <2>1. Fragment(p, counting)
    BY <1>2 DEF Piece
  <2>2. /\ Fragment(p \o q, counting) /\ Len(p \o q) = Len(p) + Len(q)
        /\ \A i \in 1..Len(p) : (p \o q)[i] = p[i]
    BY <1>1, <2>1, FragmentsJoin
  <2> QED
    BY <1>3, <2>2
<1>5. Len(q) \in Nat
  BY <1>1, SeqDomain DEF Fragment
<1>6. Len(head) >= 2 /\ Len(head) >= 1
  BY <1>2, <1>4, <1>5
<1>7. 1 \in 1..Len(p) /\ 2 \in 1..Len(p)
  BY <1>2
<1> QED
  BY <1>4, <1>6, <1>7 DEF Piece, p

LEMMA ScriptFrom ==
    ASSUME NEW sc, NEW counting \in BOOLEAN, NEW r, Piece(r, counting), counting => EndsCounting(r),
           NEW s, s = Preflight \o Provisioning(sc) \o r
    PROVE  WellFormed(s, counting)
<1> DEFINE head == Preflight \o Provisioning(sc)
<1>1. Piece(head, counting) /\ Len(head) >= 2 /\ head[1] = Preflight[1] /\ head[2] = Preflight[2]
  BY StartPiece
<1>2. s = head \o r
  OBVIOUS
<1> HIDE DEF head
<1>3. /\ Fragment(s, counting) /\ Len(s) = Len(head) + Len(r)
      /\ \A i \in 1..Len(head) : s[i] = head[i]
  BY <1>1, <1>2, FragmentsJoin DEF Piece
<1>4. Len(head) \in Nat /\ Len(r) \in Nat /\ Len(r) >= 1
  BY <1>1, SeqDomain DEF Fragment, Piece
<1>5. Len(s) > 2 /\ 1 \in 1..Len(head) /\ 2 \in 1..Len(head)
  BY <1>1, <1>3, <1>4
<1>6. counting => EndsCounting(s)
  BY <1>1, <1>2, EndsJoin
<1> QED
  BY <1>1, <1>3, <1>5, <1>6 DEF WellFormed

LEMMA RunPieces ==
    ASSUME NEW sc \in Scenarios
    PROVE  Piece(run[sc], sc \in Counted) /\ (sc \in Counted => EndsCounting(run[sc]))
<1>1. ASSUME NEW r, Piece(r, FALSE) PROVE Piece(ResetAll \o r, FALSE)
  BY <1>1, ResetPiece, PiecesJoin, Numbers
<1>2. ASSUME NEW r, Piece(r, TRUE), EndsCounting(r)
      PROVE  Piece(ResetAll \o r, TRUE) /\ EndsCounting(ResetAll \o r)
  BY <1>2, ResetPiece, EndsJoin
<1>3. /\ Piece(ResetAll \o Messages, TRUE) /\ EndsCounting(ResetAll \o Messages)
      /\ Piece(ResetAll \o LargeMessage, TRUE) /\ EndsCounting(ResetAll \o LargeMessage)
      /\ Piece(ResetAll \o Soak, TRUE) /\ EndsCounting(ResetAll \o Soak)
  BY <1>2, MessagesPiece, LargeMessagePiece, SoakPiece
<1>4. /\ run["IT008"] = ResetAll \o Messages /\ run["IT009"] = ResetAll \o LargeMessage
      /\ run["IT017"] = ResetAll \o Soak
  BY DEF run
<1>5. CASE sc \in Counted
  <2>1. sc = "IT008" \/ sc = "IT009" \/ sc = "IT017"
    BY <1>5 DEF Counted
  <2>2. Piece(run[sc], TRUE) /\ EndsCounting(run[sc])
    BY <1>3, <1>4, <2>1
  <2>3. (sc \in Counted) = TRUE
    BY <1>5
  <2> QED
    BY <2>2, <2>3
<1>6. CASE sc \notin Counted
  <2>1. /\ run["IT001"] = Discovery /\ run["IT003"] = ResetAll \o Pair
        /\ run["IT004"] = ResetAll \o Connect(Second, First, "cancel", "done")
        /\ run["IT005"] = ResetAll \o Identity /\ run["IT040"] = ResetAll \o Mixed
        /\ run["IT042"] = ResetAll \o BidirectionalGroup /\ run["IT018"] = Blocked
        /\ run["IT028"] = ResetAll \o Pair \o Publication /\ run["IT036"] = Blocked
        /\ run["IT032"] = ResetAll \o GroupRoutes /\ run["IT034"] = ResetAll \o GroupLeave
        /\ run["IT035"] = ResetAll \o GroupOwnership /\ run["IT099"] = Blocked
    BY DEF run
  <2>2. Piece(run["IT001"], FALSE) /\ Piece(run["IT018"], FALSE) /\ Piece(run["IT036"], FALSE)
        /\ Piece(run["IT099"], FALSE)
    BY <2>1, DiscoveryPiece, BlockedPiece
  <2>3. Piece(Connect(Second, First, "cancel", "done"), FALSE)
    BY ConnectPiece, Numbers DEF CancelLabels, DoneLabels
  <2>4. Piece(run["IT003"], FALSE) /\ Piece(run["IT004"], FALSE) /\ Piece(run["IT005"], FALSE)
        /\ Piece(run["IT040"], FALSE)
    BY <1>1, <2>1, <2>3, PairPiece, IdentityPiece, MixedPiece, Numbers
  <2>5. Piece(run["IT042"], FALSE) /\ Piece(run["IT032"], FALSE) /\ Piece(run["IT034"], FALSE)
        /\ Piece(run["IT035"], FALSE)
    BY <1>1, <2>1, BidirectionalPiece, GroupRoutesPiece, GroupLeavePiece, GroupOwnershipPiece
  <2>6. Piece(run["IT028"], FALSE)
    <3>1. Piece(ResetAll \o Pair, FALSE)
      BY <1>1, PairPiece, Numbers
    <3> QED
      BY <2>1, <3>1, PublicationPiece, PiecesJoin, Numbers
  <2>7. sc \in {"IT001", "IT003", "IT004", "IT005", "IT018", "IT028", "IT032", "IT034", "IT035",
                "IT036", "IT040", "IT042", "IT099"}
    BY <1>6 DEF Scenarios, Counted
  <2>8. Piece(run[sc], FALSE)
    BY <2>2, <2>4, <2>5, <2>6, <2>7
  <2>9. (sc \in Counted) = FALSE
    BY <1>6
  <2> QED
    BY <1>6, <2>8, <2>9
<1> QED
  BY <1>5, <1>6

(* The scripts are well formed.                                            *)
LEMMA ScriptsAre ==
    ASSUME NEW sc \in Scenarios
    PROVE  WellFormed(Scripts[sc], sc \in Counted)
<1>1. Scripts[sc] = Preflight \o Provisioning(sc) \o run[sc]
  BY SessionScenario DEF SessionScripts, Provisioning
<1>2. Piece(run[sc], sc \in Counted) /\ (sc \in Counted => EndsCounting(run[sc]))
  BY RunPieces
<1>3. (sc \in Counted) \in BOOLEAN
  OBVIOUS
<1> DEFINE counting == sc \in Counted
           r == run[sc]
           s == Scripts[sc]
<1>4. counting \in BOOLEAN /\ Piece(r, counting) /\ (counting => EndsCounting(r))
      /\ s = Preflight \o Provisioning(sc) \o r
  BY <1>1, <1>2
<1> HIDE DEF counting, r, s
<1>5. WellFormed(s, counting)
  BY <1>4, ScriptFrom
<1> QED
  BY <1>5 DEF s, counting

-----------------------------------------------------------------------------
(* The invariant.                                                          *)

Open == outcome \in {"running", "passed", "blocked"}
Live == Open /\ raised = "no"

(* Where the runner is, and what it holds there.                           *)
FlowInv ==
    /\ DOMAIN unread = Devices
    /\ outcome \in {"running", "passed", "blocked", "failed", "crashed"}
    /\ Open =>
         /\ scenario \in Scenarios /\ pc \in 1..Len(script)
         /\ raised \in {"no", "failed", "crashed"}
         /\ raised # "no" =>
              outcome = "running" /\ (script[pc].op \in {"pair", "reraise"} \/ script[pc].at \in CancelLabels)
         /\ late # {} => raised # "no"
         /\ chosen \in Devices \cup {"none"} /\ (script[pc].toChosen => chosen \in Devices)
    /\ outcome = "running" =>
         /\ script[pc].at \in CancelLabels => raised # "no"
         /\ script[pc].op = "cmd" => open = {1}
         /\ script[pc].op = "pair" => open \subseteq {1, 2}
         /\ script[pc].op \in {"check", "pick"} => sample \in 1..Len(script[pc].what)
         /\ script[pc].op = "wait" => sample \in 0..Len(script[pc].what)

(* The devices whose stale events the preflight has read.                  *)
Read == IF pc = 1 THEN {} ELSE IF pc > 2 THEN Devices ELSE IF sample = 2 THEN {First} ELSE {}

(* What may be under way or unread when the runner is at a step, as device *)
(* and event type: in a pair what was accepted, while it waits what it     *)
(* waits for in this step and the next.                                    *)
IsFind(i) == i \in 1..Len(script) /\ script[i].op = "wait" /\ script[i].what[1].kind = "find"
Looked(i) == <<Resolved(script[i]).what[1].on, script[i].what[1].types>>
Aimed(c) == <<Destination(c), {Shown(c)}>>
DueAt(p, o) ==
    IF script[p].op = "pair" THEN {Aimed(script[p].what[i]) : i \in {1, 2} \ o}
    ELSE IF IsFind(p) THEN {Looked(i) : i \in {j \in {p, p + 1} : IsFind(j)}}
    ELSE {}
Due == IF outcome = "running" THEN DueAt(pc, open) ELSE {}

EventTypes == Evidence \cup {"unstable", "connectFailed", "other", "invoke"}
Holding(d, type) == \E k \in DOMAIN unread[d] : unread[d][k] = type

(* Every message under way is due and no two are alike; events of messages *)
(* are due, and are not unread while their message is under way.           *)
Fits(due, read) ==
    /\ due # {} => read = Devices
    /\ \A d \in read : unread[d] \in Seq(EventTypes) /\ Len(unread[d]) =< MaxHistory
    /\ \A m \in inflight : m.to \in Devices /\ <<m.to, {Shown(m)}>> \in due
    /\ \A m, n \in inflight : m.to = n.to /\ Shown(m) = Shown(n) => m = n
    /\ \A d \in read, type \in Tracked : Holding(d, type) => <<d, {type}>> \in due
    /\ \A m \in inflight : ~Holding(m.to, Shown(m))

(* What is due is under way or unread, or was evicted.                     *)
Awaited(due) ==
    \A p \in due : p[2] # {"durable"} =>
        \/ \E m \in inflight : <<m.to, {Shown(m)}>> = p
        \/ \E type \in p[2] : Holding(p[1], type)
        \/ p[1] \in missed

MatchedInv == Live /\ scenario \notin Counted => Fits(Due, Read) /\ Awaited(Due)

(* What was read, what is unread and what is under way was sent.           *)
Unseen == Matching(Second, {"directMessageReceived"})
Accounted ==
    /\ unread[Second] \in Seq(EventTypes)
    /\ received + Cardinality(Unseen) + Cardinality(inflight) =< sends
CountInv ==
    Live /\ scenario \in Counted =>
        /\ sends \in Nat /\ received \in Nat /\ IsFiniteSet(inflight)
        /\ \A m \in inflight : m.name = "sendReliable" /\ m.to = Second
        /\ outcome # "running" => inflight = {}
        /\ outcome = "running" /\ pc =< 2 => inflight = {} /\ sends = 0 /\ received = 0
        /\ outcome = "running" /\ pc > 2 => Accounted

MainInv ==
    /\ plan \in Seq(Scenarios) /\ results \in Seq({"passed", "failed", "blocked"})
    /\ exit = "none" => Len(results) < Len(plan) /\ \A i \in DOMAIN results : results[i] # "failed"
    /\ exit \in {"none", "0", "1", "uncaught"}
    /\ ExitMeansAllPassed

SessionInv == FlowInv /\ MatchedInv /\ CountInv /\ MainInv

-----------------------------------------------------------------------------
(* What the steps look like.                                               *)

(* A step that waits for one event of a type at a device.                  *)
Finds(t, d, type) ==
    /\ Plain(t) /\ t.op = "wait" /\ Len(t.what) = 1 /\ t.what[1].kind = "find" /\ t.what[1].types = {type}
    /\ Plain(Resolved(t)) /\ Resolved(t).op = "wait" /\ Len(Resolved(t).what) = 1
    /\ Resolved(t).what[1] = Events("find", d, {type})

LEMMA WaitFinds == ASSUME NEW d, NEW type, NEW t, t = WaitForEvent(d, type) PROVE Finds(t, d, type) /\ ~t.toChosen
<1> DEFINE e == Events("find", d, {type})
           w == <<e>>
<1>1. Simple(t, "wait", w)
  BY StepIs DEF WaitForEvent
<1>2. e.kind = "find" /\ e.types = {type}
  BY DEF Events
<1> HIDE DEF e
<1>3. Len(w) = 1 /\ w[1] = e
  OBVIOUS
<1> HIDE DEF w
<1>4. t.op = "wait" /\ t.what = w /\ Plain(t) /\ ~t.toChosen
  BY <1>1 DEF Simple
<1>5. Resolved(t) = t
  BY <1>4 DEF Resolved
<1> QED
  BY <1>2, <1>3, <1>4, <1>5 DEF Finds, e

(* A step about the chosen device.                                         *)
Directed(t, verb, c, x) ==
    /\ Plain(t) /\ t.op = verb /\ t.what = <<c>> /\ t.toChosen
    /\ LET r == Resolved(t)
       IN  Plain(r) /\ r.op = verb /\ r.what = <<x>> /\ ~r.swallow

LEMMA ChosenIs ==
    ASSUME NEW verb, NEW c, NEW x, x = [c EXCEPT !.on = chosen],
           NEW t, t = AtChosen(Step(verb, <<c>>))
    PROVE  Directed(t, verb, c, x)
<1> DEFINE r == Resolved(t)
           w == [i \in DOMAIN t.what |-> [t.what[i] EXCEPT !.on = chosen]]
<1>1. Plain(t) /\ t.op = verb /\ t.what = <<c>> /\ t.toChosen
  BY DEF Plain, AtChosen, Step
<1>2. r = [t EXCEPT !.what = w]
  BY <1>1 DEF Resolved
<1>3. w = <<x>>
  <2>1. DOMAIN t.what = {1} /\ t.what[1] = c
    BY <1>1
  <2>2. w = [i \in {1} |-> x]
    BY <2>1
  <2>3. [i \in {1} |-> x] = <<x>>
    <3>1. {1} = 1..1
      OBVIOUS
    <3>2. <<x>> = [i \in 1..1 |-> x]
      OBVIOUS
    <3> QED
      BY <3>1, <3>2
  <2> QED
    BY <2>2, <2>3
<1> HIDE DEF w, r
<1>4. Plain(r) /\ r.op = verb /\ r.what = w /\ ~r.swallow
  BY <1>2 DEF Plain, AtChosen, Step
<1> QED
  BY <1>1, <1>3, <1>4 DEF Directed, r

LEMMA ChosenWaitFinds ==
    ASSUME NEW d, NEW type, NEW t, t = AtChosen(WaitForEvent(d, type))
    PROVE  Finds(t, chosen, type) /\ t.toChosen
<1> DEFINE e == Events("find", d, {type})
           x == Events("find", chosen, {type})
<1>1. e.kind = "find" /\ e.types = {type}
  BY DEF Events
<1>2. x = [e EXCEPT !.on = chosen]
  BY DEF Events
<1>3. t = AtChosen(Step("wait", <<e>>))
  BY DEF WaitForEvent
<1> HIDE DEF e, x
<1>4a. Directed(t, "wait", e, x)
  BY <1>2, <1>3, ChosenIs
<1>4. /\ Plain(t) /\ t.op = "wait" /\ t.what = <<e>> /\ t.toChosen
      /\ Plain(Resolved(t)) /\ Resolved(t).op = "wait" /\ Resolved(t).what = <<x>>
  BY <1>4a DEF Directed
<1>5. Len(<<e>>) = 1 /\ <<e>>[1] = e /\ Len(<<x>>) = 1 /\ <<x>>[1] = x
  OBVIOUS
<1> QED
  BY <1>1, <1>4, <1>5 DEF Finds, x

(* A step that submits the command c.                                      *)
Submits(t, c) ==
    /\ Plain(t) /\ t.op = "cmd" /\ DOMAIN t.what = {1}
    /\ Plain(Resolved(t)) /\ Resolved(t).op = "cmd" /\ Resolved(t).what = <<c>> /\ ~Resolved(t).swallow

LEMMA CmdSubmits ==
    ASSUME NEW c, NEW t, t = Cmd(c)
    PROVE  Submits(t, c) /\ ~t.toChosen /\ t.what = <<c>>
<1>1. Simple(t, "cmd", <<c>>)
  BY StepIs DEF Cmd
<1>2. t.op = "cmd" /\ t.what = <<c>> /\ Plain(t) /\ ~t.toChosen /\ ~t.swallow
  BY <1>1 DEF Simple
<1>3. Resolved(t) = t
  BY <1>2 DEF Resolved
<1>4. DOMAIN <<c>> = {1}
  OBVIOUS
<1> QED
  BY <1>2, <1>3, <1>4 DEF Submits

LEMMA ChosenSubmits ==
    ASSUME NEW name, NEW d, NEW e, NEW t, t = AtChosen(Cmd(To(name, d, e)))
    PROVE  Submits(t, To(name, chosen, e)) /\ t.toChosen
<1> DEFINE c == To(name, d, e)
           x == To(name, chosen, e)
<1>1. x = [c EXCEPT !.on = chosen]
  BY DEF To, Command
<1>2. t = AtChosen(Step("cmd", <<c>>))
  BY DEF Cmd
<1> HIDE DEF c, x
<1>3a. Directed(t, "cmd", c, x)
  BY <1>1, <1>2, ChosenIs
<1>3. /\ Plain(t) /\ t.op = "cmd" /\ t.what = <<c>> /\ t.toChosen
      /\ Plain(Resolved(t)) /\ Resolved(t).op = "cmd" /\ Resolved(t).what = <<x>> /\ ~Resolved(t).swallow
  BY <1>3a DEF Directed
<1>4. DOMAIN <<c>> = {1}
  OBVIOUS
<1> QED
  BY <1>3, <1>4 DEF Submits, x

(* The script of the scenario.                                             *)
LEMMA ScriptIs ==
    ASSUME scenario \in Scenarios
    PROVE  /\ Len(script) \in Nat /\ DOMAIN script = 1..Len(script) /\ Len(script) > 2
           /\ script[1] = Preflight[1] /\ script[2] = Preflight[2]
           /\ \A i \in 1..Len(script) : Allowed(script, i, scenario \in Counted)
           /\ scenario \in Counted => EndsCounting(script)
<1>1. WellFormed(script, scenario \in Counted)
  BY ScriptsAre DEF script
<1>2. IsSeq(script, Len(script))
  BY <1>1 DEF WellFormed, Fragment
<1> QED
  BY <1>1, <1>2, SeqDomain DEF WellFormed, Fragment

(* Where messages are sent and what follows.                               *)
One(k, c) ==
    /\ Submits(script[k], c) /\ script[k].what = <<c>> /\ ~script[k].toChosen
    /\ c.name \in {"sendReliable", "sendGroup"} /\ c.on \in Devices /\ c.arg \in Devices
    /\ k + 1 \in 1..Len(script) /\ Finds(script[k + 1], c.arg, Shown(c)) /\ ~script[k + 1].toChosen
Both == <<To("sendGroup", First, Second), To("sendGroup", Second, First)>>
Two(k) ==
    /\ Simple(script[k], "pair", Both)
    /\ k + 1 \in 1..Len(script) /\ Finds(script[k + 1], Second, "groupMessageReceived")
    /\ k + 2 \in 1..Len(script) /\ Finds(script[k + 2], First, "groupMessageReceived")
    /\ ~script[k + 1].toChosen /\ ~script[k + 2].toChosen
Publication1 == To("publishCheckpoint", chosen, First)
Three(k) ==
    /\ k > 1 /\ script[k - 1].op = "pick"
    /\ Submits(script[k], Publication1) /\ script[k].toChosen
    /\ k + 1 \in 1..Len(script) /\ Finds(script[k + 1], chosen, "checkpointAccepted")
    /\ k + 2 \in 1..Len(script) /\ Finds(script[k + 2], chosen, "durable")
    /\ script[k + 1].toChosen /\ script[k + 2].toChosen

LEMMA OneIs ==
    ASSUME NEW k \in 1..Len(script), SendsOne(script, k)
    PROVE  \E c : One(k, c)
<1>1. PICK name \in {"sendReliable", "sendGroup"}, d \in Devices, e \in Devices :
         /\ script[k] = Cmd(To(name, d, e))
         /\ script[k + 1] = WaitForEvent(e, Shown(To(name, d, e)))
  BY DEF SendsOne
<1> DEFINE c == To(name, d, e)
           x == script[k]
           y == script[k + 1]
<1>2. c.name = name /\ c.on = d /\ c.arg = e
  BY DEF To, Command
<1>3. x = Cmd(c) /\ y = WaitForEvent(e, Shown(c))
  BY <1>1
<1> HIDE DEF c, x, y
<1>4. Submits(x, c) /\ ~x.toChosen /\ x.what = <<c>>
  BY <1>3, CmdSubmits
<1>5. Finds(y, e, Shown(c)) /\ ~y.toChosen
  BY <1>3, WaitFinds
<1>6. k + 1 \in 1..Len(script)
  BY DEF SendsOne
<1>7. One(k, c)
  BY <1>2, <1>4, <1>5, <1>6 DEF One, x, y
<1> QED
  BY <1>7

LEMMA TwoIs == ASSUME NEW k \in 1..Len(script), k \in Nat, Len(script) \in Nat, SendsTwo(script, k) PROVE Two(k)
<1> DEFINE x == script[k]
           y == script[k + 1]
           z == script[k + 2]
<1>1. k + 2 \in 1..Len(script)
  BY DEF SendsTwo
<1>2. k + 1 \in 1..Len(script)
  BY <1>1
<1>3. x = Step("pair", Both) /\ y = WaitForEvent(Second, "groupMessageReceived")
      /\ z = WaitForEvent(First, "groupMessageReceived")
  BY DEF SendsTwo, Both
<1> HIDE DEF x, y, z
<1>4. Simple(x, "pair", Both)
  BY <1>3, StepIs
<1>5. /\ Finds(y, Second, "groupMessageReceived") /\ ~y.toChosen
      /\ Finds(z, First, "groupMessageReceived") /\ ~z.toChosen
  BY <1>3, WaitFinds
<1> QED
  BY <1>1, <1>2, <1>4, <1>5 DEF Two, x, y, z

LEMMA ThreeIs == ASSUME NEW k \in 1..Len(script), k \in Nat, Len(script) \in Nat, Publishes(script, k) PROVE Three(k)
<1> DEFINE x == script[k]
           y == script[k + 1]
           z == script[k + 2]
<1>1. k + 2 \in 1..Len(script) /\ k > 1 /\ script[k - 1].op = "pick"
  BY DEF Publishes
<1>2. k + 1 \in 1..Len(script)
  BY <1>1
<1>3. /\ x = AtChosen(Cmd(To("publishCheckpoint", First, First)))
      /\ y = AtChosen(WaitForEvent(First, "checkpointAccepted"))
      /\ z = AtChosen(WaitForEvent(First, "durable"))
  BY DEF Publishes
<1> HIDE DEF x, y, z
<1>4. Submits(x, Publication1) /\ x.toChosen
  BY <1>3, ChosenSubmits DEF Publication1
<1>5. /\ Finds(y, chosen, "checkpointAccepted") /\ y.toChosen
      /\ Finds(z, chosen, "durable") /\ z.toChosen
  BY <1>3, ChosenWaitFinds
<1> QED
  BY <1>1, <1>2, <1>4, <1>5 DEF Three, x, y, z

(* A place where the runner looks for an event follows a sender.           *)
Sender(k) == (\E c : One(k, c)) \/ Two(k) \/ Three(k)
Follows(p) ==
    \E k \in 1..Len(script) :
        \/ p = k + 1 /\ Sender(k)
        \/ p = k + 2 /\ (Two(k) \/ Three(k))

LEMMA FindsAre ==
    ASSUME scenario \in Scenarios, NEW p \in 1..Len(script),
           FindsFirst(script, p) \/ FindsSecond(script, p)
    PROVE  Follows(p) /\ IsFind(p)
<1>0. Len(script) \in Nat /\ p \in Nat /\ 1 =< p /\ p =< Len(script)
  BY ScriptIs
<1>1. CASE FindsFirst(script, p)
  <2>1. PICK k \in Nat : p = k + 1 /\ k = p - 1 /\ k \in 1..Len(script)
    BY <1>0, <1>1 DEF FindsFirst
  <2>2. SendsOne(script, k) \/ SendsTwo(script, k) \/ Publishes(script, k)
    BY <1>1, <2>1 DEF FindsFirst
  <2>3. Sender(k)
    BY <1>0, <2>1, <2>2, OneIs, TwoIs, ThreeIs DEF Sender
  <2>4. \E d, type : Finds(script[k + 1], d, type)
    BY <2>3 DEF Sender, One, Two, Three
  <2>5. \E d, type : Finds(script[p], d, type)
    BY <2>1, <2>4
  <2>6. IsFind(p)
    BY <2>5 DEF IsFind, Finds
  <2> QED
    BY <2>1, <2>3, <2>6 DEF Follows
<1>2. CASE FindsSecond(script, p)
  <2>1. PICK k \in Nat : p = k + 2 /\ k = p - 2 /\ k \in 1..Len(script)
    BY <1>0, <1>2 DEF FindsSecond
  <2>2. SendsTwo(script, k) \/ Publishes(script, k)
    BY <1>2, <2>1 DEF FindsSecond
  <2>3. Two(k) \/ Three(k)
    BY <1>0, <2>1, <2>2, TwoIs, ThreeIs
  <2>4. \E d, type : Finds(script[k + 2], d, type)
    BY <2>3 DEF Two, Three
  <2>5. \E d, type : Finds(script[p], d, type)
    BY <2>1, <2>4
  <2>6. IsFind(p)
    BY <2>5 DEF IsFind, Finds
  <2> QED
    BY <2>1, <2>3, <2>6 DEF Follows
<1> QED
  BY <1>1, <1>2

LEMMA UnrelatedIsNoFind ==
    ASSUME NEW p, Unrelated(script[p])
    PROVE  ~IsFind(p)
<1>1. Len(script[p].what) \in Nat
  BY SeqDomain DEF Unrelated, Conditions
<1>2. 1 \in 1..Len(script[p].what)
  BY <1>1 DEF Unrelated, Conditions
<1>3. script[p].what[1].kind \notin {"find", "collect"}
  BY <1>2 DEF Unrelated
<1> QED
  BY <1>3 DEF IsFind

(* A step that is no such wait: the kinds.                                 *)
Aside(p) ==
    \/ Neutral(script[p]) \/ Guarded(script, p) \/ Cancels(script, p) \/ Rethrows(script[p])
    \/ Stops(script[p]) \/ Picks(script, p)

LEMMA KindsAre ==
    ASSUME scenario \in Scenarios, scenario \notin Counted, NEW p \in 1..Len(script)
    PROVE  \/ Aside(p)
           \/ (\E c : One(p, c)) \/ Two(p) \/ Three(p)
           \/ Follows(p) /\ IsFind(p)
<1>1. Allowed(script, p, FALSE)
  <2>1. Allowed(script, p, scenario \in Counted) /\ (scenario \in Counted) = FALSE
    BY ScriptIs
  <2> QED
    BY <2>1
<1>2. p \in Nat /\ Len(script) \in Nat
  BY ScriptIs
<1>3. SendsOne(script, p) => \E c : One(p, c)
  BY OneIs
<1>4. SendsTwo(script, p) => Two(p)
  BY <1>2, TwoIs
<1>5. Publishes(script, p) => Three(p)
  BY <1>2, ThreeIs
<1>6. FindsFirst(script, p) \/ FindsSecond(script, p) => Follows(p) /\ IsFind(p)
  BY FindsAre
<1> QED
  BY <1>1, <1>3, <1>4, <1>5, <1>6 DEF Allowed, Aside

LEMMA AsideIsNoFind == ASSUME NEW p, Aside(p) PROVE ~IsFind(p)
BY UnrelatedIsNoFind DEF Aside, Neutral, Guarded, Cancels, Rethrows, Stops, Picks, IsFind

(* The operations of the kinds.                                            *)
LEMMA SenderOps ==
    ASSUME NEW k
    PROVE  /\ (\E c : One(k, c)) => script[k].op = "cmd" /\ ~script[k].toChosen /\ script[k + 1].op = "wait"
           /\ Two(k) => script[k].op = "pair" /\ script[k + 1].op = "wait" /\ script[k + 2].op = "wait"
           /\ Three(k) => script[k].op = "cmd" /\ script[k].toChosen /\ script[k + 1].op = "wait"
                          /\ script[k + 2].op = "wait"
BY DEF One, Two, Three, Submits, Finds, Simple

LEMMA SenderIsNoFind == ASSUME NEW k, Sender(k) PROVE ~IsFind(k)
BY SenderOps DEF Sender, IsFind

(* A place to look for an event follows a sender.                          *)
LEMMA FindFollows ==
    ASSUME scenario \in Scenarios, scenario \notin Counted, NEW p, IsFind(p)
    PROVE  p \in 1..Len(script) /\ Follows(p)
<1>1. p \in 1..Len(script)
  BY DEF IsFind
<1>2. ~Aside(p) /\ ~Sender(p)
  BY AsideIsNoFind, SenderIsNoFind
<1> QED
  BY <1>1, <1>2, KindsAre DEF Sender

-----------------------------------------------------------------------------
(* What is due at a place.                                                 *)

LEMMA AsideIsNoSender == ASSUME NEW p, Aside(p) PROVE ~Sender(p)
<1>1. ASSUME NEW c, One(p, c) PROVE FALSE
  <2>1. script[p].op = "cmd" /\ script[p].what = <<c>> /\ c.name \in Sending
    BY <1>1 DEF One, Submits, Sending
  <2>2. script[p].what[1].name \in Sending
    BY <2>1
  <2> QED
    BY <2>1, <2>2 DEF Aside, Neutral, Guarded, Cancels, Rethrows, Stops, Picks
<1>2. ~Two(p)
  BY DEF Two, Simple, Aside, Neutral, Guarded, Cancels, Rethrows, Stops, Picks
<1>3. ~Three(p)
  BY DEF Three, Submits, Aside, Neutral, Guarded, Cancels, Rethrows, Stops, Picks
<1> QED
  BY <1>1, <1>2, <1>3 DEF Sender

LEMMA NextNoFind ==
    ASSUME scenario \in Scenarios, scenario \notin Counted, NEW p \in 1..Len(script), Aside(p)
    PROVE  ~IsFind(p + 1)
<1>1. SUFFICES ASSUME IsFind(p + 1) PROVE FALSE
  OBVIOUS
<1>2. Follows(p + 1)
  BY <1>1, FindFollows
<1>3. PICK k \in 1..Len(script) :
          \/ p + 1 = k + 1 /\ Sender(k)
          \/ p + 1 = k + 2 /\ (Two(k) \/ Three(k))
  BY <1>2 DEF Follows
<1>4. p \in Nat /\ k \in Nat /\ Len(script) \in Nat
  BY ScriptIs
<1>5. ~Sender(p) /\ ~IsFind(p)
  BY AsideIsNoSender, AsideIsNoFind
<1>6. CASE p + 1 = k + 1 /\ Sender(k)
  BY <1>4, <1>5, <1>6
<1>7. CASE p + 1 = k + 2 /\ (Two(k) \/ Three(k))
  <2>1. p = k + 1
    BY <1>4, <1>7
  <2>2. \E d, type : Finds(script[k + 1], d, type)
    BY <1>7 DEF Two, Three
  <2>3. \E d, type : Finds(script[p], d, type)
    BY <2>1, <2>2
  <2>4. IsFind(p)
    BY <2>3 DEF IsFind, Finds
  <2> QED
    BY <1>5, <2>4
<1> QED
  BY <1>3, <1>6, <1>7

LEMMA NoFindAfter ==
    ASSUME scenario \in Scenarios, scenario \notin Counted, NEW k \in 1..Len(script)
    PROVE  /\ (\E c : One(k, c)) => ~IsFind(k + 2)
           /\ Two(k) \/ Three(k) => ~IsFind(k + 3)
<1>0. k \in Nat /\ Len(script) \in Nat
  BY ScriptIs
<1>1. ASSUME NEW j \in Nat, script[j].op = "wait" PROVE ~Sender(j)
  BY <1>1, SenderOps DEF Sender
<1>2. ASSUME \E c : One(k, c), IsFind(k + 2) PROVE FALSE
  <2>1. Follows(k + 2)
    BY <1>2, FindFollows
  <2>2. PICK j \in 1..Len(script) :
            \/ k + 2 = j + 1 /\ Sender(j)
            \/ k + 2 = j + 2 /\ (Two(j) \/ Three(j))
    BY <2>1 DEF Follows
  <2>3. j \in Nat /\ (k + 2 = j + 1 => j = k + 1) /\ (k + 2 = j + 2 => j = k)
    BY <1>0
  <2>4. script[k + 1].op = "wait"
    BY <1>2, SenderOps
  <2>5. CASE k + 2 = j + 1 /\ Sender(j)
    BY <1>1, <2>3, <2>4, <2>5
  <2>6. CASE k + 2 = j + 2 /\ (Two(j) \/ Three(j))
    <3>1. script[k].op = "cmd" /\ ~script[k].toChosen
      BY <1>2, SenderOps
    <3>2. Two(k) \/ Three(k)
      BY <2>3, <2>6
    <3> QED
      BY <3>1, <3>2, SenderOps
  <2> QED
    BY <2>2, <2>5, <2>6
<1>3. ASSUME Two(k) \/ Three(k), IsFind(k + 3) PROVE FALSE
  <2>1. Follows(k + 3)
    BY <1>3, FindFollows
  <2>2. PICK j \in 1..Len(script) :
            \/ k + 3 = j + 1 /\ Sender(j)
            \/ k + 3 = j + 2 /\ (Two(j) \/ Three(j))
    BY <2>1 DEF Follows
  <2>3. j \in Nat /\ (k + 3 = j + 1 => j = k + 2) /\ (k + 3 = j + 2 => j = k + 1)
    BY <1>0
  <2>4. script[k + 1].op = "wait" /\ script[k + 2].op = "wait"
    BY <1>3, SenderOps
  <2>5. script[j].op = "wait"
    BY <2>2, <2>3, <2>4
  <2>6. ~Sender(j)
    BY <1>1, <2>3, <2>5
  <2> QED
    BY <2>2, <2>6 DEF Sender
<1> QED
  BY <1>2, <1>3

LEMMA FreshDue ==
    ASSUME NEW p, ~IsFind(p), NEW o, script[p].op = "pair" => o = {1, 2}
    PROVE  DueAt(p, o) = {}
BY DEF DueAt

LEMMA LookedIs ==
    ASSUME NEW p, p \in 1..Len(script), NEW d, NEW type, Finds(script[p], d, type)
    PROVE  IsFind(p) /\ Looked(p) = <<d, {type}>> /\ script[p].op # "pair"
<1>1. Resolved(script[p]).what[1].on = d
  BY DEF Finds, Events
<1>2. script[p].what[1].types = {type}
  BY DEF Finds
<1> QED
  BY <1>1, <1>2 DEF IsFind, Looked, Finds

LEMMA FindDue ==
    ASSUME NEW p, IsFind(p), NEW o
    PROVE  DueAt(p, o) = IF IsFind(p + 1) THEN {Looked(p), Looked(p + 1)} ELSE {Looked(p)}
<1>1. script[p].op # "pair"
  BY DEF IsFind
<1>2. DueAt(p, o) = {Looked(i) : i \in {j \in {p, p + 1} : IsFind(j)}}
  BY <1>1 DEF DueAt
<1> HIDE DEF Looked
<1>3. CASE IsFind(p + 1)
  <2>1. {j \in {p, p + 1} : IsFind(j)} = {p, p + 1}
    BY <1>3
  <2> QED
    BY <1>2, <1>3, <2>1
<1>4. CASE ~IsFind(p + 1)
  <2>1. {j \in {p, p + 1} : IsFind(j)} = {p}
    BY <1>4
  <2> QED
    BY <1>2, <1>4, <2>1
<1> QED
  BY <1>3, <1>4

(* What is due behind a sender, and behind the first wait for it.          *)
LEMMA OneDue ==
    ASSUME scenario \in Scenarios, scenario \notin Counted, NEW k \in 1..Len(script),
           NEW c, One(k, c), NEW o
    PROVE  /\ DueAt(k + 1, o) = {<<c.arg, {Shown(c)}>>} /\ IsFind(k + 1) /\ ~IsFind(k + 2)
           /\ Looked(k + 1) = <<c.arg, {Shown(c)}>>
<1>1. PICK p \in Nat : p = k + 1 /\ p + 1 = k + 2
  <2>1. k \in Nat
    BY ScriptIs
  <2> QED
    BY <2>1
<1>2. p \in 1..Len(script) /\ Finds(script[p], c.arg, Shown(c))
  BY <1>1 DEF One
<1>3. IsFind(p) /\ Looked(p) = <<c.arg, {Shown(c)}>>
  BY <1>2, LookedIs
<1>4. ~IsFind(p + 1)
  BY <1>1, NoFindAfter
<1>5. DueAt(p, o) = {Looked(p)}
  BY <1>3, <1>4, FindDue
<1> QED
  BY <1>1, <1>3, <1>4, <1>5

(* Behind a sender of two.                                                 *)
Pending(k, d, e, x, y) ==
    /\ IsFind(k + 1) /\ IsFind(k + 2) /\ ~IsFind(k + 3)
    /\ Looked(k + 1) = <<d, {x}>> /\ Looked(k + 2) = <<e, {y}>>
    /\ \A o : DueAt(k + 1, o) = {<<d, {x}>>, <<e, {y}>>} /\ DueAt(k + 2, o) = {<<e, {y}>>}

LEMMA PendingFrom ==
    ASSUME scenario \in Scenarios, scenario \notin Counted, NEW k \in 1..Len(script),
           Two(k) \/ Three(k), NEW d, NEW e, NEW x, NEW y,
           k + 1 \in 1..Len(script), Finds(script[k + 1], d, x),
           k + 2 \in 1..Len(script), Finds(script[k + 2], e, y)
    PROVE  Pending(k, d, e, x, y)
<1>1. PICK p \in Nat, q \in Nat : p = k + 1 /\ p + 1 = q /\ q = k + 2 /\ q + 1 = k + 3
  <2>1. k \in Nat
    BY ScriptIs
  <2> QED
    BY <2>1
<1>2. IsFind(p) /\ Looked(p) = <<d, {x}>>
  <2>1. p \in 1..Len(script) /\ Finds(script[p], d, x)
    BY <1>1
  <2> QED
    BY <2>1, LookedIs
<1>3. IsFind(q) /\ Looked(q) = <<e, {y}>>
  BY <1>1, LookedIs
<1>4. ~IsFind(q + 1)
  BY <1>1, NoFindAfter
<1>5. \A o : DueAt(p, o) = {Looked(p), Looked(p + 1)}
  BY <1>1, <1>2, <1>3, FindDue
<1>6. \A o : DueAt(q, o) = {Looked(q)}
  BY <1>3, <1>4, FindDue
<1> QED
  BY <1>1, <1>2, <1>3, <1>4, <1>5, <1>6 DEF Pending

LEMMA TwoDue ==
    ASSUME scenario \in Scenarios, scenario \notin Counted, NEW k \in 1..Len(script), Two(k)
    PROVE  Pending(k, Second, First, "groupMessageReceived", "groupMessageReceived")
BY PendingFrom DEF Two

LEMMA ThreeDue ==
    ASSUME scenario \in Scenarios, scenario \notin Counted, NEW k \in 1..Len(script), Three(k)
    PROVE  Pending(k, chosen, chosen, "checkpointAccepted", "durable")
BY PendingFrom DEF Three

(* Where the runner looks for an event, it is due; another one that is due *)
(* is looked for next, and is of another device or the completion.         *)
Searches(p, d, type) ==
    /\ Finds(script[p], d, type) /\ type \in Tracked \cup {"checkpointAccepted"}
    /\ \A o : <<d, {type}>> \in DueAt(p, o)
    /\ ~IsFind(p + 1) => \A o : DueAt(p, o) = {<<d, {type}>>}
    /\ IsFind(p + 1) => \A o, r : DueAt(p + 1, r) \subseteq DueAt(p, o)
                                  /\ DueAt(p, o) \subseteq DueAt(p + 1, r) \cup {<<d, {type}>>}
    /\ \A o : \A q \in DueAt(p, o) :
           /\ q = <<d, {type}>> \/ q[1] # d \/ q[2] = {"durable"}
           /\ IsFind(p + 1) /\ q \in DueAt(p + 1, o) => q[1] # d \/ q[2] = {"durable"}

LEMMA FindSearches ==
    ASSUME scenario \in Scenarios, scenario \notin Counted, NEW p, IsFind(p)
    PROVE  \E d, type : Searches(p, d, type)
<1>1. PICK k \in 1..Len(script) :
          \/ p = k + 1 /\ Sender(k)
          \/ p = k + 2 /\ (Two(k) \/ Three(k))
  BY FindFollows DEF Follows
<1>2. k \in Nat
  BY ScriptIs
<1>3. First # Second /\ "groupMessageReceived" # "durable"
  BY DevicesAre
<1>4. CASE \E c : One(k, c) /\ p = k + 1
  <2>1. PICK c : One(k, c) /\ p = k + 1
    BY <1>4
  <2>2. ~IsFind(p + 1) /\ \A o : DueAt(p, o) = {<<c.arg, {Shown(c)}>>}
    <3>1. p + 1 = k + 2
      BY <1>2, <2>1
    <3> QED
      BY <2>1, <3>1, OneDue
  <2>3. Finds(script[p], c.arg, Shown(c)) /\ Shown(c) \in Tracked
    BY <2>1 DEF One, Shown, Tracked
  <2>4. Searches(p, c.arg, Shown(c))
    BY <2>2, <2>3 DEF Searches
  <2> QED
    BY <2>4
<1>5. ASSUME NEW d, NEW e, NEW x, NEW y, Pending(k, d, e, x, y), p = k + 1,
             Finds(script[p], d, x), x \in Tracked \cup {"checkpointAccepted"},
             d # e \/ (y = "durable" /\ x # "durable")
      PROVE  Searches(p, d, x)
  <2>1. p + 1 = k + 2
    BY <1>2, <1>5
  <2>2. IsFind(p + 1) /\ \A o : DueAt(p, o) = {<<d, {x}>>, <<e, {y}>>} /\ DueAt(p + 1, o) = {<<e, {y}>>}
    BY <1>5, <2>1 DEF Pending
  <2> QED
    BY <1>5, <2>2 DEF Searches
<1>6. ASSUME NEW d, NEW e, NEW x, NEW y, Pending(k, d, e, x, y), p = k + 2,
             Finds(script[p], e, y), y \in Tracked
      PROVE  Searches(p, e, y)
  <2>1. p + 1 = k + 3
    BY <1>2, <1>6
  <2>2. ~IsFind(p + 1) /\ \A o : DueAt(p, o) = {<<e, {y}>>}
    BY <1>6, <2>1 DEF Pending
  <2> QED
    BY <1>6, <2>2 DEF Searches
<1>7. CASE Two(k) /\ p = k + 1
  <2>1. Searches(p, Second, "groupMessageReceived")
    BY <1>3, <1>5, <1>7, TwoDue DEF Two, Tracked
  <2> QED
    BY <2>1
<1>8. CASE Two(k) /\ p = k + 2
  <2>1. Searches(p, First, "groupMessageReceived")
    BY <1>6, <1>8, TwoDue DEF Two, Tracked
  <2> QED
    BY <2>1
<1>9. CASE Three(k) /\ p = k + 1
  <2>1. Searches(p, chosen, "checkpointAccepted")
    BY <1>5, <1>9, ThreeDue DEF Three
  <2> QED
    BY <2>1
<1>10. CASE Three(k) /\ p = k + 2
  <2>1. Searches(p, chosen, "durable")
    BY <1>6, <1>10, ThreeDue DEF Three, Tracked
  <2> QED
    BY <2>1
<1> QED
  BY <1>1, <1>4, <1>7, <1>8, <1>9, <1>10 DEF Sender

-----------------------------------------------------------------------------
(* Where a step leads.                                                     *)

(* A label is one, and its step is of its kind.                            *)
LEMMA LeadsTo ==
    ASSUME scenario \in Scenarios, NEW x, NEW labels \in {CancelLabels, DoneLabels}, Leads(script, x, labels)
    PROVE  /\ x # "end" /\ x # "next" /\ Jump(x) \in 1..Len(script) /\ script[Jump(x)].at \in labels
<1>1. PICK j \in 1..Len(script) : script[j].at = x /\ x \in labels
  BY DEF Leads
<1>2. DOMAIN script = 1..Len(script)
  BY ScriptIs
<1>3. Jump(x) \in DOMAIN script /\ script[Jump(x)].at = x
  BY <1>1, <1>2 DEF Jump
<1> QED
  BY <1>1, <1>2, <1>3 DEF CancelLabels, DoneLabels

(* The shape of a step of operation "cmd", "pair" and so on.               *)
Shape(p) ==
    LET t == script[p]
    IN  /\ Plain(t) \/ Guarded(script, p) \/ Cancels(script, p) \/ Rethrows(t)
        /\ t.op \in {"check", "wait", "note", "compare", "block", "cmd", "pair", "reraise", "pick"}
        /\ t.op = "cmd" => DOMAIN t.what = {1}
        /\ t.op = "pair" => DOMAIN t.what = {1, 2} /\ scenario \notin Counted /\ Two(p)
        /\ t.op = "reraise" => Rethrows(t)
        /\ t.op = "pick" => Picks(script, p) /\ scenario \notin Counted
        /\ t.op = "block" => Stops(t) /\ scenario \notin Counted
        /\ t.op \in {"check", "wait", "pick"} => Len(t.what) \in Nat /\ Len(t.what) >= 1
        /\ t.at \in CancelLabels => Cancels(script, p)
        /\ t.at \in DoneLabels => Rethrows(t)
        /\ t.toChosen => scenario \notin Counted /\ (Three(p) \/ (Follows(p) /\ IsFind(p)))

Chosen(t) ==
    LET r == Resolved(t)
    IN  /\ r.op = t.op /\ r.then = t.then /\ r.onFail = t.onFail /\ r.onCrash = t.onCrash
        /\ t.op = "cmd" => DOMAIN r.what = {1}
        /\ t.op \in {"check", "wait", "pick"} => Len(r.what) = Len(t.what)
        /\ ~t.toChosen => r = t

LEMMA ChosenAre ==
    ASSUME NEW t,
           \/ ~t.toChosen /\ (t.op = "cmd" => DOMAIN t.what = {1})
           \/ \E c : Submits(t, c)
           \/ \E d, type : Finds(t, d, type)
    PROVE  Chosen(t)
<1>1. CASE ~t.toChosen /\ (t.op = "cmd" => DOMAIN t.what = {1})
  <2>1. Resolved(t) = t
    BY <1>1 DEF Resolved
  <2> QED
    BY <1>1, <2>1 DEF Chosen
<1>2. ASSUME NEW c, Submits(t, c) PROVE Chosen(t)
  <2>1. DOMAIN <<c>> = {1}
    OBVIOUS
  <2>2. ~t.toChosen => Resolved(t) = t
    BY DEF Resolved
  <2> QED
    BY <1>2, <2>1, <2>2 DEF Chosen, Submits, Plain
<1>3. ASSUME NEW d, NEW type, Finds(t, d, type) PROVE Chosen(t)
  <2>1. ~t.toChosen => Resolved(t) = t
    BY DEF Resolved
  <2> QED
    BY <1>3, <2>1 DEF Chosen, Finds, Plain
<1> QED
  BY <1>1, <1>2, <1>3

LEMMA CondLen ==
    ASSUME NEW t, Conditions(t)
    PROVE  Len(t.what) \in Nat /\ Len(t.what) >= 1
BY SeqDomain DEF Conditions

LEMMA ConnectShapes ==
    ASSUME NEW p, Guarded(script, p) \/ Cancels(script, p) \/ Rethrows(script[p])
    PROVE  Shape(p) /\ Chosen(script[p])
<1>0. \A x : ~(x \in CancelLabels /\ x \in DoneLabels) /\ ~("" \in CancelLabels) /\ ~("" \in DoneLabels)
  BY DEF CancelLabels, DoneLabels
<1>1. CASE Guarded(script, p)
  <2>1. Len(script[p].what) \in Nat /\ Len(script[p].what) >= 1 /\ ~script[p].toChosen
    BY <1>1, CondLen DEF Guarded, Unrelated, Conditions
  <2>2. script[p].at = "" /\ script[p].op = "wait"
    BY <1>1 DEF Guarded
  <2>3. Shape(p)
    BY <1>0, <1>1, <2>1, <2>2 DEF Shape
  <2> QED
    BY <2>1, <2>2, <2>3, ChosenAre
<1>2. CASE Cancels(script, p)
  <2>1. script[p].op = "cmd" /\ script[p].at \in CancelLabels /\ DOMAIN script[p].what = {1} /\ ~script[p].toChosen
    BY <1>2 DEF Cancels, Single
  <2>2. Shape(p)
    BY <1>0, <1>2, <2>1 DEF Shape
  <2> QED
    BY <2>1, <2>2, ChosenAre
<1>3. CASE Rethrows(script[p])
  <2>1. script[p].op = "reraise" /\ script[p].at \in DoneLabels /\ ~script[p].toChosen
    BY <1>3 DEF Rethrows
  <2>2. Shape(p)
    BY <1>0, <1>3, <2>1 DEF Shape
  <2> QED
    BY <2>1, <2>2, ChosenAre
<1> QED
  BY <1>1, <1>2, <1>3

LEMMA PlainShapes ==
    ASSUME NEW p,
           \/ Neutral(script[p])
           \/ scenario \notin Counted /\ (Stops(script[p]) \/ Picks(script, p))
           \/ scenario \in Counted /\ (SendsCounted(script[p]) \/ Tallies(script[p]))
    PROVE  Shape(p) /\ Chosen(script[p])
<1> DEFINE t == script[p]
<1>0. ~("" \in CancelLabels) /\ ~("" \in DoneLabels)
  BY DEF CancelLabels, DoneLabels
<1>1. CASE Neutral(t)
  <2>1. Plain(t) /\ t.at = "" /\ ~t.toChosen
    BY <1>1 DEF Neutral, Plain
  <2>2. /\ t.op \in {"check", "wait", "note", "compare", "cmd"}
        /\ t.op = "cmd" => DOMAIN t.what = {1}
        /\ t.op \in {"check", "wait"} => Conditions(t)
    BY <1>1 DEF Neutral, Unrelated, Single
  <2>3. t.op \in {"check", "wait", "pick"} => Len(t.what) \in Nat /\ Len(t.what) >= 1
    BY <2>2, CondLen
  <2>4. Shape(p)
    BY <1>0, <2>1, <2>2, <2>3 DEF Shape
  <2> QED
    BY <2>1, <2>2, <2>4, ChosenAre
<1>2. CASE scenario \notin Counted /\ Stops(t)
  <2>1. Plain(t) /\ t.at = "" /\ ~t.toChosen /\ t.op = "block"
    BY <1>2 DEF Stops, Plain
  <2>2. Shape(p)
    BY <1>0, <1>2, <2>1 DEF Shape
  <2> QED
    BY <2>1, <2>2, ChosenAre
<1>3. CASE scenario \notin Counted /\ Picks(script, p)
  <2>1. Plain(t) /\ t.at = "" /\ ~t.toChosen /\ t.op = "pick" /\ Conditions(t)
    BY <1>3 DEF Picks, Plain, Unrelated, Conditions
  <2>2. Len(t.what) \in Nat /\ Len(t.what) >= 1
    BY <2>1, CondLen
  <2>3. Shape(p)
    BY <1>0, <1>3, <2>1, <2>2 DEF Shape
  <2> QED
    BY <2>1, <2>3, ChosenAre
<1>4. CASE scenario \in Counted /\ SendsCounted(t)
  <2> DEFINE c == To("sendReliable", First, Second)
  <2>1. t = Cmd(c)
    BY <1>4 DEF SendsCounted
  <2> HIDE DEF c, t
  <2>2. Submits(t, c) /\ ~t.toChosen
    BY <2>1, CmdSubmits
  <2>3. Plain(t) /\ t.at = "" /\ t.op = "cmd" /\ DOMAIN t.what = {1}
    BY <2>2 DEF Submits, Plain
  <2>4. Shape(p)
    BY <1>0, <2>2, <2>3 DEF Shape, t
  <2> QED
    BY <2>2, <2>4, ChosenAre DEF t
<1>5. CASE scenario \in Counted /\ Tallies(t)
  <2>1. Plain(t) /\ t.at = "" /\ t.op \in {"check", "wait"} /\ Conditions(t) /\ ~t.toChosen
    BY <1>5 DEF Tallies, Plain, Conditions
  <2>2. Len(t.what) \in Nat /\ Len(t.what) >= 1
    BY <2>1, CondLen
  <2>3. Shape(p)
    BY <1>0, <2>1, <2>2 DEF Shape
  <2> QED
    BY <2>1, <2>3, ChosenAre
<1> QED
  BY <1>1, <1>2, <1>3, <1>4, <1>5

LEMMA MessageShapes ==
    ASSUME scenario \notin Counted, NEW p,
           (\E c : One(p, c)) \/ Two(p) \/ Three(p) \/ (Follows(p) /\ IsFind(p) /\ \E d, type : Finds(script[p], d, type))
    PROVE  Shape(p) /\ Chosen(script[p])
<1> DEFINE t == script[p]
<1>0. ~("" \in CancelLabels) /\ ~("" \in DoneLabels)
  BY DEF CancelLabels, DoneLabels
<1>1. CASE (\E c : One(p, c)) \/ Three(p)
  <2>1. PICK c : Submits(t, c) /\ (t.toChosen => Three(p))
    BY <1>1 DEF One, Three
  <2>2. Plain(t) /\ t.at = "" /\ t.op = "cmd" /\ DOMAIN t.what = {1}
    BY <2>1 DEF Submits, Plain
  <2>3. Shape(p)
    BY <1>0, <2>1, <2>2 DEF Shape
  <2> QED
    BY <2>1, <2>3, ChosenAre
<1>2. CASE Two(p)
  <2>1. Plain(t) /\ t.at = "" /\ t.op = "pair" /\ t.what = Both /\ ~t.toChosen
    BY <1>2 DEF Two, Simple, Plain
  <2>2. DOMAIN Both = {1, 2}
    BY DEF Both
  <2>3. Shape(p)
    BY <1>0, <1>2, <2>1, <2>2 DEF Shape
  <2> QED
    BY <2>1, <2>3, ChosenAre
<1>3. CASE Follows(p) /\ IsFind(p) /\ \E d, type : Finds(t, d, type)
  <2>1. PICK d, type : Finds(t, d, type)
    BY <1>3
  <2>2. Plain(t) /\ t.at = "" /\ t.op = "wait" /\ Len(t.what) = 1
    BY <2>1 DEF Finds, Plain
  <2>3. Len(t.what) \in Nat /\ Len(t.what) >= 1
    <3>1. 1 \in Nat /\ 1 >= 1
      OBVIOUS
    <3> QED
      BY <2>2, <3>1, Zenon
  <2>4. Shape(p)
    BY <1>0, <1>3, <2>2, <2>3 DEF Shape
  <2> QED
    BY <2>1, <2>4, ChosenAre
<1> QED
  BY <1>1, <1>2, <1>3

LEMMA ShapesAre ==
    ASSUME scenario \in Scenarios, NEW p \in 1..Len(script)
    PROVE  Shape(p) /\ Chosen(script[p])
<1>1. CASE scenario \in Counted
  <2>1. Allowed(script, p, TRUE)
    <3>1. Allowed(script, p, scenario \in Counted) /\ (scenario \in Counted) = TRUE
      BY <1>1, ScriptIs
    <3> QED
      BY <3>1
  <2> QED
    BY <1>1, <2>1, ConnectShapes, PlainShapes DEF Allowed
<1>2. CASE scenario \notin Counted
  <2>1. IsFind(p) => \E d, type : Finds(script[p], d, type)
    BY <1>2, FindSearches DEF Searches
  <2> QED
    BY <1>2, <2>1, KindsAre, ConnectShapes, PlainShapes, MessageShapes DEF Aside
<1> QED
  BY <1>1, <1>2

-----------------------------------------------------------------------------
(* Control.                                                                *)

LEMMA NowIs ==
    ASSUME FlowInv, outcome = "running"
    PROVE  /\ scenario \in Scenarios /\ pc \in 1..Len(script) /\ pc \in Nat /\ Len(script) \in Nat
           /\ Shape(pc) /\ raised \in {"no", "failed", "crashed"}
           /\ Now.op = script[pc].op /\ Now.then = script[pc].then /\ Now.onFail = script[pc].onFail
           /\ Now.onCrash = script[pc].onCrash
           /\ script[pc].op = "cmd" => DOMAIN Now.what = {1}
           /\ script[pc].op \in {"check", "wait", "pick"} => Len(Now.what) = Len(script[pc].what)
           /\ ~script[pc].toChosen => Now = script[pc]
<1>1. /\ scenario \in Scenarios /\ pc \in 1..Len(script) /\ raised \in {"no", "failed", "crashed"}
  BY DEF FlowInv, Open
<1>2. Shape(pc) /\ Chosen(script[pc])
  BY <1>1, ShapesAre
<1>3. pc \in Nat /\ Len(script) \in Nat
  BY <1>1, ScriptIs
<1> QED
  BY <1>1, <1>2, <1>3 DEF Chosen, Now

(* Where a step that ends well leads.                                      *)
Onward ==
    /\ UNCHANGED raised /\ pc + 1 \in 1..Len(script) /\ ~Guarded(script, pc) /\ Enter(pc + 1)
Around ==
    /\ UNCHANGED raised /\ Guarded(script, pc)
    /\ \E j \in 1..Len(script) : Enter(j) /\ script[j].at \in DoneLabels
Finishes == End("passed") /\ pc = Len(script)

LEMMA GotoGoes ==
    ASSUME FlowInv, outcome = "running", Goto(Now.then)
    PROVE  Finishes \/ Onward \/ Around
<1>1. /\ scenario \in Scenarios /\ pc \in 1..Len(script) /\ pc \in Nat /\ Len(script) \in Nat
      /\ Shape(pc) /\ Now.then = script[pc].then
  BY NowIs
<1> DEFINE label == Now.then
<1>2. CASE Guarded(script, pc)
  <2>1. Leads(script, label, DoneLabels)
    BY <1>1, <1>2 DEF Guarded
  <2>2. label # "end" /\ label # "next" /\ Jump(label) \in 1..Len(script) /\ script[Jump(label)].at \in DoneLabels
    BY <1>1, <2>1, LeadsTo
  <2>3. Enter(Jump(label)) /\ UNCHANGED raised
    BY <2>2 DEF Goto
  <2> QED
    BY <1>2, <2>2, <2>3 DEF Around
<1>3. CASE ~Guarded(script, pc)
  <2>1. label = "next"
    BY <1>1, <1>3 DEF Shape, Plain, Cancels, Rethrows
  <2>2. CASE pc = Len(script)
    BY <2>1, <2>2 DEF Goto, Finishes
  <2>3. CASE pc # Len(script)
    <3>1. pc + 1 \in 1..Len(script)
      BY <1>1, <2>3
    <3>2. Enter(pc + 1) /\ UNCHANGED raised
      BY <2>1, <2>3 DEF Goto
    <3> QED
      BY <1>3, <3>1, <3>2 DEF Onward
  <2> QED
    BY <2>2, <2>3
<1> QED
  BY <1>2, <1>3

(* Where an exception leads.                                               *)
LEMMA RaiseGoes ==
    ASSUME FlowInv, outcome = "running", NEW how \in {"failed", "crashed", "blocked"}, Raise(how)
    PROVE  \/ End(how)
           \/ Guarded(script, pc) /\ raised' = how
              /\ \E j \in 1..Len(script) : Enter(j) /\ script[j].at \in CancelLabels
           \/ Cancels(script, pc) /\ raised' = raised
              /\ \E j \in 1..Len(script) : Enter(j) /\ script[j].at \in DoneLabels
<1>1. /\ scenario \in Scenarios /\ pc \in 1..Len(script)
      /\ Shape(pc) /\ Now.onFail = script[pc].onFail /\ Now.onCrash = script[pc].onCrash
      /\ Now.op = script[pc].op /\ (~script[pc].toChosen => Now = script[pc])
  BY NowIs
<1> DEFINE label == IF how = "crashed" THEN Now.onCrash ELSE Now.onFail
<1>2. CASE label = "end"
  BY <1>2 DEF Raise
<1>3. CASE label # "end"
  <2>1. how # "crashed" /\ label = script[pc].onFail
    BY <1>1, <1>3 DEF Shape, Plain, Guarded, Cancels, Rethrows
  <2>2. Enter(Jump(label)) /\ raised' = IF ~Now.swallow THEN how ELSE IF Now.op = "reraise" THEN "no" ELSE raised
    BY <1>3 DEF Raise
  <2>3. CASE Guarded(script, pc)
    <3>1. Leads(script, label, CancelLabels) /\ ~Now.swallow
      BY <1>1, <2>1, <2>3 DEF Guarded, Unrelated, Conditions
    <3>2. Jump(label) \in 1..Len(script) /\ script[Jump(label)].at \in CancelLabels
      BY <1>1, <3>1, LeadsTo
    <3> QED
      BY <2>2, <2>3, <3>1, <3>2
  <2>4. CASE Cancels(script, pc)
    <3>1. Leads(script, label, DoneLabels) /\ Now.swallow /\ Now.op # "reraise"
      BY <1>1, <2>1, <2>4 DEF Cancels
    <3>2. Jump(label) \in 1..Len(script) /\ script[Jump(label)].at \in DoneLabels
      BY <1>1, <3>1, LeadsTo
    <3> QED
      BY <2>2, <2>4, <3>1, <3>2
  <2>5. Guarded(script, pc) \/ Cancels(script, pc)
    BY <1>1, <1>3, <2>1 DEF Shape, Plain, Rethrows
  <2> QED
    BY <2>3, <2>4, <2>5
<1> QED
  BY <1>2, <1>3

(* The invariant where a step is entered.                                  *)
LEMMA EnterFlow ==
    ASSUME FlowInv, outcome = "running", NEW j \in 1..Len(script), Enter(j), DOMAIN unread' = Devices,
           raised' \in {"no", "failed", "crashed"},
           raised' # "no" => script[j].op \in {"pair", "reraise"} \/ script[j].at \in CancelLabels,
           script[j].at \in CancelLabels => raised' # "no",
           late' # {} => raised' # "no",
           script[j].toChosen => chosen \in Devices
    PROVE  FlowInv'
<1>1. /\ scenario' = scenario /\ pc' = j /\ sample' = 1 /\ chosen' = chosen /\ outcome' = "running"
      /\ open' = IF script[j].op \in {"cmd", "pair"} THEN DOMAIN script[j].what ELSE {}
  BY DEF Enter
<1>2. script' = script
  BY <1>1 DEF script
<1>3. scenario \in Scenarios /\ chosen \in Devices \cup {"none"}
  BY DEF FlowInv, Open
<1>4. Shape(j)
  BY <1>3, ShapesAre
<1> DEFINE t == script[j]
<1>5. script[pc]' = t
  BY <1>1, <1>2
<1>6. t.op = "cmd" => open' = {1}
  BY <1>1, <1>4 DEF Shape
<1>7. t.op = "pair" => open' = {1, 2}
  BY <1>1, <1>4 DEF Shape
<1>8. t.op \in {"check", "wait", "pick"} => sample' \in 1..Len(t.what) /\ sample' \in 0..Len(t.what)
  BY <1>1, <1>4 DEF Shape
<1>9. Len(script)' = Len(script)
  BY <1>2
<1> HIDE DEF t
<1> QED
  BY <1>1, <1>3, <1>5, <1>6, <1>7, <1>8, <1>9 DEF FlowInv, Open, t

LEMMA EndFlow ==
    ASSUME FlowInv, outcome = "running", NEW how \in {"passed", "blocked", "failed", "crashed"}, End(how),
           how \in {"passed", "blocked"} => raised = "no" /\ late' = late, DOMAIN unread' = Devices
    PROVE  FlowInv' /\ (Live' => how \in {"passed", "blocked"})
<1>1. outcome' = how /\ UNCHANGED <<scenario, pc, chosen, raised>>
  BY DEF End
<1>2. script' = script /\ script[pc]' = script[pc] /\ Len(script)' = Len(script)
  BY <1>1 DEF script
<1> QED
  BY <1>1, <1>2 DEF FlowInv, Open, Live

LEMMA StayFlow ==
    ASSUME FlowInv, UNCHANGED controlVars, late' \subseteq late, DOMAIN unread' = Devices
    PROVE  FlowInv'
<1>1. script' = script /\ script[pc]' = script[pc] /\ Len(script)' = Len(script)
  BY DEF script, controlVars
<1> QED
  BY <1>1 DEF FlowInv, Open, controlVars

LEMMA SampleFlow ==
    ASSUME FlowInv, outcome = "running", UNCHANGED <<scenario, pc, open, chosen, raised, outcome>>,
           script[pc].op \in {"check", "pick"} => sample' \in 1..Len(script[pc].what),
           script[pc].op = "wait" => sample' \in 0..Len(script[pc].what),
           late' = late, DOMAIN unread' = Devices
    PROVE  FlowInv'
<1>1. script' = script /\ script[pc]' = script[pc] /\ Len(script)' = Len(script)
  BY DEF script
<1> QED
  BY <1>1 DEF FlowInv, Open

LEMMA RecordDomain ==
    ASSUME DOMAIN unread = Devices, NEW d, NEW type, Record(d, type)
    PROVE  DOMAIN unread' = Devices
BY DEF Record

LEMMA ReadingDomain ==
    ASSUME DOMAIN unread = Devices, NEW c, Reading(c)
    PROVE  DOMAIN unread' = Devices
BY DEF Reading

(* A step about the chosen device is reached over the step that chose it.  *)
LEMMA ChosenBefore ==
    ASSUME scenario \in Scenarios, NEW p \in 1..Len(script), p + 1 \in 1..Len(script),
           script[p + 1].toChosen, script[p].op # "pick"
    PROVE  script[p].toChosen
<1>0. p \in Nat /\ Len(script) \in Nat
  BY ScriptIs
<1>1. Three(p + 1) \/ Follows(p + 1)
  BY ShapesAre DEF Shape
<1>2. ~Three(p + 1)
  <2>1. (p + 1) - 1 = p
    BY <1>0
  <2> QED
    BY <2>1 DEF Three
<1>3. PICK k \in 1..Len(script) :
          \/ p + 1 = k + 1 /\ Sender(k)
          \/ p + 1 = k + 2 /\ (Two(k) \/ Three(k))
  BY <1>1, <1>2 DEF Follows
<1>4. k \in Nat
  BY <1>0
<1>5. CASE p + 1 = k + 1 /\ Sender(k)
  <2>1. p = k
    BY <1>0, <1>4, <1>5
  <2> QED
    BY <1>5, <2>1 DEF Sender, One, Two, Three
<1>6. CASE p + 1 = k + 2 /\ (Two(k) \/ Three(k))
  <2>1. p = k + 1
    BY <1>0, <1>4, <1>6
  <2> QED
    BY <1>6, <2>1 DEF Two, Three
<1> QED
  BY <1>3, <1>5, <1>6

LEMMA GotoFlow ==
    ASSUME FlowInv, outcome = "running", Goto(Now.then), DOMAIN unread' = Devices, late' = late,
           raised = "no" \/ Cancels(script, pc), script[pc].op # "pick"
    PROVE  FlowInv' /\ (Live' => raised = "no")
<1>1. /\ scenario \in Scenarios /\ pc \in 1..Len(script) /\ pc \in Nat /\ Len(script) \in Nat
      /\ raised \in {"no", "failed", "crashed"}
  BY NowIs
<1>2. late # {} => raised # "no"
  BY DEF FlowInv, Open
<1>3. CASE Finishes
  <2>1. raised = "no"
    BY <1>1, <1>3 DEF Cancels, Finishes
  <2>2. End("passed")
    BY <1>3 DEF Finishes
  <2> QED
    BY <2>1, <2>2, EndFlow
<1>4. CASE Onward
  <2> DEFINE j == pc + 1
  <2>1. j \in 1..Len(script) /\ Enter(j) /\ raised' = raised /\ ~Guarded(script, pc) /\ j - 1 = pc
    BY <1>1, <1>4 DEF Onward
  <2>2. Shape(j)
    BY <1>1, <2>1, ShapesAre
  <2>3. script[j].toChosen => chosen \in Devices
    BY <1>1, <2>1, ChosenBefore DEF FlowInv, Open
  <2>4. Cancels(script, pc) => script[j].op = "reraise"
    BY <2>2 DEF Cancels, Shape, Rethrows
  <2>5. script[j].at \notin CancelLabels
    BY <2>1, <2>2 DEF Shape, Cancels
  <2> HIDE DEF j
  <2>6. FlowInv'
    BY <1>1, <1>2, <2>1, <2>3, <2>4, <2>5, EnterFlow
  <2> QED
    BY <2>1, <2>6 DEF Live
<1>5. CASE Around
  <2>1. PICK j \in 1..Len(script) : Enter(j) /\ script[j].at \in DoneLabels
    BY <1>5 DEF Around
  <2>2. Shape(j) /\ raised' = raised
    BY <1>1, <1>5, <2>1, ShapesAre DEF Around
  <2>3. script[j].op = "reraise" /\ ~script[j].toChosen /\ script[j].at \notin CancelLabels
    BY <2>1, <2>2 DEF Shape, Rethrows, CancelLabels, DoneLabels
  <2>4. FlowInv'
    BY <1>1, <1>2, <2>1, <2>2, <2>3, EnterFlow
  <2> QED
    BY <2>2, <2>4 DEF Live
<1> QED
  BY <1>3, <1>4, <1>5, GotoGoes

LEMMA RaiseFlow ==
    ASSUME FlowInv, outcome = "running", NEW how \in {"failed", "crashed", "blocked"}, Raise(how),
           DOMAIN unread' = Devices,
           how = "blocked" => script[pc].op = "block" /\ late' = late
    PROVE  FlowInv' /\ (Live' => how = "blocked")
<1>1. /\ scenario \in Scenarios /\ pc \in 1..Len(script) /\ Shape(pc)
      /\ raised \in {"no", "failed", "crashed"}
  BY NowIs
<1>2. script[pc].op = "block" => raised = "no"
  BY <1>1 DEF FlowInv, Open, Shape, Stops, Plain, CancelLabels
<1>3. CASE End(how)
  <2>1. how = "blocked" => raised = "no" /\ late' = late
    BY <1>2
  <2>2. how # "passed"
    OBVIOUS
  <2> QED
    BY <1>3, <2>1, <2>2, EndFlow
<1>4. ASSUME Guarded(script, pc), raised' = how, NEW j \in 1..Len(script), Enter(j), script[j].at \in CancelLabels
      PROVE  FlowInv' /\ ~Live'
  <2>1. how \in {"failed", "crashed"}
    BY <1>4 DEF Guarded
  <2>2. ~script[j].toChosen
    BY <1>1, <1>4, ShapesAre DEF Shape, Cancels
  <2>3. FlowInv'
    BY <1>4, <2>1, <2>2, EnterFlow
  <2> QED
    BY <1>4, <2>1, <2>3 DEF Live
<1>5. ASSUME Cancels(script, pc), raised' = raised, NEW j \in 1..Len(script), Enter(j), script[j].at \in DoneLabels
      PROVE  FlowInv' /\ ~Live'
  <2>1. raised # "no"
    BY <1>5 DEF FlowInv, Cancels
  <2>2. script[j].op = "reraise" /\ ~script[j].toChosen
    BY <1>1, <1>5, ShapesAre DEF Shape, Rethrows
  <2>3. FlowInv'
    BY <1>1, <1>5, <2>1, <2>2, EnterFlow
  <2> QED
    BY <1>5, <2>1, <2>3 DEF Live
<1> QED
  BY <1>3, <1>4, <1>5, RaiseGoes

LEMMA RaisedIs ==
    ASSUME FlowInv, outcome = "running"
    PROVE  /\ script[pc].op \notin {"cmd", "pair", "reraise"} => raised = "no"
           /\ script[pc].op = "cmd" => raised = "no" \/ Cancels(script, pc)
<1>1. Shape(pc)
  BY NowIs
<1> QED
  BY <1>1 DEF FlowInv, Open, Shape, Cancels

LEMMA SettleFlow ==
    ASSUME FlowInv, outcome = "running", script[pc].op \in {"cmd", "pair"}, NEW i \in open,
           NEW how \in {"ok", "failed", "crashed"}, Settle(i, how), DOMAIN unread' = Devices,
           how = "ok" => late' = late
    PROVE  FlowInv' /\ (Live' => how = "ok" /\ raised = "no")
<1>1. /\ scenario \in Scenarios /\ Shape(pc) /\ raised \in {"no", "failed", "crashed"}
      /\ Now.op = script[pc].op
  BY NowIs
<1>2. CASE open # {i}
  <2>1. /\ open' = open \ {i} /\ raised' = (IF how = "ok" \/ raised # "no" THEN raised ELSE how)
        /\ UNCHANGED <<scenario, pc, sample, chosen, outcome>>
    BY <1>2 DEF Settle
  <2>2. script[pc].op = "pair" /\ open \subseteq {1, 2}
    BY <1>2 DEF FlowInv
  <2>3. script' = script /\ script[pc]' = script[pc] /\ Len(script)' = Len(script)
    BY <2>1 DEF script
  <2>4. late' # {} => raised' # "no"
    BY <2>1 DEF FlowInv, Open
  <2>5. FlowInv'
    BY <1>1, <2>1, <2>2, <2>3, <2>4 DEF FlowInv, Open
  <2> QED
    BY <2>1, <2>5 DEF Live
<1>3. CASE open = {i} /\ how # "ok"
  <2>1. Raise(how) /\ how \in {"failed", "crashed", "blocked"} /\ how # "blocked"
    BY <1>3 DEF Settle
  <2> QED
    BY <2>1, RaiseFlow
<1>4. CASE open = {i} /\ how = "ok" /\ Now.op = "pair" /\ raised # "no"
  <2>1. Raise(raised) /\ raised \in {"failed", "crashed", "blocked"} /\ raised # "blocked"
    BY <1>1, <1>4 DEF Settle
  <2> QED
    BY <2>1, RaiseFlow
<1>5. CASE open = {i} /\ how = "ok" /\ ~(Now.op = "pair" /\ raised # "no")
  <2>1. Goto(Now.then)
    BY <1>5 DEF Settle
  <2>2. raised = "no" \/ Cancels(script, pc)
    BY <1>1, <1>5, RaisedIs
  <2> QED
    BY <1>5, <2>1, <2>2, GotoFlow
<1> QED
  BY <1>2, <1>3, <1>4, <1>5

(* What a sample leads to.                                                 *)
Verdicts == Verdict(Condition, Seen(Condition))
SamplesNext ==
    /\ Verdicts = "yes" /\ sample < Len(script[pc].what) /\ sample' = sample + 1
    /\ UNCHANGED <<scenario, pc, open, chosen, raised, outcome>>
SamplesOn == Verdicts = "yes" /\ sample = Len(script[pc].what) /\ Goto(Now.then)
SamplesAgain ==
    /\ Verdicts = "no" /\ script[pc].op = "wait" /\ sample' = 0
    /\ UNCHANGED <<scenario, pc, open, chosen, raised, outcome>>

LEMMA SampleGoes ==
    ASSUME FlowInv, Samples
    PROVE  /\ outcome = "running" /\ script[pc].op \in {"wait", "check"} /\ raised = "no"
           /\ sample \in 1..Len(script[pc].what) /\ Len(script[pc].what) \in Nat
           /\ DOMAIN unread' = Devices /\ late' = late
           /\ SamplesNext \/ SamplesOn \/ SamplesAgain \/ Raise("failed")
<1>1. /\ Busy({"wait", "check", "if", "window"}) /\ sample > 0
      /\ IF Condition.kind \in EventKinds THEN Reading(Condition) ELSE UNCHANGED feedVars
      /\ \/ /\ Verdicts = "yes" /\ sample < Len(Now.what)
            /\ sample' = sample + 1
            /\ UNCHANGED <<scenario, pc, open, chosen, raised, outcome>>
         \/ Verdicts = "yes" /\ sample = Len(Now.what) /\ Now.op # "window" /\ Goto(Now.then)
         \/ Verdicts = "yes" /\ sample = Len(Now.what) /\ Now.op = "window"
            /\ sample' = 0 /\ UNCHANGED <<scenario, pc, open, chosen, raised, outcome>>
         \/ Verdicts = "no" /\ Now.op = "wait" /\ sample' = 0
            /\ UNCHANGED <<scenario, pc, open, chosen, raised, outcome>>
         \/ Verdicts = "no" /\ Now.op = "if" /\ Goto(Now.orElse)
         \/ Verdicts = "no" /\ Now.op \in {"check", "window"} /\ Raise("failed")
         \/ Verdicts = "raise" /\ Raise("failed")
      /\ late' = late
  BY DEF Samples, Sample, Verdicts
<1>2. outcome = "running"
  BY <1>1 DEF Busy
<1>3. /\ Shape(pc) /\ Now.op = script[pc].op
      /\ script[pc].op \in {"check", "wait", "pick"} => Len(Now.what) = Len(script[pc].what)
  BY <1>2, NowIs
<1>4. script[pc].op \in {"wait", "check"}
  BY <1>1, <1>3 DEF Busy, Shape
<1>5. raised = "no"
  BY <1>2, <1>4, RaisedIs
<1>6. Len(script[pc].what) \in Nat
  BY <1>3, <1>4 DEF Shape
<1>7. sample \in 1..Len(script[pc].what)
  <2>1. sample \in 0..Len(script[pc].what)
    BY <1>2, <1>4, <1>6 DEF FlowInv
  <2> QED
    BY <1>1, <1>6, <2>1
<1>8. DOMAIN unread' = Devices
  <2>1. DOMAIN unread = Devices
    BY DEF FlowInv
  <2> QED
    BY <1>1, <2>1, ReadingDomain DEF feedVars
<1>9. SamplesNext \/ SamplesOn \/ SamplesAgain \/ Raise("failed")
  BY <1>1, <1>3, <1>4 DEF SamplesNext, SamplesOn, SamplesAgain
<1> QED
  BY <1>1, <1>2, <1>4, <1>5, <1>6, <1>7, <1>8, <1>9

LEMMA SamplesFlow == ASSUME FlowInv, Samples PROVE FlowInv'
<1>1. /\ outcome = "running" /\ script[pc].op \in {"wait", "check"} /\ raised = "no"
      /\ sample \in 1..Len(script[pc].what) /\ Len(script[pc].what) \in Nat
      /\ DOMAIN unread' = Devices /\ late' = late
      /\ SamplesNext \/ SamplesOn \/ SamplesAgain \/ Raise("failed")
  BY SampleGoes
<1>2. CASE SamplesNext
  <2>1. sample' \in 1..Len(script[pc].what) /\ sample' \in 0..Len(script[pc].what)
    BY <1>1, <1>2 DEF SamplesNext
  <2> QED
    BY <1>1, <1>2, <2>1, SampleFlow DEF SamplesNext
<1>3. CASE SamplesOn
  BY <1>1, <1>3, GotoFlow DEF SamplesOn
<1>4. CASE SamplesAgain
  <2>1. sample' \in 0..Len(script[pc].what)
    BY <1>1, <1>4 DEF SamplesAgain
  <2> QED
    BY <1>1, <1>4, <2>1, SampleFlow DEF SamplesAgain
<1>5. CASE Raise("failed")
  BY <1>1, <1>5, RaiseFlow
<1> QED
  BY <1>1, <1>2, <1>3, <1>4, <1>5

(* The search for the coordinator.                                         *)
PicksNext ==
    /\ sample < Len(script[pc].what) /\ sample' = sample + 1 /\ chosen' \in Devices \cup {"none"}
    /\ UNCHANGED <<scenario, pc, open, raised, outcome>>
PicksOn == chosen' \in Devices /\ pc' = pc + 1 /\ sample' = 1 /\ open' = {1} /\ UNCHANGED <<scenario, raised, outcome>>

LEMMA PickGoes ==
    ASSUME FlowInv, Pick(Seen(Condition), rest)
    PROVE  /\ outcome = "running" /\ script[pc].op = "pick" /\ raised = "no" /\ Picks(script, pc)
           /\ sample \in 1..Len(script[pc].what) /\ Len(script[pc].what) \in Nat
           /\ DOMAIN unread' = Devices /\ UNCHANGED feedVars /\ late' = late
           /\ PicksNext \/ PicksOn \/ Raise("crashed")
<1> DEFINE found == IF chosen = "none" /\ Seen(Condition) THEN Condition.on ELSE chosen
<1>1. /\ Busy({"pick"})
      /\ IF sample < Len(Now.what)
           THEN /\ chosen' = found /\ sample' = sample + 1
                /\ UNCHANGED <<scenario, pc, open, raised, outcome>>
           ELSE IF found = "none" THEN Raise("crashed")
           ELSE /\ chosen' = found /\ pc' = pc + 1 /\ sample' = 1
                /\ open' = IF script[pc + 1].op = "cmd" THEN {1} ELSE {}
                /\ UNCHANGED <<scenario, raised, outcome>>
      /\ UNCHANGED feedVars /\ late' = late
  BY DEF Pick
<1>2. outcome = "running"
  BY <1>1 DEF Busy
<1>3. /\ Shape(pc) /\ Now.op = script[pc].op
      /\ script[pc].op \in {"check", "wait", "pick"} => Len(Now.what) = Len(script[pc].what)
      /\ ~script[pc].toChosen => Now = script[pc]
  BY <1>2, NowIs
<1>4. script[pc].op = "pick"
  BY <1>1, <1>3 DEF Busy
<1>5. raised = "no"
  BY <1>2, <1>4, RaisedIs
<1>6. Len(script[pc].what) \in Nat /\ Picks(script, pc)
  BY <1>3, <1>4 DEF Shape
<1>7. sample \in 1..Len(script[pc].what)
  BY <1>2, <1>4 DEF FlowInv
<1>8. DOMAIN unread' = Devices
  BY <1>1 DEF FlowInv, feedVars
<1>9. found \in Devices \cup {"none"}
  <2>1. Now = script[pc]
    BY <1>3, <1>6 DEF Picks, Unrelated, Conditions
  <2>2. Condition.on \in Devices
    BY <1>6, <1>7, <2>1 DEF Picks, Condition
  <2>3. chosen \in Devices \cup {"none"}
    BY <1>2 DEF FlowInv, Open
  <2> QED
    BY <2>2, <2>3
<1> HIDE DEF found
<1>10. script[pc + 1].op = "cmd"
  BY <1>6 DEF Picks
<1>11. PicksNext \/ PicksOn \/ Raise("crashed")
  BY <1>1, <1>3, <1>4, <1>9, <1>10 DEF PicksNext, PicksOn
<1> QED
  BY <1>1, <1>2, <1>4, <1>5, <1>6, <1>7, <1>8, <1>11

LEMMA PickFlow == ASSUME FlowInv, Pick(Seen(Condition), rest) PROVE FlowInv'
<1>1. /\ outcome = "running" /\ script[pc].op = "pick" /\ raised = "no" /\ Picks(script, pc)
      /\ sample \in 1..Len(script[pc].what) /\ Len(script[pc].what) \in Nat
      /\ DOMAIN unread' = Devices /\ late' = late
      /\ PicksNext \/ PicksOn \/ Raise("crashed")
  BY PickGoes
<1>2. /\ scenario \in Scenarios /\ pc \in 1..Len(script) /\ pc \in Nat /\ Len(script) \in Nat
  BY <1>1, NowIs
<1>3. late = {}
  BY <1>1 DEF FlowInv, Open
<1>4. ~script[pc].toChosen
  BY <1>1 DEF Picks, Unrelated, Conditions
<1>5. CASE PicksNext
  <2>1. sample' \in 1..Len(script[pc].what)
    BY <1>1, <1>5 DEF PicksNext
  <2>2. script' = script /\ script[pc]' = script[pc] /\ Len(script)' = Len(script)
    BY <1>5 DEF script, PicksNext
  <2>3. script[pc].at \notin CancelLabels
    BY <1>1 DEF Picks, Plain, CancelLabels
  <2> QED
    BY <1>1, <1>2, <1>3, <1>4, <1>5, <2>1, <2>2, <2>3 DEF FlowInv, Open, PicksNext
<1>6. CASE PicksOn
  <2> DEFINE j == pc + 1
  <2>1. j \in 1..Len(script) /\ script[j].op = "cmd" /\ j - 1 = pc
    BY <1>1, <1>2 DEF Picks
  <2>2. script' = script /\ Len(script)' = Len(script) /\ pc' = j
    BY <1>6 DEF script, PicksOn
  <2> HIDE DEF j
  <2>3. script[pc]' = script[j]
    BY <2>2
  <2>4. script[j].at \notin CancelLabels
    <3>1. ~Cancels(script, j)
      BY <1>1, <2>1 DEF Cancels, Guarded, Picks
    <3> QED
      BY <1>2, <2>1, <3>1, ShapesAre DEF Shape
  <2> QED
    BY <1>1, <1>2, <1>3, <1>6, <2>1, <2>2, <2>3, <2>4 DEF FlowInv, Open, PicksOn
<1>7. CASE Raise("crashed")
  BY <1>1, <1>7, RaiseFlow
<1> QED
  BY <1>1, <1>5, <1>6, <1>7

LEMMA ReraiseFlow ==
    ASSUME FlowInv, Reraise(rest)
    PROVE  FlowInv' /\ (Live' => raised = "no") /\ outcome = "running"
<1>1. Busy({"reraise"}) /\ outcome = "running" /\ late' = late /\ UNCHANGED feedVars
  BY DEF Reraise, Busy
<1>2. Now.op = script[pc].op /\ script[pc].op = "reraise" /\ raised \in {"no", "failed", "crashed"}
  BY <1>1, NowIs DEF Busy
<1>3. DOMAIN unread' = Devices
  BY <1>1 DEF FlowInv, feedVars
<1>4. CASE raised = "no"
  <2>1. Goto(Now.then)
    BY <1>4 DEF Reraise
  <2> QED
    BY <1>1, <1>2, <1>3, <1>4, <2>1, GotoFlow
<1>5. CASE raised # "no"
  <2>1. Raise(raised) /\ raised \in {"failed", "crashed", "blocked"} /\ raised # "blocked"
    BY <1>2, <1>5 DEF Reraise
  <2> QED
    BY <1>1, <1>2, <1>3, <2>1, RaiseFlow
<1> QED
  BY <1>4, <1>5

(* The preflight: /health of the first device and of the second, then the  *)
(* presence of the first and of the second.                                *)
LEMMA PreflightIs ==
    /\ LET s == Preflight[1]
       IN  /\ Plain(s) /\ s.op = "check" /\ ~s.toChosen /\ Len(s.what) = 2
           /\ s.what[1] = Health(First) /\ s.what[2] = Health(Second)
    /\ LET s == Preflight[2]
       IN  /\ Plain(s) /\ s.op = "wait" /\ ~s.toChosen /\ Len(s.what) = 2
           /\ s.what[1] = Presence(First) /\ s.what[2] = Presence(Second)
<1> DEFINE x == OnAll(Health)
           y == OnAll(Presence)
<1>1. Preflight[1] = Step("check", x) /\ Preflight[2] = Step("wait", y)
  BY TwoSteps DEF Preflight
<1>2. IsSeq(x, 2) /\ x[1] = Health(First) /\ x[2] = Health(Second)
  <2>1. x = [i \in DOMAIN Apis |-> IF i = 1 THEN Health(First) ELSE Health(Second)]
    BY DevicesAre DEF OnAll, First, Second
  <2> DEFINE h == Health(First)
             k == Health(Second)
  <2>2. x = [i \in DOMAIN Apis |-> IF i = 1 THEN h ELSE k]
    BY <2>1
  <2> HIDE DEF x, h, k
  <2>3. IsSeq(x, 2) /\ x[1] = h /\ x[2] = k
    BY <2>2, OnBoth
  <2> QED
    BY <2>3 DEF h, k
<1>3. IsSeq(y, 2) /\ y[1] = Presence(First) /\ y[2] = Presence(Second)
  <2>1. y = [i \in DOMAIN Apis |-> IF i = 1 THEN Presence(First) ELSE Presence(Second)]
    BY DevicesAre DEF OnAll, First, Second
  <2> HIDE DEF y
  <2> QED
    BY <2>1, OnBoth
<1> HIDE DEF x, y
<1>4. Simple(Preflight[1], "check", x) /\ Simple(Preflight[2], "wait", y)
  BY <1>1, StepIs
<1>5. Len(x) = 2 /\ Len(y) = 2
  BY <1>2, <1>3, SeqDomain
<1> QED
  BY <1>2, <1>3, <1>4, <1>5 DEF Simple

(* How a command ends.                                                     *)
LEMMA EffectDomain ==
    ASSUME FlowInv, NEW c, Effect(c)
    PROVE  DOMAIN unread' = Devices
<1>1. DOMAIN unread = Devices
  BY DEF FlowInv
<1>2. CASE c.name = "publishCheckpoint"
  BY <1>1, <1>2, RecordDomain DEF Effect
<1>3. CASE c.name # "publishCheckpoint"
  BY <1>1, <1>3 DEF Effect, feedVars
<1> QED
  BY <1>2, <1>3

CommandEnds(i, how) ==
    /\ outcome = "running" /\ script[pc].op \in {"cmd", "pair"} /\ i \in open /\ Settle(i, how)
    /\ DOMAIN unread' = Devices
    /\ \/ how \in {"ok", "failed", "crashed"} /\ late' = late /\ Accepts(Now.what[i]) /\ Effect(Now.what[i])
       \/ how = "failed" /\ UNCHANGED <<rest, feedVars>>

LEMMA CommandGoes ==
    ASSUME FlowInv, Commands
    PROVE  \E i \in open : \E how : CommandEnds(i, how)
<1>1. PICK i \in open : LET c == Now.what[i] IN
        \/ CommandOk(i, Accepts(c), Effect(c)) \/ CommandAnswerLost(i, Accepts(c), Effect(c))
        \/ CommandRefused(i, Accepts(c), rest) \/ CommandDelayed(i, rest)
  BY DEF Commands
<1> DEFINE c == Now.what[i]
<1>2. Busy({"cmd", "pair"}) => outcome = "running" /\ script[pc].op \in {"cmd", "pair"}
  BY NowIs DEF Busy
<1>3. UNCHANGED feedVars => DOMAIN unread' = Devices
  BY DEF FlowInv, feedVars
<1>4. CASE CommandOk(i, Accepts(c), Effect(c))
  <2>1. DOMAIN unread' = Devices
    BY <1>4, EffectDomain DEF CommandOk
  <2>2. CommandEnds(i, "ok")
    BY <1>2, <1>4, <2>1 DEF CommandOk, CommandEnds
  <2> QED
    BY <2>2
<1>5. CASE CommandAnswerLost(i, Accepts(c), Effect(c))
  <2>1. DOMAIN unread' = Devices
    BY <1>5, EffectDomain DEF CommandAnswerLost
  <2>2. PICK how \in {"failed", "crashed"} : Settle(i, how)
    BY <1>5 DEF CommandAnswerLost
  <2>3. CommandEnds(i, how)
    BY <1>2, <1>5, <2>1, <2>2 DEF CommandAnswerLost, CommandEnds
  <2> QED
    BY <2>3
<1>6. CASE CommandRefused(i, Accepts(c), rest)
  <2>1. CommandEnds(i, "failed")
    BY <1>2, <1>3, <1>6 DEF CommandRefused, CommandEnds
  <2> QED
    BY <2>1
<1>7. CASE CommandDelayed(i, rest)
  <2>1. CommandEnds(i, "failed")
    BY <1>2, <1>3, <1>7 DEF CommandDelayed, CommandEnds
  <2> QED
    BY <2>1
<1> QED
  BY <1>1, <1>4, <1>5, <1>6, <1>7

LEMMA CommandFlow ==
    ASSUME FlowInv, NEW i \in open, NEW how, CommandEnds(i, how)
    PROVE  FlowInv' /\ (Live' => how = "ok" /\ raised = "no")
BY SettleFlow DEF CommandEnds

(* A new scenario.                                                         *)
Starts ==
    /\ scenario' \in Scenarios /\ pc' = 1 /\ sample' = 1 /\ open' = {} /\ chosen' = "none" /\ raised' = "no"
    /\ outcome' = "running" /\ late' = {} /\ unread' = [d \in Devices |-> Stale(d)]
    /\ sends' = 0 /\ received' = 0 /\ inflight' = inflight
    /\ outcome \in {"passed", "blocked"}

LEMMA ReportGoes ==
    ASSUME FlowInv, MainInv, Reports
    PROVE  Starts \/ (UNCHANGED <<controlVars, unread, late, missed, inflight>> /\ outcome # "running")
<1>1. CASE outcome # "failed" /\ Job < Len(plan)
  <2>1. plan \in Seq(Scenarios) /\ results \in Seq({"passed", "failed", "blocked"})
    BY DEF MainInv
  <2>2. Job + 1 \in 1..Len(plan)
    BY <1>1, <2>1 DEF Job
  <2>3. plan[Job + 1] \in Scenarios
    BY <2>1, <2>2
  <2>4. outcome \in {"passed", "blocked"}
    BY <1>1 DEF Reports
  <2>5. late = {}
    BY <2>4 DEF FlowInv, Open
  <2> QED
    BY <1>1, <2>3, <2>4, <2>5 DEF Reports, Starts
<1>2. CASE ~(outcome # "failed" /\ Job < Len(plan))
  BY <1>2 DEF Reports
<1> QED
  BY <1>1, <1>2

LEMMA ReportFlow == ASSUME FlowInv, MainInv, Reports PROVE FlowInv'
<1>1. CASE Starts
  <2> DEFINE s == Scripts[scenario']
  <2>1. WellFormed(s, scenario' \in Counted)
    BY <1>1, ScriptsAre DEF Starts
  <2>2. IsSeq(s, Len(s)) /\ Len(s) > 2 /\ s[1] = Preflight[1]
    BY <2>1 DEF WellFormed, Fragment
  <2>3. 1 \in 1..Len(s)
    BY <2>2 DEF IsSeq
  <2>4. script' = s
    BY DEF script
  <2> HIDE DEF s
  <2>5. Len(script)' = Len(s) /\ script[pc]' = Preflight[1]
    BY <1>1, <2>2, <2>4 DEF Starts
  <2>6. Preflight[1].op = "check" /\ Preflight[1].at \notin CancelLabels /\ ~Preflight[1].toChosen
    BY PreflightIs DEF Plain, CancelLabels
  <2>7. 1 \in 1..Len(Preflight[1].what)
    BY PreflightIs
  <2> QED
    BY <1>1, <2>3, <2>5, <2>6, <2>7 DEF Starts, FlowInv, Open
<1>2. CASE UNCHANGED <<controlVars, unread, late, missed, inflight>>
  BY <1>2, StayFlow DEF FlowInv
<1> QED
  BY <1>1, <1>2, ReportGoes

(* The steps of the devices.                                               *)
LEMMA DeviceMoves ==
    ASSUME DevicesMove
    PROVE  /\ outcome = "running" /\ UNCHANGED <<controlVars, faults, late>>
           /\ UNCHANGED feedVars \/ \E d \in Devices : \E type \in {"unstable", "other", "connectFailed"} : Record(d, type)
<1>1. outcome = "running"
  BY DEF DevicesMove
<1>2. CASE \E d \in Devices : PresenceStarts(d) \/ GroupForms(d)
  BY <1>1, <1>2 DEF PresenceStarts, GroupForms, stepVars
<1>3. ASSUME NEW p \in Pairs,
             Discovers(p) \/ BecomesReady(p) \/ AttemptFails(p)
             \/ (\E to \in {"none", "reconnecting"} : Drops(p, to)) \/ CoordinatorMoves(p[1], p[2])
      PROVE  /\ UNCHANGED <<controlVars, faults, late>>
             /\ UNCHANGED feedVars \/ \E d \in Devices : \E type \in {"unstable", "other", "connectFailed"} : Record(d, type)
  <2>1. p[1] \in Devices
    BY DEF Pairs
  <2>2. CASE Discovers(p)
    BY <2>2 DEF Discovers, stepVars
  <2>3. CASE BecomesReady(p)
    <3>1. UNCHANGED <<controlVars, faults, late>>
      BY <2>3 DEF BecomesReady
    <3>2. Record(p[1], "unstable") \/ Record(p[1], "other")
      BY <2>3 DEF BecomesReady
    <3> QED
      BY <2>1, <3>1, <3>2
  <2>4. CASE AttemptFails(p)
    <3>1. UNCHANGED <<controlVars, faults, late>> /\ Record(p[1], "connectFailed")
      BY <2>4 DEF AttemptFails
    <3> QED
      BY <2>1, <3>1
  <2>5. ASSUME NEW to, Drops(p, to) PROVE UNCHANGED <<controlVars, faults, late>> /\ Record(p[1], "unstable")
    BY <2>5 DEF Drops
  <2>6. CASE CoordinatorMoves(p[1], p[2])
    BY <2>6 DEF CoordinatorMoves, stepVars
  <2> QED
    BY <1>3, <2>1, <2>2, <2>3, <2>4, <2>5, <2>6
<1> QED
  BY <1>1, <1>2, <1>3 DEF DevicesMove

LEMMA OtherRaises ==
    ASSUME FlowInv, Counts \/ Blocks \/ DeadlinePassed(rest) \/ ReadFails(EndpointReads, rest)
    PROVE  outcome = "running" /\ DOMAIN unread' = Devices /\ late' = late /\ raised = "no"
<1>0. DOMAIN unread = Devices
  BY DEF FlowInv
<1>1. CASE Counts
  <2>1. outcome = "running" /\ script[pc].op \in {"note", "compare"} /\ late' = late
    BY <1>1, NowIs DEF Counts, Busy
  <2>2. DOMAIN unread' = Devices
    BY <1>0, <1>1 DEF Counts
  <2> QED
    BY <2>1, <2>2, RaisedIs
<1>2. CASE Blocks
  <2>1. outcome = "running" /\ script[pc].op = "block" /\ late' = late /\ DOMAIN unread' = Devices
    BY <1>0, <1>2, NowIs DEF Blocks, Busy, feedVars
  <2> QED
    BY <2>1, RaisedIs
<1>3. CASE DeadlinePassed(rest)
  <2>1. outcome = "running" /\ script[pc].op = "wait" /\ late' = late /\ DOMAIN unread' = Devices
    BY <1>0, <1>3, NowIs DEF DeadlinePassed, Busy, feedVars
  <2> QED
    BY <2>1, RaisedIs
<1>4. CASE ReadFails(EndpointReads, rest)
  <2>1. /\ outcome = "running" /\ script[pc].op \notin {"cmd", "pair", "reraise"}
        /\ late' = late /\ DOMAIN unread' = Devices
    BY <1>0, <1>4, NowIs DEF ReadFails, Busy, feedVars
  <2> QED
    BY <2>1, RaisedIs
<1> QED
  BY <1>1, <1>2, <1>3, <1>4

LEMMA RaisesFlow ==
    ASSUME FlowInv, Counts \/ Blocks \/ DeadlinePassed(rest) \/ ReadFails(EndpointReads, rest)
    PROVE  FlowInv'
<1>0. outcome = "running" /\ DOMAIN unread' = Devices /\ late' = late /\ raised = "no"
  BY OtherRaises
<1>1. CASE Counts
  <2>1. script[pc].op # "pick"
    BY <1>0, <1>1, NowIs DEF Counts, Busy
  <2>2. Raise("failed") \/ Goto(Now.then)
    BY <1>1 DEF Counts
  <2> QED
    BY <1>0, <2>1, <2>2, RaiseFlow, GotoFlow
<1>2. CASE Blocks
  <2>1. script[pc].op = "block" /\ Raise("blocked")
    BY <1>0, <1>2, NowIs DEF Blocks, Busy
  <2> QED
    BY <1>0, <2>1, RaiseFlow
<1>3. CASE DeadlinePassed(rest) \/ ReadFails(EndpointReads, rest)
  <2>1. Raise("failed") \/ Raise("crashed")
    BY <1>3 DEF DeadlinePassed, ReadFails
  <2> QED
    BY <1>0, <2>1, RaiseFlow
<1> QED
  BY <1>1, <1>2, <1>3

LEMMA GivesUp ==
    ASSUME FlowInv, DeadlinePassed(rest) \/ ReadFails(EndpointReads, rest)
    PROVE  ~Live'
<1>1. outcome = "running" /\ DOMAIN unread' = Devices /\ late' = late /\ raised = "no"
  BY OtherRaises
<1>2. Raise("failed") \/ Raise("crashed")
  BY DEF DeadlinePassed, ReadFails
<1> QED
  BY <1>1, <1>2, RaiseFlow

LEMMA PollFlow == ASSUME FlowInv, PollAgain(rest) PROVE FlowInv'
<1>0. outcome = "running" /\ Now.op \in {"wait", "window"} /\ late' = late /\ unread' = unread
  BY DEF PollAgain, Busy, feedVars
<1>1. outcome = "running" /\ script[pc].op = "wait" /\ late' = late /\ DOMAIN unread' = Devices
  <2>1. Shape(pc) /\ Now.op = script[pc].op
    BY <1>0, NowIs
  <2>2. script[pc].op = "wait"
    BY <1>0, <2>1 DEF Shape
  <2>3. DOMAIN unread = Devices
    BY DEF FlowInv
  <2> QED
    BY <1>0, <2>2, <2>3
<1>2. sample' = 1 /\ Len(script[pc].what) \in Nat /\ Len(script[pc].what) >= 1
  BY <1>1, NowIs DEF PollAgain, Shape
<1>3. sample' \in 0..Len(script[pc].what)
  BY <1>2
<1> QED
  BY <1>1, <1>3, SampleFlow DEF PollAgain

LEMMA EventFlow ==
    ASSUME FlowInv, UNCHANGED controlVars, late' \subseteq late,
           UNCHANGED feedVars \/ \E d, type : Record(d, type)
    PROVE  FlowInv'
<1>1. DOMAIN unread = Devices
  BY DEF FlowInv
<1>2. DOMAIN unread' = Devices
  BY <1>1, RecordDomain DEF feedVars
<1> QED
  BY <1>2, StayFlow

LEMMA UncaughtFlow == ASSUME FlowInv, Uncaught PROVE FlowInv'
BY EventFlow DEF Uncaught

LEMMA LateFlow ==
    ASSUME FlowInv, NEW c \in late, LateCommand(c, Accepts(c), Effect(c))
    PROVE  FlowInv' /\ ~Live'
<1>1. UNCHANGED controlVars /\ late' \subseteq late /\ DOMAIN unread' = Devices
  BY EffectDomain DEF LateCommand
<1>2. ~Live
  BY DEF FlowInv, Live
<1> QED
  BY <1>1, <1>2, StayFlow DEF Live, Open, controlVars

LEMMA FlowStep == ASSUME FlowInv, MainInv, [SessionNext]_allVars PROVE FlowInv'
<1>1. CASE Proceeds
  <2>1. CASE Commands
    <3>1. PICK i \in open : \E how : CommandEnds(i, how)
      BY <2>1, CommandGoes
    <3> QED
      BY <3>1, CommandFlow
  <2> QED
    BY <1>1, <2>1, SamplesFlow, PickFlow, RaisesFlow, ReraiseFlow, ReportFlow, UncaughtFlow DEF Proceeds
<1>2. CASE PollAgain(rest) \/ DeadlinePassed(rest) \/ ReadFails(EndpointReads, rest)
  BY <1>2, PollFlow, RaisesFlow
<1>3. CASE \E c \in late : LateCommand(c, Accepts(c), Effect(c))
  BY <1>3, LateFlow
<1>4. CASE DevicesMove
  BY <1>4, DeviceMoves, EventFlow
<1>5. ASSUME NEW m, Deliver(m) PROVE FlowInv'
  <2>1. UNCHANGED controlVars /\ late' = late /\ \E d, type : Record(d, type)
    BY <1>5 DEF Deliver
  <2> QED
    BY <2>1, EventFlow
<1>6. ASSUME NEW d, Invokes(d) PROVE FlowInv'
  BY <1>6, EventFlow DEF Invokes
<1>7. CASE UNCHANGED allVars
  BY <1>7, EventFlow DEF allVars, stepVars
<1> QED
  BY <1>1, <1>2, <1>3, <1>4, <1>5, <1>6, <1>7 DEF SessionNext

-----------------------------------------------------------------------------
(* main(): the report and the exit status.                                 *)

LEMMA SameMain ==
    ASSUME SessionNext
    PROVE  UNCHANGED plan /\ (Reports \/ Uncaught \/ UNCHANGED <<results, exit>>)
<1>1. UNCHANGED rest => UNCHANGED <<plan, results, exit>>
  BY DEF rest, mainVars
<1>2. ASSUME NEW c, Effect(c) PROVE UNCHANGED <<plan, results, exit>>
  BY <1>2 DEF Effect, SendEffect, mainVars
<1>3. CASE Proceeds
  <2>1. Samples => UNCHANGED <<plan, results, exit>>
    BY DEF Samples, Sample
  <2>2. Pick(Seen(Condition), rest) => UNCHANGED <<plan, results, exit>>
    BY <1>1 DEF Pick
  <2>3. Counts => UNCHANGED <<plan, results, exit>>
    BY DEF Counts
  <2>4. Blocks => UNCHANGED <<plan, results, exit>>
    BY DEF Blocks, mainVars
  <2>5. Commands => UNCHANGED <<plan, results, exit>>
    BY <1>1, <1>2 DEF Commands, CommandOk, CommandAnswerLost, CommandRefused, CommandDelayed
  <2>6. Reraise(rest) => UNCHANGED <<plan, results, exit>>
    BY <1>1 DEF Reraise
  <2>7. Reports \/ Uncaught => UNCHANGED plan
    BY DEF Reports, Uncaught
  <2> QED
    BY <1>3, <2>1, <2>2, <2>3, <2>4, <2>5, <2>6, <2>7 DEF Proceeds
<1>4. CASE PollAgain(rest) \/ DeadlinePassed(rest) \/ ReadFails(EndpointReads, rest)
  BY <1>1, <1>4 DEF PollAgain, DeadlinePassed, ReadFails
<1>5. ASSUME NEW c, LateCommand(c, Accepts(c), Effect(c)) PROVE UNCHANGED <<plan, results, exit>>
  BY <1>2, <1>5 DEF LateCommand
<1>6. CASE DevicesMove /\ UNCHANGED <<messageVars, mainVars>>
  BY <1>6 DEF mainVars
<1>7. ASSUME NEW m, Deliver(m) PROVE UNCHANGED <<plan, results, exit>>
  BY <1>7 DEF Deliver, mainVars
<1>8. ASSUME NEW d, Invokes(d) PROVE UNCHANGED <<plan, results, exit>>
  BY <1>8 DEF Invokes, mainVars
<1> QED
  BY <1>3, <1>4, <1>5, <1>6, <1>7, <1>8 DEF SessionNext

LEMMA MainReports == ASSUME MainInv, Reports PROVE MainInv'
<1> DEFINE S == {"passed", "failed", "blocked"}
<1>1. /\ plan \in Seq(Scenarios) /\ results \in Seq(S) /\ plan' = plan
      /\ results' = Append(results, outcome) /\ outcome \in S
      /\ Len(results) < Len(plan) /\ \A i \in DOMAIN results : results[i] # "failed"
  BY DEF MainInv, Reports
<1>2. /\ results' \in Seq(S) /\ Len(results') = Len(results) + 1
      /\ DOMAIN results' = 1..(Len(results) + 1) /\ DOMAIN results = 1..Len(results)
      /\ results'[Len(results) + 1] = outcome
      /\ \A i \in 1..Len(results) : results'[i] = results[i]
  BY <1>1
<1>3. Len(results) \in Nat /\ Len(plan) \in Nat /\ DOMAIN plan = 1..Len(plan)
  BY <1>1
<1>4. CASE outcome # "failed" /\ Job < Len(plan)
  <2>1. exit' = "none"
    BY <1>4 DEF Reports
  <2>2. \A i \in DOMAIN results' : results'[i] # "failed"
    BY <1>1, <1>2, <1>3, <1>4
  <2>3. Len(results') < Len(plan')
    BY <1>1, <1>2, <1>3, <1>4 DEF Job
  <2> QED
    BY <1>1, <1>2, <2>1, <2>2, <2>3 DEF MainInv, ExitMeansAllPassed
<1>5. CASE ~(outcome # "failed" /\ Job < Len(plan))
  <2>1. exit' = ExitStatus(results')
    BY <1>5 DEF Reports
  <2>2. exit' \in {"0", "1"}
    BY <2>1 DEF ExitStatus
  <2>3. CASE outcome = "failed"
    <3>1. results'[Len(results')] = "failed" /\ Len(results') \in DOMAIN results'
      BY <1>2, <1>3, <2>3
    <3>2. exit' = "1"
      BY <2>1, <3>1 DEF ExitStatus
    <3> QED
      BY <1>1, <1>2, <3>1, <3>2 DEF MainInv, ExitMeansAllPassed
  <2>4. CASE outcome # "failed"
    <3>1. Len(results') = Len(plan')
      <4>1. ~(Len(results) + 1 < Len(plan))
        BY <1>5, <2>4 DEF Job
      <4>2. plan' = plan /\ Len(results) < Len(plan) /\ Len(results') = Len(results) + 1
        BY <1>1, <1>2
      <4>3. \A m, n \in Nat : ~(m + 1 < n) /\ m < n => m + 1 = n
        OBVIOUS
      <4>4. Len(results) + 1 = Len(plan)
        BY <1>3, <4>1, <4>2, <4>3
      <4> QED
        BY <4>2, <4>4
    <3>2. DOMAIN plan' = DOMAIN results'
      BY <1>1, <1>2, <1>3, <3>1
    <3>3. exit' = "0" => \A i \in DOMAIN results' : results'[i] = "passed"
      BY <2>1 DEF ExitStatus
    <3> QED
      BY <1>1, <1>2, <2>2, <3>1, <3>2, <3>3 DEF MainInv, ExitMeansAllPassed
  <2> QED
    BY <2>3, <2>4
<1> QED
  BY <1>4, <1>5

LEMMA MainStep == ASSUME MainInv, [SessionNext]_allVars PROVE MainInv'
<1>1. CASE Reports
  BY <1>1, MainReports
<1>2. CASE Uncaught
  BY <1>2 DEF MainInv, ExitMeansAllPassed, Uncaught
<1>3. CASE UNCHANGED <<plan, results, exit>>
  BY <1>3 DEF MainInv, ExitMeansAllPassed
<1>4. CASE UNCHANGED allVars
  BY <1>3, <1>4 DEF allVars, mainVars
<1> QED
  BY <1>1, <1>2, <1>3, <1>4, SameMain

-----------------------------------------------------------------------------
(* Messages: what a step does to the match between what is under way or    *)
(* unread and what is due, D; R are the devices the preflight has read.    *)

LEMMA Bounds == MaxHistory \in Nat /\ MaxHistory >= 1
BY RunnerBounds

(* An event recorded in a history.                                         *)
Remembers(g, h, x, S) ==
    /\ g \in Seq(S) /\ Len(g) =< MaxHistory
    /\ \E k \in DOMAIN g : g[k] = x
    /\ \A k \in DOMAIN g : g[k] = x \/ \E j \in DOMAIN h : h[j] = g[k]
    /\ \A j \in DOMAIN h : (Len(h) = MaxHistory /\ j = 1) \/ \E k \in DOMAIN g : g[k] = h[j]

LEMMA RetainedIs ==
    ASSUME NEW S, NEW h \in Seq(S), Len(h) =< MaxHistory, NEW x \in S, NEW g, g = Retained(Append(h, x))
    PROVE  Remembers(g, h, x, S)
<1> DEFINE n == Len(h)
           a == Append(h, x)
<1>1. n \in Nat /\ DOMAIN h = 1..n /\ n =< MaxHistory
  OBVIOUS
<1>2. /\ a \in Seq(S) /\ Len(a) = n + 1 /\ DOMAIN a = 1..(n + 1) /\ a[n + 1] = x
      /\ \A j \in 1..n : a[j] = h[j]
  BY <1>1, AppendProperties
<1>3. MaxHistory \in Nat /\ MaxHistory >= 1
  BY Bounds
<1> HIDE DEF a, n
<1>4. CASE n < MaxHistory
  <2>1. g = a
    <3>1. ~(Len(a) > MaxHistory)
      BY <1>1, <1>2, <1>3, <1>4
    <3> QED
      BY <3>1 DEF Retained, a
  <2>2. Len(g) =< MaxHistory /\ n + 1 \in DOMAIN g /\ \A j \in 1..n : j \in DOMAIN g
    BY <1>1, <1>2, <1>3, <1>4, <2>1
  <2>3. \A k \in DOMAIN g : k = n + 1 \/ k \in 1..n
    BY <1>1, <1>2, <2>1
  <2> QED
    BY <1>1, <1>2, <2>1, <2>2, <2>3 DEF Remembers
<1>5. CASE ~(n < MaxHistory)
  <2>0. n = MaxHistory /\ n >= 1
    BY <1>1, <1>3, <1>5
  <2>1. g = Tail(a)
    <3>1. Len(a) > MaxHistory
      BY <1>1, <1>2, <1>3, <2>0
    <3> QED
      BY <3>1 DEF Retained, a
  <2>2. a # <<>>
    BY <1>1, <1>2
  <2>3. /\ g \in Seq(S) /\ Len(g) = n /\ DOMAIN g = 1..n
        /\ \A k \in 1..n : g[k] = a[k + 1]
    BY <1>1, <1>2, <2>1, <2>2, HeadTailProperties
  <2>4. g[n] = x /\ n \in DOMAIN g
    BY <1>1, <1>2, <2>0, <2>3
  <2>5. ASSUME NEW k \in DOMAIN g PROVE g[k] = x \/ \E j \in DOMAIN h : h[j] = g[k]
    <3>1. g[k] = a[k + 1] /\ (k = n \/ k + 1 \in 1..n)
      BY <1>1, <2>3
    <3>2. CASE k = n
      BY <2>4, <3>2
    <3>3. CASE k + 1 \in 1..n
      BY <1>1, <1>2, <3>1, <3>3
    <3> QED
      BY <3>1, <3>2, <3>3
  <2>6. ASSUME NEW j \in DOMAIN h, j # 1 PROVE \E k \in DOMAIN g : g[k] = h[j]
    <3>1. j - 1 \in 1..n /\ (j - 1) + 1 = j
      BY <1>1, <2>6
    <3>2. g[j - 1] = a[j]
      BY <2>3, <3>1
    <3> QED
      BY <1>1, <1>2, <2>3, <3>1, <3>2
  <2> QED
    BY <2>0, <2>3, <2>4, <2>5, <2>6 DEF n, Remembers
<1> QED
  BY <1>4, <1>5

(* It: the recorded one is held, and no other is new.                      *)
LEMMA RecordIs ==
    ASSUME DOMAIN unread = Devices, NEW d, NEW type, Record(d, type)
    PROVE  /\ \A e \in Devices \ {d} : unread'[e] = unread[e]
           /\ d \in Devices /\ unread[d] \in Seq(EventTypes) /\ Len(unread[d]) =< MaxHistory /\ type \in EventTypes =>
                /\ unread'[d] \in Seq(EventTypes) /\ Len(unread'[d]) =< MaxHistory
                /\ Holding(d, type)'
                /\ \A x : Holding(d, x)' => x = type \/ Holding(d, x)
                /\ \A x \in Watched : Holding(d, x) => Holding(d, x)' \/ d \in missed'
           /\ missed \subseteq missed'
<1>1. \A e \in Devices \ {d} : unread'[e] = unread[e]
  BY DEF Record
<1>2. missed \subseteq missed'
  BY DEF Record
<1>3. ASSUME d \in Devices, unread[d] \in Seq(EventTypes), Len(unread[d]) =< MaxHistory, type \in EventTypes
      PROVE /\ unread'[d] \in Seq(EventTypes) /\ Len(unread'[d]) =< MaxHistory
            /\ Holding(d, type)'
            /\ \A x : Holding(d, x)' => x = type \/ Holding(d, x)
            /\ \A x \in Watched : Holding(d, x) => Holding(d, x)' \/ d \in missed'
  <2> DEFINE h == unread[d]
             g == unread'[d]
  <2>1. g = Retained(Append(h, type))
    BY <1>3 DEF Record
  <2>2. h \in Seq(EventTypes) /\ Len(h) =< MaxHistory
    BY <1>3
  <2>3. Len(h) = MaxHistory /\ h[1] \in Watched => d \in missed'
    BY DEF Record
  <2>4. \A x : (Holding(d, x) <=> \E j \in DOMAIN h : h[j] = x) /\ (Holding(d, x)' <=> \E j \in DOMAIN g : g[j] = x)
    BY DEF Holding
  <2> HIDE DEF g, h
  <2>5. /\ g \in Seq(EventTypes) /\ Len(g) =< MaxHistory
        /\ \E k \in DOMAIN g : g[k] = type
        /\ \A k \in DOMAIN g : g[k] = type \/ \E j \in DOMAIN h : h[j] = g[k]
        /\ \A j \in DOMAIN h : (Len(h) = MaxHistory /\ j = 1) \/ \E k \in DOMAIN g : g[k] = h[j]
    <3>1. type \in EventTypes
      BY <1>3
    <3> HIDE DEF EventTypes
    <3>2. Remembers(g, h, type, EventTypes)
      BY <2>1, <2>2, <3>1, RetainedIs
    <3> QED
      BY <3>2 DEF Remembers
  <2>6. Holding(d, type)'
    BY <2>4, <2>5
  <2>7. ASSUME NEW x, Holding(d, x)' PROVE x = type \/ Holding(d, x)
    BY <2>4, <2>5, <2>7
  <2>8. ASSUME NEW x \in Watched, Holding(d, x) PROVE Holding(d, x)' \/ d \in missed'
    BY <2>3, <2>4, <2>5, <2>8
  <2> QED
    BY <2>5, <2>6, <2>7, <2>8 DEF g
<1> QED
  BY <1>1, <1>2, <1>3

(* What is due are events of the scenarios, at devices.                    *)
IsDue(D) == \A q \in D : q[1] \in Devices /\ q[2] \subseteq Evidence

LEMMA TrackedAre == Tracked \subseteq Evidence /\ Tracked \subseteq EventTypes /\ Watched = Evidence
                    /\ \A m : Shown(m) \in Tracked
BY SessionScenario DEF Tracked, Evidence, EventTypes, Shown

(* An event recorded, with at most its message delivered.                  *)
LEMMA RecordFits ==
    ASSUME NEW D, NEW R, R \subseteq Devices, DOMAIN unread = Devices, IsDue(D), Fits(D, R), Awaited(D),
           NEW d \in Devices, NEW type \in EventTypes, Record(d, type),
           inflight' \subseteq inflight, type \in Tracked => <<d, {type}>> \in D,
           \A m \in inflight' : ~(m.to = d /\ Shown(m) = type),
           \A m \in inflight : m \in inflight' \/ (m.to = d /\ Shown(m) = type)
    PROVE  Fits(D, R)' /\ Awaited(D)'
<1>0. \A e \in Devices \ {d} : unread'[e] = unread[e]
  BY RecordIs
<1>1. ASSUME d \in R
      PROVE  /\ unread'[d] \in Seq(EventTypes) /\ Len(unread'[d]) =< MaxHistory
             /\ Holding(d, type)'
             /\ \A x : Holding(d, x)' => x = type \/ Holding(d, x)
             /\ \A x \in Watched : Holding(d, x) => Holding(d, x)' \/ d \in missed'
  <2>1. unread[d] \in Seq(EventTypes) /\ Len(unread[d]) =< MaxHistory
    BY <1>1 DEF Fits
  <2> QED
    BY <2>1, RecordIs
<1>2. missed \subseteq missed'
  BY RecordIs
<1>3. \A e \in Devices \ {d} : \A x : Holding(e, x)' <=> Holding(e, x)
  BY <1>0 DEF Holding
<1>4. D # {} => R = Devices
  BY DEF Fits
<1>5. \A e \in R : unread'[e] \in Seq(EventTypes) /\ Len(unread'[e]) =< MaxHistory
  BY <1>0, <1>1 DEF Fits
<1>6. \A m \in inflight : m.to \in Devices /\ <<m.to, {Shown(m)}>> \in D
  BY DEF Fits
<1>7. \A m, n \in inflight' : m.to = n.to /\ Shown(m) = Shown(n) => m = n
  BY DEF Fits
<1>8. ASSUME NEW e \in R, NEW x \in Tracked, Holding(e, x)' PROVE <<e, {x}>> \in D
  <2>1. Holding(e, x) => <<e, {x}>> \in D
    BY DEF Fits
  <2>2. CASE e = d
    BY <1>1, <1>8, <2>1, <2>2
  <2>3. CASE e # d
    BY <1>3, <1>8, <2>1, <2>3
  <2> QED
    BY <2>2, <2>3
<1>9. ASSUME NEW m \in inflight', Holding(m.to, Shown(m))' PROVE FALSE
  <2>1. m \in inflight /\ ~Holding(m.to, Shown(m)) /\ m.to \in Devices
    BY <1>6 DEF Fits
  <2>2. R = Devices
    BY <1>4, <1>6, <2>1
  <2>3. CASE m.to = d
    BY <1>1, <1>9, <2>1, <2>2, <2>3
  <2>4. CASE m.to # d
    BY <1>3, <1>9, <2>1, <2>4
  <2> QED
    BY <2>3, <2>4
<1>10. Fits(D, R)'
  <2>1. \A m \in inflight' : m.to \in Devices /\ <<m.to, {Shown(m)}>> \in D
    BY <1>6
  <2> QED
    BY <1>4, <1>5, <1>7, <1>8, <1>9, <2>1 DEF Fits
<1>11. ASSUME NEW q \in D, q[2] # {"durable"}
       PROVE  \/ \E m \in inflight' : <<m.to, {Shown(m)}>> = q
              \/ \E x \in q[2] : Holding(q[1], x)'
              \/ q[1] \in missed'
  <2>0. R = Devices /\ q[1] \in Devices /\ q[2] \subseteq Watched
    BY <1>4, TrackedAre DEF IsDue
  <2>1. \/ \E m \in inflight : <<m.to, {Shown(m)}>> = q
        \/ \E x \in q[2] : Holding(q[1], x)
        \/ q[1] \in missed
    BY <1>11 DEF Awaited
  <2>2. ASSUME NEW m \in inflight, <<m.to, {Shown(m)}>> = q, m \notin inflight'
        PROVE  \E x \in q[2] : Holding(q[1], x)'
    <3>1. m.to = d /\ Shown(m) = type
      BY <2>2
    <3>2. q[1] = d /\ type \in q[2]
      BY <2>2, <3>1
    <3> QED
      BY <1>1, <2>0, <3>2
  <2>3. ASSUME NEW x \in q[2], Holding(q[1], x)
        PROVE  Holding(q[1], x)' \/ q[1] \in missed'
    <3>1. CASE q[1] = d
      BY <1>1, <2>0, <2>3, <3>1
    <3>2. CASE q[1] # d
      BY <1>3, <2>0, <2>3, <3>2
    <3> QED
      BY <3>1, <3>2
  <2> QED
    BY <1>2, <2>1, <2>2, <2>3
<1>12. Awaited(D)'
  BY <1>11 DEF Awaited
<1> QED
  BY <1>10, <1>12

(* A message sent.                                                         *)
LEMMA SendFits ==
    ASSUME NEW D, Fits(D, Devices), Awaited(D), NEW m, m.to \in Devices,
           NEW q, q = <<m.to, {Shown(m)}>>, q \notin D,
           inflight' = inflight \cup {m}, UNCHANGED <<unread, missed>>
    PROVE  Fits(D \cup {q}, Devices)' /\ Awaited(D \cup {q})'
<1>1. \A e, x : Holding(e, x)' <=> Holding(e, x)
  BY DEF Holding
<1>2. \A n \in inflight : n.to \in Devices /\ <<n.to, {Shown(n)}>> \in D
  BY DEF Fits
<1>3. \A n \in inflight : ~(n.to = m.to /\ Shown(n) = Shown(m))
  BY <1>2
<1>4. \A n, k \in inflight' : n.to = k.to /\ Shown(n) = Shown(k) => n = k
  BY <1>3 DEF Fits
<1>5. \A d \in Devices, type \in Tracked : Holding(d, type) => <<d, {type}>> \in D
  BY DEF Fits
<1>6. ~Holding(m.to, Shown(m))
  BY <1>5, TrackedAre
<1>7. \A n \in inflight' : n.to \in Devices /\ <<n.to, {Shown(n)}>> \in D \cup {q} /\ ~Holding(n.to, Shown(n))'
  BY <1>1, <1>2, <1>6 DEF Fits
<1>8. \A d \in Devices : unread'[d] \in Seq(EventTypes) /\ Len(unread'[d]) =< MaxHistory
  BY DEF Fits
<1>9. Fits(D \cup {q}, Devices)'
  BY <1>1, <1>4, <1>5, <1>7, <1>8 DEF Fits
<1>10. ASSUME NEW p \in D \cup {q}, p[2] # {"durable"}
       PROVE  \/ \E n \in inflight' : <<n.to, {Shown(n)}>> = p
              \/ \E type \in p[2] : Holding(p[1], type)'
              \/ p[1] \in missed'
  <2>1. CASE p = q
    BY <2>1
  <2>2. CASE p \in D
    BY <1>1, <1>10, <2>2 DEF Awaited
  <2> QED
    BY <2>1, <2>2
<1>11. Awaited(D \cup {q})'
  BY <1>10 DEF Awaited
<1> QED
  BY <1>9, <1>11

(* A publication accepted: checkpointAccepted is recorded at once.         *)
LEMMA PublishFits ==
    ASSUME DOMAIN unread = Devices, Fits({}, Devices), NEW d \in Devices,
           NEW m, m.to = d, Shown(m) = "durable", inflight' = inflight \cup {m},
           Record(d, "checkpointAccepted"),
           NEW D, D = {<<d, {"checkpointAccepted"}>>, <<d, {"durable"}>>}
    PROVE  Fits(D, Devices)' /\ Awaited(D)'
<1>1. "checkpointAccepted" \in EventTypes /\ "checkpointAccepted" \notin Tracked
  BY DEF EventTypes, Evidence, Tracked
<1>2. \A e \in Devices : unread[e] \in Seq(EventTypes) /\ Len(unread[e]) =< MaxHistory
  BY DEF Fits
<1>3. /\ \A e \in Devices \ {d} : unread'[e] = unread[e]
      /\ unread'[d] \in Seq(EventTypes) /\ Len(unread'[d]) =< MaxHistory
      /\ Holding(d, "checkpointAccepted")'
      /\ \A x : Holding(d, x)' => x = "checkpointAccepted" \/ Holding(d, x)
  BY <1>1, <1>2, RecordIs
<1>4. \A e \in Devices \ {d} : \A x : Holding(e, x)' <=> Holding(e, x)
  BY <1>3 DEF Holding
<1>5. \A e \in Devices : unread'[e] \in Seq(EventTypes) /\ Len(unread'[e]) =< MaxHistory
  BY <1>2, <1>3
<1>6. \A e \in Devices : \A x \in Tracked : ~Holding(e, x)
  BY DEF Fits
<1>7. \A e \in Devices : \A x \in Tracked : ~Holding(e, x)'
  BY <1>1, <1>3, <1>4, <1>6
<1>8. inflight' = {m}
  BY DEF Fits
<1>9. <<m.to, {Shown(m)}>> \in D /\ Shown(m) \in Tracked
  BY TrackedAre
<1>10. Fits(D, Devices)'
  BY <1>5, <1>7, <1>8, <1>9 DEF Fits
<1>11. Awaited(D)'
  <2>1. ASSUME NEW q \in D, q[2] # {"durable"} PROVE \E x \in q[2] : Holding(q[1], x)'
    <3>1. q = <<d, {"checkpointAccepted"}>>
      BY <2>1
    <3> QED
      BY <1>3, <3>1
  <2> QED
    BY <2>1 DEF Awaited
<1> QED
  BY <1>10, <1>11

(* A read that empties what is unread of d.                                *)
LEMMA EmptyIs ==
    ASSUME DOMAIN unread = Devices, NEW d, unread' = [unread EXCEPT ![d] = <<>>]
    PROVE  /\ \A e \in Devices \ {d} : unread'[e] = unread[e]
           /\ d \in Devices => unread'[d] = <<>>
           /\ \A e \in Devices : \A x : Holding(e, x)' <=> e # d /\ Holding(e, x)
<1>1. \A e \in Devices \ {d} : unread'[e] = unread[e]
  OBVIOUS
<1>2. d \in Devices => unread'[d] = <<>>
  OBVIOUS
<1>3. DOMAIN <<>> = {}
  OBVIOUS
<1> QED
  BY <1>1, <1>2, <1>3 DEF Holding

LEMMA EmptyFits ==
    ASSUME NEW D, NEW R, R \subseteq Devices, DOMAIN unread = Devices, Fits(D, R), NEW d,
           unread' = [unread EXCEPT ![d] = <<>>], inflight' = inflight,
           NEW D2, D2 \subseteq D, \A m \in inflight : <<m.to, {Shown(m)}>> \in D2,
           \A p \in D : p \in D2 \/ p[1] = d,
           NEW R2, R2 \subseteq Devices, R2 \subseteq R \cup {d}, D2 # {} => R2 = Devices
    PROVE  Fits(D2, R2)'
<1>1. /\ \A e \in Devices \ {d} : unread'[e] = unread[e]
      /\ d \in Devices => unread'[d] = <<>>
      /\ \A e \in Devices : \A x : Holding(e, x)' <=> e # d /\ Holding(e, x)
  BY EmptyIs
<1>2. <<>> \in Seq(EventTypes) /\ Len(<<>>) =< MaxHistory
  BY Bounds
<1>3. \A e \in R2 : unread'[e] \in Seq(EventTypes) /\ Len(unread'[e]) =< MaxHistory
  BY <1>1, <1>2 DEF Fits
<1>4. \A m \in inflight' : m.to \in Devices /\ <<m.to, {Shown(m)}>> \in D2 /\ ~Holding(m.to, Shown(m))'
  BY <1>1 DEF Fits
<1>5. \A m, n \in inflight' : m.to = n.to /\ Shown(m) = Shown(n) => m = n
  BY DEF Fits
<1>6. ASSUME NEW e \in R2, NEW x \in Tracked, Holding(e, x)' PROVE <<e, {x}>> \in D2
  <2>1. e # d /\ Holding(e, x)
    BY <1>1, <1>6
  <2>2. <<e, {x}>> \in D
    BY <2>1 DEF Fits
  <2> QED
    BY <2>1, <2>2
<1> QED
  BY <1>3, <1>4, <1>5, <1>6 DEF Fits

(* The search for an event at d, found or not.                             *)
LEMMA SearchFits ==
    ASSUME NEW D, DOMAIN unread = Devices, Fits(D, Devices), Awaited(D),
           NEW d, NEW type, type \in Tracked \cup {"checkpointAccepted"},
           unread' = [unread EXCEPT ![d] = <<>>], UNCHANGED <<inflight, missed>>,
           \A q \in D : q = <<d, {type}>> \/ q[1] # d \/ q[2] = {"durable"},
           NEW D2, D2 \subseteq D, D \subseteq D2 \cup {<<d, {type}>>},
           \/ ~Holding(d, type) /\ D2 = D
           \/ Holding(d, type) /\ \A q \in D2 : q[1] # d \/ q[2] = {"durable"}
    PROVE  Fits(D2, Devices)' /\ Awaited(D2)'
<1>1. \A e \in Devices : \A x : Holding(e, x)' <=> e # d /\ Holding(e, x)
  BY EmptyIs
<1>2. ASSUME NEW m \in inflight PROVE <<m.to, {Shown(m)}>> \in D2
  <2>1. <<m.to, {Shown(m)}>> \in D /\ ~Holding(m.to, Shown(m))
    BY DEF Fits
  <2>2. CASE <<m.to, {Shown(m)}>> = <<d, {type}>>
    <3>1. m.to = d /\ Shown(m) = type
      BY <2>2
    <3> QED
      BY <2>1, <3>1
  <2> QED
    BY <2>1, <2>2
<1>3. \A p \in D : p \in D2 \/ p[1] = d
  OBVIOUS
<1>4. Fits(D2, Devices)'
  BY <1>2, <1>3, EmptyFits
<1>5. ASSUME NEW q \in D2, q[2] # {"durable"}
      PROVE  \/ \E m \in inflight' : <<m.to, {Shown(m)}>> = q
             \/ \E x \in q[2] : Holding(q[1], x)'
             \/ q[1] \in missed'
  <2>1. \/ \E m \in inflight : <<m.to, {Shown(m)}>> = q
        \/ \E x \in q[2] : Holding(q[1], x)
        \/ q[1] \in missed
    BY <1>5 DEF Awaited
  <2>2. ASSUME NEW x \in q[2], Holding(q[1], x), q[1] # d PROVE Holding(q[1], x)'
    BY <1>1, <2>2 DEF Holding
  <2>3. CASE q[1] = d
    <3>1. q = <<d, {type}>> /\ ~Holding(d, type)
      BY <1>5, <2>3
    <3> QED
      BY <2>1, <3>1
  <2> QED
    BY <2>1, <2>2, <2>3
<1>6. Awaited(D2)'
  BY <1>5 DEF Awaited
<1> QED
  BY <1>4, <1>6

(* A read while nothing is due.                                            *)
LEMMA QuietFits ==
    ASSUME NEW R, R \subseteq Devices, DOMAIN unread = Devices, Fits({}, R), inflight' = inflight, NEW R2,
           \/ unread' = unread /\ R2 \subseteq R
           \/ \E d : unread' = [unread EXCEPT ![d] = <<>>] /\ R2 \subseteq R \cup {d} /\ R2 \subseteq Devices
    PROVE  Fits({}, R2)' /\ Awaited({})'
<1>1. Awaited({})'
  BY DEF Awaited
<1>2. inflight = {}
  BY DEF Fits
<1>3. CASE unread' = unread /\ R2 \subseteq R
  <2>1. \A e, x : Holding(e, x)' <=> Holding(e, x)
    BY <1>3 DEF Holding
  <2>2. \A e \in R2 : unread'[e] \in Seq(EventTypes) /\ Len(unread'[e]) =< MaxHistory
    BY <1>3 DEF Fits
  <2>3. \A e \in R2, type \in Tracked : ~Holding(e, type)'
    BY <1>3, <2>1 DEF Fits
  <2>4. Fits({}, R2)'
    BY <1>2, <2>2, <2>3 DEF Fits
  <2> QED
    BY <1>1, <2>4
<1>4. ASSUME NEW d, unread' = [unread EXCEPT ![d] = <<>>], R2 \subseteq R \cup {d}, R2 \subseteq Devices
      PROVE  Fits({}, R2)'
  <2>1. /\ \A e \in Devices \ {d} : unread'[e] = unread[e]
        /\ d \in Devices => unread'[d] = <<>>
        /\ \A e \in Devices : \A x : Holding(e, x)' <=> e # d /\ Holding(e, x)
    BY <1>4, EmptyIs
  <2>2. <<>> \in Seq(EventTypes) /\ Len(<<>>) =< MaxHistory
    BY Bounds
  <2>3. \A e \in R2 : unread'[e] \in Seq(EventTypes) /\ Len(unread'[e]) =< MaxHistory
    BY <1>4, <2>1, <2>2 DEF Fits
  <2>4. \A e \in R2, type \in Tracked : ~Holding(e, type)'
    BY <1>4, <2>1 DEF Fits
  <2> QED
    BY <1>2, <2>3, <2>4 DEF Fits
<1> QED
  BY <1>1, <1>3, <1>4

-----------------------------------------------------------------------------
(* What is due before and after a step.                                    *)

LEMMA BothAims ==
    /\ DOMAIN Both = {1, 2}
    /\ Aimed(Both[1]) = <<Second, {"groupMessageReceived"}>>
    /\ Aimed(Both[2]) = <<First, {"groupMessageReceived"}>>
    /\ \A i \in {1, 2} : Both[i].name = "sendGroup" /\ Both[i].on \in Devices
<1>1. DOMAIN Both = {1, 2} /\ Both[1] = To("sendGroup", First, Second) /\ Both[2] = To("sendGroup", Second, First)
  BY DEF Both
<1>2. First \in Devices /\ Second \in Devices
  BY DevicesAre
<1>3. ASSUME NEW d, NEW e
      PROVE  LET c == To("sendGroup", d, e)
             IN  Aimed(c) = <<e, {"groupMessageReceived"}>> /\ c.name = "sendGroup" /\ c.on = d
  BY DEF To, Command, Aimed, Destination, Shown
<1> QED
  BY <1>1, <1>2, <1>3

LEMMA DueTypes ==
    ASSUME FlowInv, outcome = "running", scenario \notin Counted
    PROVE  IsDue(DueAt(pc, open))
<1>1. /\ scenario \in Scenarios /\ pc \in 1..Len(script) /\ pc \in Nat /\ Shape(pc)
      /\ First \in Devices /\ Second \in Devices
  BY NowIs, DevicesAre
<1>2. "groupMessageReceived" \in Evidence /\ "checkpointAccepted" \in Evidence /\ "durable" \in Evidence
  BY DEF Evidence
<1>3. CASE script[pc].op = "pair"
  <2>1. script[pc].what = Both
    BY <1>1, <1>3 DEF Shape, Two, Simple
  <2>2. \A q \in DueAt(pc, open) : q \in {<<Second, {"groupMessageReceived"}>>, <<First, {"groupMessageReceived"}>>}
    BY <1>3, <2>1, BothAims DEF DueAt
  <2> QED
    BY <1>1, <1>2, <2>2 DEF IsDue
<1>4. CASE IsFind(pc)
  <2>1. PICK k \in 1..Len(script) :
            \/ pc = k + 1 /\ Sender(k)
            \/ pc = k + 2 /\ (Two(k) \/ Three(k))
    BY <1>1, <1>4, FindFollows DEF Follows
  <2>2. ASSUME NEW d, NEW e, NEW x, NEW y, Pending(k, d, e, x, y), pc = k + 1 \/ pc = k + 2,
               d \in Devices, e \in Devices, x \in Evidence, y \in Evidence
        PROVE  IsDue(DueAt(pc, open))
    <3>1. \A q \in DueAt(pc, open) : q \in {<<d, {x}>>, <<e, {y}>>}
      BY <2>2 DEF Pending
    <3> QED
      BY <2>2, <3>1 DEF IsDue
  <2>3. ASSUME NEW c, One(k, c), pc = k + 1 PROVE IsDue(DueAt(pc, open))
    <3>1. DueAt(pc, open) = {<<c.arg, {Shown(c)}>>}
      BY <1>1, <2>3, OneDue
    <3>2. c.arg \in Devices /\ Shown(c) \in Evidence
      BY <2>3, TrackedAre DEF One
    <3> QED
      BY <3>1, <3>2 DEF IsDue
  <2>4. CASE Two(k)
    BY <1>1, <1>2, <2>1, <2>2, <2>4, TwoDue
  <2>5. CASE Three(k)
    <3>1. script[pc].toChosen
      BY <2>1, <2>5 DEF Three
    <3>2. chosen \in Devices
      BY <3>1 DEF FlowInv, Open
    <3> QED
      BY <1>1, <1>2, <2>1, <2>2, <2>5, <3>2, ThreeDue
  <2> QED
    BY <2>1, <2>3, <2>4, <2>5 DEF Sender
<1>5. CASE script[pc].op # "pair" /\ ~IsFind(pc)
  BY <1>5 DEF DueAt, IsDue
<1> QED
  BY <1>3, <1>4, <1>5

LEMMA MatchedGives ==
    ASSUME FlowInv, MatchedInv, Live, scenario \notin Counted
    PROVE  Fits(Due, Read) /\ Awaited(Due) /\ IsDue(Due) /\ Read \subseteq Devices /\ DOMAIN unread = Devices
<1>1. Fits(Due, Read) /\ Awaited(Due)
  BY DEF MatchedInv
<1>2. DOMAIN unread = Devices
  BY DEF FlowInv
<1>3. Read \subseteq Devices
  BY DevicesAre DEF Read
<1>4. IsDue(Due)
  <2>1. CASE outcome = "running"
    BY <2>1, DueTypes DEF Due
  <2>2. CASE outcome # "running"
    BY <2>2 DEF Due, IsDue
  <2> QED
    BY <2>1, <2>2
<1> QED
  BY <1>1, <1>2, <1>3, <1>4

LEMMA MatchedFrom ==
    ASSUME NEW D, NEW R, Due' = D, Read' = R, Fits(D, R)', Awaited(D)'
    PROVE  MatchedInv'
<1>1. Fits(Due, Read)'
  BY DEF Fits
<1>2. Awaited(Due)'
  BY DEF Awaited
<1> QED
  BY <1>1, <1>2 DEF MatchedInv

LEMMA SameDue ==
    ASSUME script' = script, chosen' = chosen, outcome' = "running", NEW p, pc' = p, NEW o, open' = o
    PROVE  Due' = DueAt(p, o)
<1>1. Due' = DueAt(p, o)'
  BY DEF Due, DueAt
<1>2. \A i : Looked(i)' = Looked(i)
  BY DEF Looked, Resolved
<1>3. \A i : IsFind(i)' <=> IsFind(i)
  BY DEF IsFind
<1>4. script[p]' = script[p]
  OBVIOUS
<1>5. CASE script[p].op = "pair"
  <2>1. \A c : Aimed(c)' = Aimed(c)
    BY DEF Aimed
  <2>2. DueAt(p, o)' = {Aimed(script[p].what[i]) : i \in {1, 2} \ o}
    BY <1>4, <1>5, <2>1 DEF DueAt
  <2> QED
    BY <1>1, <1>5, <2>2 DEF DueAt
<1>6. CASE script[p].op # "pair" /\ IsFind(p)
  <2>1. {j \in {p, p + 1} : IsFind(j)}' = {j \in {p, p + 1} : IsFind(j)}
    BY <1>3
  <2>2. DueAt(p, o)' = {Looked(i) : i \in {j \in {p, p + 1} : IsFind(j)}}'
    BY <1>3, <1>4, <1>6 DEF DueAt
  <2>3. DueAt(p, o) = {Looked(i) : i \in {j \in {p, p + 1} : IsFind(j)}}
    BY <1>6 DEF DueAt
  <2> HIDE DEF Looked, IsFind
  <2> QED
    BY <1>1, <1>2, <2>1, <2>2, <2>3
<1>7. CASE script[p].op # "pair" /\ ~IsFind(p)
  BY <1>1, <1>3, <1>4, <1>7 DEF DueAt
<1> QED
  BY <1>5, <1>6, <1>7

LEMMA NothingDue ==
    ASSUME outcome' # "running" \/ script'[pc'].op \notin {"pair", "wait"}
    PROVE  Due' = {}
BY DEF Due, DueAt, IsFind

(* The preflight is steps 1 and 2.                                         *)
LEMMA FirstSteps ==
    ASSUME FlowInv, outcome = "running", pc \in {1, 2}
    PROVE  /\ pc + 1 \in 1..Len(script) /\ ~script[pc].toChosen /\ Len(script[pc].what) = 2 /\ Now = script[pc]
           /\ script[pc].op = IF pc = 1 THEN "check" ELSE "wait"
           /\ pc = 1 => script[pc].what[1] = Health(First) /\ script[pc].what[2] = Health(Second)
           /\ pc = 2 => script[pc].what[1] = Presence(First) /\ script[pc].what[2] = Presence(Second)
           /\ ~IsFind(pc) /\ ~Guarded(script, pc)
<1>1. scenario \in Scenarios /\ (~script[pc].toChosen => Now = script[pc])
  BY NowIs
<1>2. script[1] = Preflight[1] /\ script[2] = Preflight[2] /\ Len(script) \in Nat /\ Len(script) > 2
  BY <1>1, ScriptIs
<1>3. pc + 1 \in 1..Len(script)
  BY <1>2
<1>4. "end" \notin CancelLabels
  BY DEF CancelLabels
<1>5. Plain(script[pc]) => ~Guarded(script, pc)
  BY <1>4 DEF Plain, Guarded, Leads
<1>6. \A d : Health(d).kind = "health" /\ Presence(d).kind = "presence"
  BY DEF Health, Presence, Shows, Events
<1>7. CASE pc = 1
  BY <1>1, <1>2, <1>3, <1>5, <1>6, <1>7, PreflightIs DEF IsFind
<1>8. CASE pc = 2
  BY <1>1, <1>2, <1>3, <1>5, <1>6, <1>8, PreflightIs DEF IsFind
<1> QED
  BY <1>7, <1>8

LEMMA GotoDue ==
    ASSUME FlowInv, outcome = "running", scenario \notin Counted, Goto(Now.then)
    PROVE  /\ ~IsFind(pc + 1) => Due' = {}
           /\ IsFind(pc + 1) => \E o : Due' = DueAt(pc + 1, o)
<1>1. /\ scenario \in Scenarios /\ pc \in 1..Len(script) /\ pc \in Nat /\ Len(script) \in Nat
  BY NowIs
<1>2. CASE Finishes
  <2>1. outcome' = "passed" /\ ~(pc + 1 \in 1..Len(script))
    BY <1>1, <1>2 DEF Finishes, End
  <2> QED
    BY <2>1, NothingDue DEF IsFind
<1>3. CASE Onward
  <2>1. PICK p : p = pc + 1
    OBVIOUS
  <2>2. PICK o : o = open'
    OBVIOUS
  <2>3. /\ p \in 1..Len(script) /\ script' = script /\ chosen' = chosen /\ outcome' = "running" /\ pc' = p
        /\ open' = IF script[p].op \in {"cmd", "pair"} THEN DOMAIN script[p].what ELSE {}
    BY <1>3, <2>1 DEF Onward, Enter, script
  <2>4. Due' = DueAt(p, o)
    BY <2>2, <2>3, SameDue
  <2>5. Shape(p)
    BY <1>1, <2>3, ShapesAre
  <2>6. script[p].op = "pair" => o = {1, 2}
    BY <2>2, <2>3, <2>5 DEF Shape
  <2>7. ~IsFind(p) => Due' = {}
    BY <2>4, <2>6, FreshDue
  <2> QED
    BY <2>1, <2>4, <2>7
<1>4. CASE Around
  <2>1. PICK j \in 1..Len(script) : Enter(j) /\ script[j].at \in DoneLabels
    BY <1>4 DEF Around
  <2>2. script'[pc'].op = "reraise"
    <3>1. Shape(j)
      BY <1>1, ShapesAre
    <3>2. script[j].op = "reraise"
      BY <2>1, <3>1 DEF Shape, Rethrows
    <3>3. script' = script /\ pc' = j
      BY <2>1 DEF Enter, script
    <3> QED
      BY <3>2, <3>3
  <2>3. ~IsFind(pc + 1)
    BY <1>1, <1>4, NextNoFind DEF Around, Aside
  <2> QED
    BY <2>2, <2>3, NothingDue
<1> QED
  BY <1>2, <1>3, <1>4, GotoGoes

LEMMA GotoRead ==
    ASSUME FlowInv, outcome = "running", Goto(Now.then)
    PROVE  /\ pc > 1 => Read' = Devices
           /\ pc = 1 => Read' = {}
<1>1. /\ scenario \in Scenarios /\ pc \in 1..Len(script) /\ pc \in Nat /\ Len(script) \in Nat
  BY NowIs
<1>2. Len(script) > 2 /\ script[1] = Preflight[1] /\ script[2] = Preflight[2]
  BY <1>1, ScriptIs
<1>3. CASE Finishes
  <2>1. pc' = pc /\ pc > 2
    BY <1>1, <1>2, <1>3 DEF Finishes, End
  <2> QED
    BY <1>1, <2>1 DEF Read
<1>4. CASE Onward
  <2>1. pc' = pc + 1 /\ sample' = 1
    BY <1>4 DEF Onward, Enter
  <2> QED
    BY <1>1, <2>1 DEF Read
<1>5. CASE Around
  <2>1. PICK j \in 1..Len(script) : Enter(j) /\ script[j].at \in DoneLabels
    BY <1>5 DEF Around
  <2>2. j \in Nat /\ j # 1 /\ j # 2
    <3>1. Preflight[1].at \notin DoneLabels /\ Preflight[2].at \notin DoneLabels
      BY PreflightIs DEF Plain, DoneLabels
    <3> QED
      BY <1>1, <1>2, <2>1, <3>1
  <2>3. pc' = j /\ j > 2
    BY <1>1, <2>1, <2>2 DEF Enter
  <2>4. pc # 1
    BY <1>5, FirstSteps DEF Around
  <2> QED
    BY <2>2, <2>3, <2>4 DEF Read
<1> QED
  BY <1>3, <1>4, <1>5, GotoGoes

(* A step is one that waits for an event, or one that sends, or neither.   *)
LEMMA AsideWhen ==
    ASSUME FlowInv, outcome = "running", scenario \notin Counted, ~IsFind(pc), ~Sender(pc)
    PROVE  Aside(pc) /\ ~IsFind(pc + 1)
<1>1. scenario \in Scenarios /\ pc \in 1..Len(script)
  BY NowIs
<1>2. Aside(pc)
  BY <1>1, KindsAre DEF Sender
<1> QED
  BY <1>1, <1>2, NextNoFind

-----------------------------------------------------------------------------
(* Every step keeps the match.                                             *)

LEMMA UnchangedDue ==
    ASSUME UNCHANGED <<scenario, pc, open, chosen, outcome>>
    PROVE  Due' = Due
<1>0. script' = script
  BY DEF script
<1>1. CASE outcome = "running"
  <2>1. PICK p, o : p = pc /\ o = open
    OBVIOUS
  <2>2. Due' = DueAt(p, o)
    BY <1>0, <1>1, <2>1, SameDue
  <2> QED
    BY <1>1, <2>1, <2>2 DEF Due
<1>2. CASE outcome # "running"
  BY <1>2, NothingDue DEF Due
<1> QED
  BY <1>1, <1>2

LEMMA MatchedEvent ==
    ASSUME FlowInv, MatchedInv, UNCHANGED controlVars, inflight' = inflight,
           \/ UNCHANGED feedVars
           \/ \E d \in Devices : \E type \in {"unstable", "other", "connectFailed", "invoke"} : Record(d, type)
    PROVE  MatchedInv'
<1>1. SUFFICES ASSUME Live', scenario' \notin Counted PROVE MatchedInv'
  BY DEF MatchedInv
<1>2. Live /\ scenario \notin Counted
  BY <1>1 DEF Live, Open, controlVars
<1>3. PICK D, R : D = Due /\ R = Read
  OBVIOUS
<1>4. Fits(D, R) /\ Awaited(D) /\ IsDue(D) /\ R \subseteq Devices /\ DOMAIN unread = Devices
  BY <1>2, <1>3, MatchedGives
<1>5. Due' = D /\ Read' = R
  BY <1>3, UnchangedDue DEF controlVars, Read
<1>6. CASE UNCHANGED feedVars
  <2>1. Fits(D, R)' /\ Awaited(D)'
    BY <1>4, <1>6 DEF feedVars, Fits, Awaited, Holding
  <2> QED
    BY <1>5, <2>1, MatchedFrom
<1>7. ASSUME NEW d \in Devices, NEW type \in {"unstable", "other", "connectFailed", "invoke"}, Record(d, type)
      PROVE  MatchedInv'
  <2>1. type \in EventTypes /\ type \notin Tracked
    BY DEF EventTypes, Tracked
  <2>2. \A m \in inflight' : ~(m.to = d /\ Shown(m) = type)
    BY <2>1, TrackedAre
  <2>3. Fits(D, R)' /\ Awaited(D)'
    BY <1>4, <1>7, <2>1, <2>2, RecordFits
  <2> QED
    BY <1>5, <2>3, MatchedFrom
<1> QED
  BY <1>6, <1>7

LEMMA DeliverIs ==
    ASSUME NEW m, Deliver(m)
    PROVE  Record(m.to, Shown(m)) /\ inflight' = inflight \ {m} /\ UNCHANGED controlVars
           /\ UNCHANGED <<sends, received>> /\ late' = late
BY DEF Deliver, Shown

LEMMA MatchedDeliver ==
    ASSUME FlowInv, MatchedInv, NEW m \in inflight, Deliver(m)
    PROVE  MatchedInv'
<1>1. SUFFICES ASSUME Live', scenario' \notin Counted PROVE MatchedInv'
  BY DEF MatchedInv
<1>2. Record(m.to, Shown(m)) /\ inflight' = inflight \ {m} /\ UNCHANGED controlVars
  BY DeliverIs
<1>3. Live /\ scenario \notin Counted
  BY <1>1, <1>2 DEF Live, Open, controlVars
<1>4. PICK D, R : D = Due /\ R = Read
  OBVIOUS
<1>5. Fits(D, R) /\ Awaited(D) /\ IsDue(D) /\ R \subseteq Devices /\ DOMAIN unread = Devices
  BY <1>3, <1>4, MatchedGives
<1>6. Due' = D /\ Read' = R
  BY <1>2, <1>4, UnchangedDue DEF controlVars, Read
<1>7. m.to \in Devices /\ <<m.to, {Shown(m)}>> \in D /\ Shown(m) \in EventTypes
  BY <1>5, TrackedAre DEF Fits
<1>8. \A n \in inflight' : ~(n.to = m.to /\ Shown(n) = Shown(m))
  BY <1>2, <1>5 DEF Fits
<1>9. Fits(D, R)' /\ Awaited(D)'
  BY <1>2, <1>5, <1>7, <1>8, RecordFits
<1> QED
  BY <1>6, <1>9, MatchedFrom

(* What is read by a sample.                                               *)
LEMMA SampleReads ==
    ASSUME Samples
    PROVE  /\ inflight' = inflight /\ scenario' = scenario /\ sends' = sends
           /\ IF Condition.kind \in EventKinds THEN Reading(Condition) ELSE UNCHANGED feedVars
<1>1. inflight' = inflight /\ sends' = sends
  BY DEF Samples, Sample
<1>2. scenario' = scenario
  BY DEF Samples, Sample, Goto, Raise, Enter, End
<1>3. IF Condition.kind \in EventKinds THEN Reading(Condition) ELSE UNCHANGED feedVars
  BY DEF Samples, Sample
<1> QED
  BY <1>1, <1>2, <1>3

LEMMA LaterRead == ASSUME pc \in Nat, pc > 2 PROVE Read = Devices
BY DEF Read

LEMMA MatchedFind ==
    ASSUME FlowInv, MatchedInv, Samples, Live', scenario \notin Counted, IsFind(pc)
    PROVE  MatchedInv'
<1>1. /\ outcome = "running" /\ raised = "no"
      /\ SamplesNext \/ SamplesOn \/ SamplesAgain \/ Raise("failed")
      /\ sample \in 1..Len(script[pc].what) /\ DOMAIN unread' = Devices
  BY SampleGoes
<1>2. /\ scenario \in Scenarios /\ pc \in 1..Len(script) /\ pc \in Nat /\ Len(script) \in Nat
  BY <1>1, NowIs
<1>3. pc > 2
  <2>1. pc \notin {1, 2}
    BY <1>1, FirstSteps
  <2> QED
    BY <1>2, <2>1
<1>4. Live
  BY <1>1 DEF Live, Open
<1>5. PICK d, type : Searches(pc, d, type)
  BY <1>2, FindSearches
<1>6. /\ Len(script[pc].what) = 1 /\ Condition.kind = "find" /\ Condition.on = d /\ Condition.types = {type}
      /\ sample = 1
  <2>1. Len(script[pc].what) = 1 /\ Now.what[1] = Events("find", d, {type})
    BY <1>5 DEF Searches, Finds, Now
  <2>2. sample = 1
    <3>1. \A k \in 1..1 : k = 1
      OBVIOUS
    <3> QED
      BY <1>1, <2>1, <3>1
  <2> QED
    BY <2>1, <2>2 DEF Condition, Events
<1>7. /\ inflight' = inflight /\ unread' = [unread EXCEPT ![d] = <<>>] /\ missed' = missed
  BY <1>6, SampleReads DEF Reading, EventKinds
<1>8. Verdicts = IF Holding(d, type) THEN "yes" ELSE "no"
  <2>1. Verdicts = IF Matching(d, {type}) # {} THEN "yes" ELSE "no"
    BY <1>6 DEF Verdicts, Verdict
  <2>2. Matching(d, {type}) # {} <=> Holding(d, type)
    BY DEF Matching, Holding
  <2> QED
    BY <2>1, <2>2
<1>9. PICK D : D = Due
  OBVIOUS
<1>10. D = DueAt(pc, open)
  BY <1>1, <1>9 DEF Due
<1>11. Fits(D, Devices) /\ Awaited(D) /\ DOMAIN unread = Devices
  <2>1. Read = Devices
    BY <1>2, <1>3, LaterRead
  <2> QED
    BY <1>4, <1>9, <2>1, MatchedGives
<1>12. \A q \in D : q = <<d, {type}>> \/ q[1] # d \/ q[2] = {"durable"}
  BY <1>5, <1>10 DEF Searches
<1>13. type \in Tracked \cup {"checkpointAccepted"}
  BY <1>5 DEF Searches
<1>14. CASE SamplesNext
  BY <1>1, <1>6, <1>14 DEF SamplesNext
<1>15. CASE SamplesOn
  <2>1. Goto(Now.then) /\ Holding(d, type)
    BY <1>8, <1>15 DEF SamplesOn
  <2>2. Read' = Devices
    BY <1>1, <1>2, <1>3, <2>1, GotoRead
  <2>3. PICK D2 : Due' = D2
    OBVIOUS
  <2>4. CASE ~IsFind(pc + 1)
    <3>1. D2 = {}
      BY <1>1, <2>1, <2>3, <2>4, GotoDue
    <3>2. D = {<<d, {type}>>}
      BY <1>5, <1>10, <2>4 DEF Searches
    <3>3. D2 \subseteq D /\ D \subseteq D2 \cup {<<d, {type}>>} /\ \A q \in D2 : q[1] # d \/ q[2] = {"durable"}
      BY <3>1, <3>2
    <3>4. Fits(D2, Devices)' /\ Awaited(D2)'
      BY <1>7, <1>11, <1>12, <1>13, <2>1, <3>3, SearchFits
    <3> QED
      BY <2>2, <2>3, <3>4, MatchedFrom
  <2>5. CASE IsFind(pc + 1)
    <3>1. PICK o : D2 = DueAt(pc + 1, o)
      BY <1>1, <2>1, <2>3, <2>5, GotoDue
    <3>2. D2 \subseteq D /\ D \subseteq D2 \cup {<<d, {type}>>}
      BY <1>5, <1>10, <2>5, <3>1 DEF Searches
    <3>3. \A q \in D2 : q[1] # d \/ q[2] = {"durable"}
      <4>1. ASSUME NEW q \in D2 PROVE q[1] # d \/ q[2] = {"durable"}
        <5>1. q \in DueAt(pc, o)
          BY <1>5, <2>5, <3>1 DEF Searches
        <5> QED
          BY <1>5, <2>5, <3>1, <5>1 DEF Searches
      <4> QED
        BY <4>1
    <3>4. Fits(D2, Devices)' /\ Awaited(D2)'
      BY <1>7, <1>11, <1>12, <1>13, <2>1, <3>2, <3>3, SearchFits
    <3> QED
      BY <2>2, <2>3, <3>4, MatchedFrom
  <2> QED
    BY <2>4, <2>5
<1>16. CASE SamplesAgain
  <2>1. ~Holding(d, type) /\ pc' = pc /\ UNCHANGED <<scenario, pc, open, chosen, outcome>>
    BY <1>8, <1>16 DEF SamplesAgain
  <2>2. Due' = D
    BY <1>9, <2>1, UnchangedDue
  <2>3. Read' = Devices
    BY <1>2, <1>3, <2>1 DEF Read
  <2>4. Fits(D, Devices)' /\ Awaited(D)'
    BY <1>7, <1>11, <1>12, <1>13, <2>1, SearchFits
  <2> QED
    BY <2>2, <2>3, <2>4, MatchedFrom
<1>17. CASE Raise("failed")
  BY <1>1, <1>17, RaiseFlow
<1> QED
  BY <1>1, <1>14, <1>15, <1>16, <1>17

(* A step while nothing is due, with what R2 the preflight has read then.  *)
LEMMA MatchedQuiet ==
    ASSUME FlowInv, MatchedInv, Live, scenario \notin Counted, Due = {}, Due' = {}, inflight' = inflight,
           NEW R2, Read' = R2,
           \/ unread' = unread /\ R2 \subseteq Read
           \/ \E d : unread' = [unread EXCEPT ![d] = <<>>] /\ R2 \subseteq Read \cup {d}
    PROVE  MatchedInv'
<1>1. PICK R : R = Read
  OBVIOUS
<1>2. PICK E : E = {}
  OBVIOUS
<1>3. Fits({}, R) /\ R \subseteq Devices /\ DOMAIN unread = Devices
  BY <1>1, MatchedGives
<1>4. R2 \subseteq Devices
  BY DevicesAre DEF Read
<1>5. Fits({}, R2)' /\ Awaited({})'
  BY <1>1, <1>3, <1>4, QuietFits
<1>6. Due' = E /\ Fits(E, R2)' /\ Awaited(E)'
  BY <1>2, <1>5
<1> QED
  BY <1>6, MatchedFrom

LEMMA QuietHere == ASSUME script[pc].op # "pair", ~IsFind(pc) PROVE Due = {}
BY DEF Due, DueAt

LEMMA MatchedSamples ==
    ASSUME FlowInv, MatchedInv, Samples, Live', scenario \notin Counted, ~IsFind(pc)
    PROVE  MatchedInv'
<1>1. /\ outcome = "running" /\ raised = "no" /\ script[pc].op \in {"wait", "check"}
      /\ SamplesNext \/ SamplesOn \/ SamplesAgain \/ Raise("failed")
      /\ sample \in 1..Len(script[pc].what) /\ DOMAIN unread' = Devices
  BY SampleGoes
<1>2. /\ scenario \in Scenarios /\ pc \in 1..Len(script) /\ pc \in Nat /\ Len(script) \in Nat
  BY <1>1, NowIs
<1>3. Live
  BY <1>1 DEF Live, Open
<1>4. Due = {}
  BY <1>1, QuietHere
<1>5. ~IsFind(pc + 1)
  <2>1. ~Sender(pc)
    BY <1>1, SenderOps DEF Sender
  <2> QED
    BY <1>1, <2>1, AsideWhen
<1>6. inflight' = inflight
  BY SampleReads
<1>7. unread' = unread \/ unread' = [unread EXCEPT ![Condition.on] = <<>>]
  BY SampleReads DEF Reading, feedVars
<1>8. pc = 2 => \/ sample = 1 /\ unread' = [unread EXCEPT ![First] = <<>>]
                \/ sample = 2 /\ unread' = [unread EXCEPT ![Second] = <<>>]
  <2>1. SUFFICES ASSUME pc = 2
                 PROVE  \/ sample = 1 /\ unread' = [unread EXCEPT ![First] = <<>>]
                        \/ sample = 2 /\ unread' = [unread EXCEPT ![Second] = <<>>]
    OBVIOUS
  <2>2. /\ Len(script[pc].what) = 2 /\ Now = script[pc]
        /\ script[pc].what[1] = Presence(First) /\ script[pc].what[2] = Presence(Second)
    BY <1>1, <2>1, FirstSteps
  <2>3. sample \in {1, 2}
    <3>1. \A k \in 1..2 : k \in {1, 2}
      OBVIOUS
    <3> QED
      BY <1>1, <2>2, <3>1
  <2>4. \A d : Presence(d).kind \in EventKinds /\ Presence(d).on = d
    BY DEF Presence, Events, EventKinds
  <2>5. sample = 1 => Condition = Presence(First)
    BY <2>2 DEF Condition
  <2>6. sample = 2 => Condition = Presence(Second)
    BY <2>2 DEF Condition
  <2>7. unread' = [unread EXCEPT ![Condition.on] = <<>>]
    BY <2>3, <2>4, <2>5, <2>6, SampleReads DEF Reading
  <2> QED
    BY <2>3, <2>4, <2>5, <2>6, <2>7
<1>9. pc > 2 => Read = Devices
  BY <1>2, LaterRead
<1>10. pc = 1 \/ pc = 2 \/ pc > 2
  BY <1>2
<1>11. PICK R2 : Read' = R2
  OBVIOUS
<1>12. R2 \subseteq Devices
  BY <1>11, DevicesAre DEF Read
<1>13. CASE SamplesNext
  <2>1. UNCHANGED <<scenario, pc, open, chosen, outcome>> /\ sample' = sample + 1
        /\ sample < Len(script[pc].what)
    BY <1>13 DEF SamplesNext
  <2>2. Due' = {}
    BY <1>4, <2>1, UnchangedDue
  <2>3. pc = 1 => R2 = {}
    BY <1>11, <2>1 DEF Read
  <2>4. pc = 2 => R2 \subseteq {First} /\ sample = 1
    <3>1. SUFFICES ASSUME pc = 2 PROVE R2 \subseteq {First} /\ sample = 1
      OBVIOUS
    <3>2. sample = 1
      <4>1. Len(script[pc].what) = 2
        BY <1>1, <3>1, FirstSteps
      <4> QED
        BY <1>1, <2>1, <4>1
    <3> QED
      BY <1>11, <2>1, <3>1, <3>2 DEF Read
  <2>5. First # Second
    BY DevicesAre
  <2> QED
    BY <1>3, <1>4, <1>6, <1>7, <1>8, <1>9, <1>10, <1>11, <1>12, <2>2, <2>3, <2>4, MatchedQuiet
<1>14. CASE SamplesOn
  <2>1. Goto(Now.then) /\ sample = Len(script[pc].what)
    BY <1>14 DEF SamplesOn
  <2>2. Due' = {}
    BY <1>1, <1>5, <2>1, GotoDue
  <2>3. pc = 1 => R2 = {}
    BY <1>1, <1>11, <2>1, GotoRead
  <2>4. pc = 2 => R2 \subseteq Read \cup {Second} /\ sample = 2
    <3>1. SUFFICES ASSUME pc = 2 PROVE R2 \subseteq Read \cup {Second} /\ sample = 2
      OBVIOUS
    <3>2. sample = 2
      BY <1>1, <2>1, <3>1, FirstSteps
    <3>3. Read = {First}
      BY <3>1, <3>2 DEF Read
    <3> QED
      BY <1>12, <3>2, <3>3, DevicesAre
  <2> QED
    BY <1>3, <1>4, <1>6, <1>7, <1>8, <1>9, <1>10, <1>11, <1>12, <2>2, <2>3, <2>4, MatchedQuiet
<1>15. CASE SamplesAgain
  <2>1. UNCHANGED <<scenario, pc, open, chosen, outcome>> /\ sample' = 0
    BY <1>15 DEF SamplesAgain
  <2>2. Due' = {}
    BY <1>4, <2>1, UnchangedDue
  <2>3. pc = 1 \/ pc = 2 => R2 = {}
    BY <1>11, <2>1 DEF Read
  <2> QED
    BY <1>3, <1>4, <1>6, <1>7, <1>9, <1>10, <1>11, <1>12, <2>2, <2>3, MatchedQuiet
<1>16. CASE Raise("failed")
  BY <1>1, <1>16, RaiseFlow
<1> QED
  BY <1>1, <1>13, <1>14, <1>15, <1>16

(* Past the preflight.                                                     *)
LEMMA PastPreflight ==
    ASSUME FlowInv, outcome = "running", script[pc].op \notin {"wait", "check"}
    PROVE  pc \in Nat /\ pc > 2 /\ Read = Devices
<1>1. pc \in Nat /\ pc \in 1..Len(script) /\ Len(script) \in Nat
  BY NowIs
<1>2. pc \notin {1, 2}
  BY FirstSteps
<1>3. pc > 2
  BY <1>1, <1>2
<1> QED
  BY <1>1, <1>3, LaterRead

LEMMA MatchedPick ==
    ASSUME FlowInv, MatchedInv, Pick(Seen(Condition), rest), Live', scenario \notin Counted
    PROVE  MatchedInv'
<1>1. /\ outcome = "running" /\ script[pc].op = "pick" /\ raised = "no" /\ Picks(script, pc)
      /\ DOMAIN unread' = Devices /\ UNCHANGED feedVars /\ late' = late
      /\ PicksNext \/ PicksOn \/ Raise("crashed")
  BY PickGoes
<1>2. Live
  BY <1>1 DEF Live, Open
<1>3. Due = {}
  BY <1>1, QuietHere DEF IsFind
<1>4. pc \in Nat /\ pc > 2 /\ Read = Devices
  BY <1>1, PastPreflight
<1>5. inflight' = inflight
  BY DEF Pick, rest, messageVars
<1>6. CASE PicksNext
  <2>1. pc' = pc /\ script' = script
    BY <1>6 DEF PicksNext, script
  <2>2. Due' = {}
    BY <1>1, <2>1, NothingDue
  <2>3. Read' = Devices
    BY <1>4, <2>1 DEF Read
  <2> QED
    BY <1>1, <1>2, <1>3, <1>4, <1>5, <2>2, <2>3, MatchedQuiet DEF feedVars
<1>7. CASE PicksOn
  <2>1. pc' = pc + 1 /\ script' = script
    BY <1>7 DEF PicksOn, script
  <2>2. script'[pc'].op = "cmd"
    BY <1>1, <2>1 DEF Picks
  <2>3. Due' = {}
    BY <2>2, NothingDue
  <2>4. Read' = Devices
    BY <1>4, <2>1 DEF Read
  <2> QED
    BY <1>1, <1>2, <1>3, <1>4, <1>5, <2>3, <2>4, MatchedQuiet DEF feedVars
<1>8. CASE Raise("crashed")
  BY <1>1, <1>8, RaiseFlow
<1> QED
  BY <1>1, <1>6, <1>7, <1>8

LEMMA MatchedCounts ==
    ASSUME FlowInv, MatchedInv, Counts, Live', scenario \notin Counted
    PROVE  MatchedInv'
<1>1. outcome = "running" /\ DOMAIN unread' = Devices /\ late' = late /\ raised = "no"
  BY OtherRaises
<1>2. script[pc].op \in {"note", "compare"}
  BY <1>1, NowIs DEF Counts, Busy
<1>3. Live
  BY <1>1 DEF Live, Open
<1>4. Due = {} /\ ~IsFind(pc)
  BY <1>2, QuietHere DEF IsFind
<1>5. pc > 2 /\ Read = Devices /\ pc \in Nat
  BY <1>1, <1>2, PastPreflight
<1>6. ~IsFind(pc + 1)
  <2>1. ~Sender(pc)
    BY <1>2, SenderOps DEF Sender
  <2> QED
    BY <1>1, <1>4, <2>1, AsideWhen
<1>7. inflight' = inflight /\ (Raise("failed") \/ Goto(Now.then))
      /\ unread' = [unread EXCEPT ![Now.what[1].on] = <<>>]
  BY DEF Counts
<1>8. Goto(Now.then)
  BY <1>1, <1>7, RaiseFlow
<1>9. Due' = {} /\ Read' = Devices
  BY <1>1, <1>5, <1>6, <1>8, GotoDue, GotoRead
<1> QED
  BY <1>3, <1>4, <1>5, <1>7, <1>9, MatchedQuiet

LEMMA BlockEnds ==
    ASSUME FlowInv, Blocks
    PROVE  outcome = "running" /\ script[pc].op = "block" /\ raised = "no" /\ End("blocked")
<1>1. outcome = "running" /\ script[pc].op = "block" /\ raised = "no"
  BY OtherRaises, NowIs DEF Blocks, Busy
<1>2. Raise("blocked")
  BY DEF Blocks
<1>3. ~Guarded(script, pc) /\ ~Cancels(script, pc)
  BY <1>1 DEF Guarded, Cancels
<1> QED
  BY <1>1, <1>2, <1>3, RaiseGoes

LEMMA MatchedBlocks ==
    ASSUME FlowInv, MatchedInv, Blocks, scenario \notin Counted
    PROVE  MatchedInv'
<1>1. outcome = "running" /\ script[pc].op = "block" /\ raised = "no" /\ End("blocked")
  BY BlockEnds
<1>2. Live
  BY <1>1 DEF Live, Open
<1>3. Due = {}
  BY <1>1, QuietHere DEF IsFind
<1>4. pc > 2 /\ Read = Devices /\ pc \in Nat
  BY <1>1, PastPreflight
<1>5. Due' = {} /\ Read' = Devices
  BY <1>1, <1>4, NothingDue DEF End, Read
<1>6. inflight' = inflight /\ unread' = unread
  BY DEF Blocks, messageVars, feedVars
<1> QED
  BY <1>2, <1>3, <1>4, <1>5, <1>6, MatchedQuiet

LEMMA MatchedReraise ==
    ASSUME FlowInv, MatchedInv, Reraise(rest), Live', scenario \notin Counted
    PROVE  MatchedInv'
<1>1. raised = "no" /\ outcome = "running"
  BY ReraiseFlow
<1>2. script[pc].op = "reraise" /\ Goto(Now.then)
  BY <1>1, NowIs DEF Reraise, Busy
<1>3. Live
  BY <1>1 DEF Live, Open
<1>4. Due = {} /\ ~IsFind(pc)
  BY <1>2, QuietHere DEF IsFind
<1>5. pc > 2 /\ Read = Devices /\ pc \in Nat
  BY <1>1, <1>2, PastPreflight
<1>6. ~IsFind(pc + 1)
  <2>1. ~Sender(pc)
    BY <1>2, SenderOps DEF Sender
  <2> QED
    BY <1>1, <1>4, <2>1, AsideWhen
<1>7. inflight' = inflight /\ unread' = unread
  BY DEF Reraise, rest, messageVars, feedVars
<1>8. Due' = {} /\ Read' = Devices
  BY <1>1, <1>2, <1>5, <1>6, GotoDue, GotoRead
<1> QED
  BY <1>3, <1>4, <1>5, <1>7, <1>8, MatchedQuiet

LEMMA MatchedPoll ==
    ASSUME FlowInv, MatchedInv, PollAgain(rest)
    PROVE  MatchedInv'
<1>1. /\ UNCHANGED <<scenario, pc, open, chosen, raised, outcome>> /\ sample = 0 /\ sample' = 1
      /\ inflight' = inflight /\ UNCHANGED feedVars
  BY DEF PollAgain, rest, messageVars
<1>2. Due' = Due
  BY <1>1, UnchangedDue
<1>3. Read' = Read
  BY <1>1 DEF Read
<1>4. SUFFICES ASSUME Live', scenario' \notin Counted PROVE MatchedInv'
  BY DEF MatchedInv
<1>5. Live /\ scenario \notin Counted
  BY <1>1, <1>4 DEF Live, Open
<1>6. PICK D, R : D = Due /\ R = Read
  OBVIOUS
<1>7. Fits(D, R) /\ Awaited(D)
  BY <1>5, <1>6, MatchedGives
<1>8. Fits(D, R)' /\ Awaited(D)'
  BY <1>1, <1>7 DEF feedVars, Fits, Awaited, Holding
<1> QED
  BY <1>2, <1>3, <1>6, <1>8, MatchedFrom

(* A scenario that ended without an exception left nothing under way.      *)
LEMMA StartsClear ==
    ASSUME FlowInv, MatchedInv, CountInv, outcome \in {"passed", "blocked"}
    PROVE  Live /\ inflight = {}
<1>1. Live
  BY DEF Live, FlowInv, Open
<1>2. CASE scenario \in Counted
  BY <1>1, <1>2 DEF CountInv
<1>3. CASE scenario \notin Counted
  <2>1. Due = {}
    BY DEF Due
  <2>2. PICK R : R = Read
    OBVIOUS
  <2>3. Fits({}, R)
    BY <1>1, <1>3, <2>1, <2>2, MatchedGives
  <2> QED
    BY <1>1, <2>3 DEF Fits
<1> QED
  BY <1>2, <1>3, <1>1

LEMMA MatchedReports ==
    ASSUME FlowInv, MatchedInv, CountInv, MainInv, Reports
    PROVE  MatchedInv'
<1>1. CASE Starts
  <2> DEFINE s == Scripts[scenario']
  <2>1. WellFormed(s, scenario' \in Counted)
    BY <1>1, ScriptsAre DEF Starts
  <2>2. s[1] = Preflight[1]
    BY <2>1 DEF WellFormed
  <2>3. script' = s
    BY DEF script
  <2> HIDE DEF s
  <2>4. script'[pc'].op = "check"
    BY <1>1, <2>2, <2>3, PreflightIs DEF Starts
  <2>5. Due' = {}
    BY <2>4, NothingDue
  <2>6. Read' = {}
    BY <1>1 DEF Starts, Read
  <2>8. inflight = {}
    BY <1>1, StartsClear DEF Starts
  <2>9. inflight' = {}
    BY <1>1, <2>8 DEF Starts
  <2>10. PICK E : E = {}
    OBVIOUS
  <2>11. Fits(E, E)' /\ Awaited(E)'
    BY <2>9, <2>10 DEF Fits, Awaited
  <2> QED
    BY <2>5, <2>6, <2>10, <2>11, MatchedFrom
<1>2. CASE UNCHANGED <<controlVars, unread, late, missed, inflight>> /\ outcome # "running"
  <2>1. SUFFICES ASSUME Live', scenario' \notin Counted PROVE MatchedInv'
    BY DEF MatchedInv
  <2>2. Live /\ scenario \notin Counted
    BY <1>2, <2>1 DEF Live, Open, controlVars
  <2>3. Due = {} /\ Due' = {}
    BY <1>2, NothingDue DEF Due, controlVars
  <2>4. Read' = Read
    BY <1>2 DEF Read, controlVars
  <2>5. PICK R2 : R2 = Read
    OBVIOUS
  <2> QED
    BY <1>2, <2>2, <2>3, <2>4, <2>5, MatchedQuiet
<1> QED
  BY <1>1, <1>2, ReportGoes

(* A command of a live scenario was accepted.                              *)
Message(c) == [name |-> c.name, from |-> c.on, to |-> Destination(c), id |-> sends]

LEMMA MessageIs ==
    ASSUME NEW c, Effect(c)
    PROVE  /\ UNCHANGED received
           /\ c.name \in Sending => inflight' = inflight \cup {Message(c)} /\ sends' = sends + 1
           /\ c.name \notin Sending => inflight' \subseteq inflight /\ sends' = sends
           /\ c.name # "publishCheckpoint" => UNCHANGED feedVars
           /\ c.name = "publishCheckpoint" => Record(c.on, "checkpointAccepted")
           /\ Message(c).name = c.name /\ Message(c).to = Destination(c) /\ Shown(Message(c)) = Shown(c)
BY DEF Effect, SendEffect, Message, Shown

(* Where it leads.                                                         *)
LEMMA AcceptedGoes ==
    ASSUME FlowInv, Live', NEW i \in open, NEW how, CommandEnds(i, how)
    PROVE  /\ outcome = "running" /\ raised = "no" /\ late' = late /\ scenario' = scenario
           /\ Effect(Now.what[i])
           /\ pc \in Nat /\ pc > 2 /\ Read = Devices
           /\ \/ open = {i} /\ Goto(Now.then)
              \/ /\ open # {i} /\ script[pc].op = "pair" /\ open' = open \ {i}
                 /\ UNCHANGED <<scenario, pc, sample, chosen, outcome, raised>>
<1>1. outcome = "running" /\ script[pc].op \in {"cmd", "pair"} /\ Settle(i, how) /\ DOMAIN unread' = Devices
  BY DEF CommandEnds
<1>2. how = "ok" /\ raised = "no"
  BY CommandFlow
<1>3. late' = late /\ Effect(Now.what[i])
  BY <1>2 DEF CommandEnds
<1>4. pc \in Nat /\ pc > 2 /\ Read = Devices
  BY <1>1, PastPreflight
<1>5. \/ open = {i} /\ Goto(Now.then)
      \/ /\ open # {i} /\ open' = open \ {i}
         /\ UNCHANGED <<scenario, pc, sample, chosen, outcome, raised>>
  <2>1. CASE open # {i}
    BY <1>1, <1>2, <2>1 DEF Settle
  <2>2. CASE open = {i}
    BY <1>1, <1>2, <2>2 DEF Settle
  <2> QED
    BY <2>1, <2>2
<1>6. open # {i} => script[pc].op = "pair"
  BY <1>1 DEF FlowInv
<1>7. scenario' = scenario
  BY <1>5 DEF Goto, Enter, End
<1> QED
  BY <1>1, <1>2, <1>3, <1>4, <1>5, <1>6, <1>7

LEMMA MatchedCommand ==
    ASSUME FlowInv, MatchedInv, Live', scenario \notin Counted,
           NEW i \in open, NEW how, CommandEnds(i, how), script[pc].op = "cmd"
    PROVE  MatchedInv'
<1>1. /\ outcome = "running" /\ raised = "no" /\ Effect(Now.what[i])
      /\ pc \in Nat /\ pc > 2 /\ Read = Devices /\ Goto(Now.then)
  BY AcceptedGoes
<1>2. i = 1
  BY <1>1 DEF FlowInv
<1> DEFINE c == Now.what[1]
<1>3. Effect(c)
  BY <1>1, <1>2
<1>4. Live /\ DOMAIN unread = Devices
  BY <1>1 DEF Live, Open, FlowInv
<1>5. Due = {} /\ ~IsFind(pc)
  BY QuietHere DEF IsFind
<1>6. scenario \in Scenarios /\ pc \in 1..Len(script) /\ Len(script) \in Nat
  BY <1>1, NowIs
<1>7. PICK E : E = {}
  OBVIOUS
<1>8. Fits(E, Devices) /\ Awaited(E) /\ inflight = {}
  <2>1. Fits(Due, Read) /\ Awaited(Due)
    BY <1>4, MatchedGives
  <2>2. Fits(E, Devices) /\ Awaited(E)
    BY <1>1, <1>5, <1>7, <2>1
  <2> QED
    BY <1>7, <2>2 DEF Fits
<1>9. Read' = Devices
  BY <1>1, GotoRead
<1>9a. PICK m, q : m = Message(c) /\ q = <<m.to, {Shown(m)}>>
  OBVIOUS
<1>10. ASSUME NEW c0, One(pc, c0) PROVE MatchedInv'
  <2>1. c = c0
    BY <1>10 DEF One, Submits, Now
  <2>2. c.name \in {"sendReliable", "sendGroup"} /\ c.arg \in Devices
    BY <1>10, <2>1 DEF One
  <2>3. c.name \in Sending /\ c.name # "publishCheckpoint" /\ Destination(c) = c.arg
    BY <2>2 DEF Sending, Destination
  <2>4. inflight' = inflight \cup {m} /\ UNCHANGED <<unread, missed>> /\ m.to = c.arg /\ Shown(m) = Shown(c)
    BY <1>3, <1>9a, <2>3, MessageIs DEF feedVars
  <2>5. IsFind(pc + 1) /\ \A o : DueAt(pc + 1, o) = {<<c.arg, {Shown(c)}>>}
    BY <1>6, <1>10, <2>1, OneDue
  <2>6. Due' = {<<c.arg, {Shown(c)}>>}
    BY <1>1, <2>5, GotoDue
  <2> HIDE DEF c
  <2>7. Due' = {q} /\ q \notin E
    BY <1>7, <1>9a, <2>4, <2>6
  <2>8. m.to \in Devices
    BY <2>2, <2>4
  <2>9. Fits(E \cup {q}, Devices)' /\ Awaited(E \cup {q})'
    BY <1>8, <1>9a, <2>4, <2>7, <2>8, SendFits
  <2>10. PICK D : D = Due'
    OBVIOUS
  <2>11. D = E \cup {q}
    BY <1>7, <2>7, <2>10
  <2> QED
    BY <1>9, <2>9, <2>10, <2>11, MatchedFrom
<1>11. CASE Three(pc)
  <2>1. c = Publication1
    BY <1>11 DEF Three, Submits, Now
  <2>2. c.name = "publishCheckpoint" /\ c.on = chosen
    BY <2>1 DEF Publication1, To, Command
  <2>3. chosen \in Devices
    BY <1>1, <1>11 DEF Three, FlowInv, Open
  <2>4. c.name \in Sending /\ Destination(c) = chosen /\ Shown(c) = "durable"
    BY <2>2 DEF Sending, Destination, Shown
  <2>5. /\ inflight' = inflight \cup {m} /\ Record(chosen, "checkpointAccepted")
        /\ m.to = chosen /\ Shown(m) = "durable"
    BY <1>3, <1>9a, <2>2, <2>4, MessageIs
  <2>6. Pending(pc, chosen, chosen, "checkpointAccepted", "durable")
    BY <1>6, <1>11, ThreeDue
  <2>7. PICK D, d : d = chosen /\ D = {<<d, {"checkpointAccepted"}>>, <<d, {"durable"}>>}
    OBVIOUS
  <2>8. Due' = D
    BY <1>1, <2>6, <2>7, GotoDue DEF Pending
  <2>9. Fits(D, Devices)' /\ Awaited(D)'
    BY <1>4, <1>7, <1>8, <2>3, <2>5, <2>7, PublishFits
  <2> QED
    BY <1>9, <2>8, <2>9, MatchedFrom
<1>12. CASE ~Sender(pc)
  <2>1. Aside(pc) /\ ~IsFind(pc + 1)
    BY <1>1, <1>5, <1>12, AsideWhen
  <2>2. Neutral(script[pc])
    <3>1. script[pc].at \notin CancelLabels
      BY <1>1 DEF FlowInv
    <3> QED
      BY <2>1, <3>1 DEF Aside, Guarded, Cancels, Rethrows, Stops, Picks
  <2>3. script[pc].what[1].name \notin Sending /\ ~script[pc].toChosen
    BY <2>2 DEF Neutral
  <2>4. c.name \notin Sending
    BY <1>1, <2>3, NowIs
  <2>5. inflight' \subseteq inflight /\ unread' = unread
    BY <1>3, <2>4, MessageIs DEF Sending, feedVars
  <2>6. Due' = {}
    BY <1>1, <2>1, GotoDue
  <2>7. inflight' = inflight
    BY <1>8, <2>5
  <2> QED
    BY <1>1, <1>4, <1>5, <1>9, <2>5, <2>6, <2>7, MatchedQuiet
<1> QED
  BY <1>10, <1>11, <1>12, SenderOps DEF Sender

LEMMA MatchedPair ==
    ASSUME FlowInv, MatchedInv, Live', scenario \notin Counted,
           NEW i \in open, NEW how, CommandEnds(i, how), script[pc].op = "pair"
    PROVE  MatchedInv'
<1>1. /\ outcome = "running" /\ raised = "no" /\ Effect(Now.what[i])
      /\ pc \in Nat /\ pc > 2 /\ Read = Devices
      /\ \/ open = {i} /\ Goto(Now.then)
         \/ /\ open # {i} /\ open' = open \ {i}
            /\ UNCHANGED <<scenario, pc, sample, chosen, outcome, raised>>
  BY AcceptedGoes
<1>2. open \subseteq {1, 2} /\ i \in {1, 2}
  BY <1>1 DEF FlowInv
<1>3. scenario \in Scenarios /\ pc \in 1..Len(script) /\ Len(script) \in Nat /\ Shape(pc)
      /\ (~script[pc].toChosen => Now = script[pc])
  BY <1>1, NowIs
<1>4. Two(pc) /\ script[pc].what = Both /\ Now.what = Both
  BY <1>3 DEF Shape, Two, Simple
<1> DEFINE c == Both[i]
           aims == {<<Second, {"groupMessageReceived"}>>, <<First, {"groupMessageReceived"}>>}
<1>5. Effect(c) /\ c.name = "sendGroup"
  BY <1>1, <1>2, <1>4, BothAims
<1>6. c.name \in Sending /\ c.name # "publishCheckpoint"
  BY <1>5 DEF Sending
<1>6a. PICK m, q : m = Message(c) /\ q = <<m.to, {Shown(m)}>>
  OBVIOUS
<1>7. inflight' = inflight \cup {m} /\ UNCHANGED <<unread, missed>> /\ q = Aimed(c)
  BY <1>5, <1>6, <1>6a, MessageIs DEF feedVars, Aimed
<1>8. First # Second /\ First \in Devices /\ Second \in Devices
  BY DevicesAre
<1>9. Aimed(c) \in aims /\ m.to \in Devices
  <2>1. Aimed(c) = <<Second, {"groupMessageReceived"}>> \/ Aimed(c) = <<First, {"groupMessageReceived"}>>
    BY <1>2, BothAims
  <2>2. q \in aims
    BY <1>7, <2>1
  <2>3. m.to = First \/ m.to = Second
    BY <1>6a, <2>2
  <2> QED
    BY <1>7, <1>8, <2>2, <2>3
<1> HIDE DEF c
<1>10. PICK D : D = Due
  OBVIOUS
<1>11. Fits(D, Devices) /\ Awaited(D)
  <2>1. Live
    BY <1>1 DEF Live, Open
  <2> QED
    BY <1>1, <1>10, <2>1, MatchedGives
<1>12. D = {Aimed(Both[j]) : j \in {1, 2} \ open}
  BY <1>1, <1>4, <1>10 DEF Due, DueAt
<1>13. Aimed(c) = Aimed(Both[i])
  BY DEF c
<1>14. q \notin D
  <2>1. Aimed(Both[1]) # Aimed(Both[2])
    BY <1>8, BothAims
  <2>2. ASSUME NEW j \in {1, 2} \ open PROVE Aimed(Both[j]) # Aimed(Both[i])
    <3>1. (i = 1 /\ j = 2) \/ (i = 2 /\ j = 1)
      BY <1>2
    <3> QED
      BY <2>1, <3>1
  <2> QED
    BY <1>7, <1>12, <1>13, <2>2
<1>15. Fits(D \cup {q}, Devices)' /\ Awaited(D \cup {q})'
  BY <1>6a, <1>7, <1>9, <1>11, <1>14, SendFits
<1>16. D \cup {q} = {Aimed(Both[j]) : j \in {1, 2} \ (open \ {i})}
  BY <1>2, <1>7, <1>12, <1>13
<1>17. Due' = D \cup {q} /\ Read' = Devices
  <2>1. CASE open = {i} /\ Goto(Now.then)
    <3>1. Pending(pc, Second, First, "groupMessageReceived", "groupMessageReceived")
      BY <1>3, <1>4, TwoDue
    <3>2. Due' = aims
      BY <1>1, <2>1, <3>1, GotoDue DEF Pending
    <3>3. D \cup {q} = {Aimed(Both[j]) : j \in {1, 2}}
      BY <1>16, <2>1
    <3>4. {Aimed(Both[j]) : j \in {1, 2}} = aims
      BY BothAims
    <3> QED
      BY <1>1, <2>1, <3>2, <3>3, <3>4, GotoRead
  <2>2. CASE open # {i} /\ open' = open \ {i} /\ UNCHANGED <<scenario, pc, sample, chosen, outcome, raised>>
    <3>1. script' = script
      BY <2>2 DEF script
    <3>2. PICK p, o : p = pc /\ o = open \ {i}
      OBVIOUS
    <3>3. Due' = DueAt(p, o)
      BY <1>1, <2>2, <3>1, <3>2, SameDue
    <3>4. DueAt(p, o) = {Aimed(Both[j]) : j \in {1, 2} \ o}
      BY <1>4, <3>2 DEF DueAt
    <3>5. Read' = Devices
      BY <1>1, <2>2 DEF Read
    <3> QED
      BY <1>16, <3>2, <3>3, <3>4, <3>5
  <2> QED
    BY <1>1, <2>1, <2>2
<1>18. PICK D2 : D2 = Due'
  OBVIOUS
<1>19. D2 = D \cup {q}
  BY <1>17, <1>18
<1> QED
  BY <1>15, <1>17, <1>18, <1>19, MatchedFrom

-----------------------------------------------------------------------------
(* Counting: IT-008, IT-009 and IT-017.                                    *)

(* The places of a history with elements of T.                             *)
Places(h, T) == {i \in DOMAIN h : h[i] \in T}

LEMMA PlacesFinite ==
    ASSUME NEW S, NEW h \in Seq(S), NEW T
    PROVE  IsFiniteSet(Places(h, T)) /\ Cardinality(Places(h, T)) \in Nat
<1> DEFINE n == Len(h)
<1>1. n \in Nat /\ DOMAIN h = 1..n
  OBVIOUS
<1> HIDE DEF n
<1>2. IsFiniteSet(1..n)
  BY <1>1, FS_Interval
<1>3. Places(h, T) \in SUBSET (1..n)
  BY <1>1 DEF Places
<1>4. IsFiniteSet(Places(h, T))
  BY <1>2, <1>3, FS_Subset
<1> QED
  BY <1>4, FS_CardinalityType

(* One more at the end, one fewer at the front.                            *)
LEMMA PlacesAppend ==
    ASSUME NEW S, NEW h \in Seq(S), NEW T, NEW x \in S, NEW g, g = Append(h, x)
    PROVE  Cardinality(Places(g, T)) =< Cardinality(Places(h, T)) + IF x \in T THEN 1 ELSE 0
<1> DEFINE n == Len(h)
           M == Places(h, T)
           N == Places(g, T)
<1>1. n \in Nat /\ DOMAIN h = 1..n /\ DOMAIN g = 1..(n + 1) /\ g[n + 1] = x /\ \A i \in 1..n : g[i] = h[i]
  BY AppendProperties
<1>2. IsFiniteSet(M) /\ Cardinality(M) \in Nat
  BY PlacesFinite
<1>3. \A i \in 1..(n + 1) : i \in 1..n \/ i = n + 1
  BY <1>1
<1>4. \A i \in N : i \in M \/ (i = n + 1 /\ x \in T)
  BY <1>1, <1>3 DEF Places
<1> HIDE DEF M, N, n
<1>5. CASE x \in T
  <2>1. N \in SUBSET (M \cup {n + 1})
    BY <1>4
  <2>2. IsFiniteSet(M \cup {n + 1}) /\ Cardinality(M \cup {n + 1}) =< Cardinality(M) + 1
          /\ Cardinality(M \cup {n + 1}) \in Nat
    <3>1. PICK e : e = n + 1
      OBVIOUS
    <3>2. /\ IsFiniteSet(M \cup {e})
          /\ Cardinality(M \cup {e}) = IF e \in M THEN Cardinality(M) ELSE Cardinality(M) + 1
      BY <1>2, FS_AddElement
    <3>3. Cardinality(M \cup {e}) =< Cardinality(M) + 1 /\ Cardinality(M \cup {e}) \in Nat
      BY <1>2, <3>2
    <3> QED
      BY <3>1, <3>2, <3>3
  <2>3. IsFiniteSet(N) /\ Cardinality(N) =< Cardinality(M \cup {n + 1})
    BY <2>1, <2>2, FS_Subset
  <2>4. Cardinality(N) \in Nat
    BY <2>3, FS_CardinalityType
  <2>5. Cardinality(N) =< Cardinality(M) + 1
    BY <1>2, <2>2, <2>3, <2>4
  <2> QED
    BY <1>5, <2>5 DEF M, N
<1>6. CASE x \notin T
  <2>1. N \in SUBSET M
    BY <1>4, <1>6
  <2>2. Cardinality(N) =< Cardinality(M) /\ IsFiniteSet(N)
    BY <1>2, <2>1, FS_Subset
  <2>3. Cardinality(N) \in Nat
    BY <2>2, FS_CardinalityType
  <2>4. Cardinality(N) =< Cardinality(M) + 0
    BY <1>2, <2>2, <2>3
  <2> QED
    BY <1>6, <2>4 DEF M, N
<1> QED
  BY <1>5, <1>6

LEMMA PlacesTail ==
    ASSUME NEW S, NEW h \in Seq(S), h # <<>>, NEW T, NEW g, g = Tail(h)
    PROVE  Cardinality(Places(g, T)) =< Cardinality(Places(h, T))
<1> DEFINE n == Len(h)
           M == Places(h, T)
           N == Places(g, T)
           f == [k \in N |-> k + 1]
<1>1. n \in Nat /\ n >= 1 /\ DOMAIN h = 1..n /\ DOMAIN g = 1..(n - 1) /\ \A k \in 1..(n - 1) : g[k] = h[k + 1]
  <2>1. g \in Seq(S) /\ Len(g) = Len(h) - 1 /\ \A k \in 1..Len(g) : g[k] = h[k + 1]
    BY HeadTailProperties
  <2>2. n \in Nat /\ n >= 1 /\ DOMAIN h = 1..n
    OBVIOUS
  <2> QED
    BY <2>1, <2>2
<1>2. IsFiniteSet(M)
  BY PlacesFinite
<1>3. \A k \in N : k \in Nat /\ k + 1 \in M
  <2>1. \A k \in 1..(n - 1) : k \in Nat /\ k + 1 \in 1..n
    BY <1>1
  <2> QED
    BY <1>1, <2>1 DEF Places
<1> HIDE DEF M, N
<1>4. f \in [N -> M]
  BY <1>3
<1>5. \A a, b \in N : f[a] = f[b] => a = b
  BY <1>3
<1>6. f \in Injection(N, M)
  BY <1>4, <1>5 DEF Injection, IsInjective
<1> HIDE DEF f
<1>7. Cardinality(N) =< Cardinality(M)
  BY <1>2, <1>6, FS_Injection
<1> QED
  BY <1>7 DEF M, N

LEMMA PlacesRetained ==
    ASSUME NEW S, NEW h \in Seq(S), NEW T, NEW x \in S, NEW g, g = Retained(Append(h, x))
    PROVE  /\ g \in Seq(S)
           /\ Cardinality(Places(g, T)) =< Cardinality(Places(h, T)) + IF x \in T THEN 1 ELSE 0
<1> DEFINE a == Append(h, x)
<1>1. a \in Seq(S) /\ a # <<>>
  <2>1. a \in Seq(S) /\ Len(a) = Len(h) + 1 /\ Len(h) \in Nat
    BY AppendProperties
  <2>2. Len(<<>>) = 0
    OBVIOUS
  <2> HIDE DEF a
  <2> QED
    BY <2>1, <2>2
<1>2. Cardinality(Places(a, T)) =< Cardinality(Places(h, T)) + IF x \in T THEN 1 ELSE 0
  BY PlacesAppend
<1>3. g = a \/ g = Tail(a)
  BY DEF Retained
<1> HIDE DEF a
<1>4. CASE g = a
  BY <1>1, <1>2, <1>4
<1>5. CASE g = Tail(a)
  <2>1. g \in Seq(S)
    BY <1>1, <1>5
  <2>2. Cardinality(Places(g, T)) =< Cardinality(Places(a, T))
    BY <1>1, <1>5, PlacesTail
  <2>3. Cardinality(Places(g, T)) \in Nat /\ Cardinality(Places(a, T)) \in Nat /\ Cardinality(Places(h, T)) \in Nat
    BY <1>1, <2>1, PlacesFinite
  <2>4. PICK one \in Nat : one = IF x \in T THEN 1 ELSE 0
    OBVIOUS
  <2>5. Cardinality(Places(g, T)) =< Cardinality(Places(h, T)) + one
    BY <1>2, <2>2, <2>3, <2>4
  <2> QED
    BY <2>1, <2>4, <2>5
<1> QED
  BY <1>3, <1>4, <1>5

Direct == "directMessageReceived"

LEMMA CountGives ==
    ASSUME FlowInv, CountInv, Live, scenario \in Counted
    PROVE  /\ sends \in Nat /\ received \in Nat /\ IsFiniteSet(inflight) /\ Cardinality(inflight) \in Nat
           /\ \A m \in inflight : m.name = "sendReliable" /\ m.to = Second
           /\ outcome = "running" /\ pc =< 2 => inflight = {} /\ sends = 0 /\ received = 0
           /\ outcome = "running" /\ pc > 2 => Accounted
           /\ outcome # "running" => inflight = {}
           /\ DOMAIN unread = Devices /\ Second \in Devices
<1>1. Second \in Devices
  BY DevicesAre
<1>2. DOMAIN unread = Devices
  BY DEF FlowInv
<1>3. IsFiniteSet(inflight) => Cardinality(inflight) \in Nat
  BY FS_CardinalityType
<1> QED
  BY <1>1, <1>2, <1>3 DEF CountInv

LEMMA UnseenIs ==
    ASSUME unread[Second] \in Seq(EventTypes)
    PROVE  Unseen = Places(unread[Second], {Direct}) /\ Cardinality(Unseen) \in Nat
<1>1. Unseen = Places(unread[Second], {Direct})
  BY DEF Unseen, Matching, Places, Direct
<1>2. PICK h : h = unread[Second]
  OBVIOUS
<1>3. Cardinality(Places(h, {Direct})) \in Nat
  BY <1>2, PlacesFinite
<1> QED
  BY <1>1, <1>2, <1>3

(* An event recorded, with at most one message delivered.                  *)
LEMMA AccountedRecord ==
    ASSUME Accounted, sends \in Nat, received \in Nat, IsFiniteSet(inflight), Cardinality(inflight) \in Nat,
           DOMAIN unread = Devices, Second \in Devices,
           NEW d, NEW type \in EventTypes, Record(d, type), UNCHANGED <<sends, received>>,
           \/ type # Direct /\ inflight' = inflight
           \/ \E m \in inflight : inflight' = inflight \ {m}
    PROVE  Accounted' /\ IsFiniteSet(inflight')
<1>1. unread[Second] \in Seq(EventTypes) /\ received + Cardinality(Unseen) + Cardinality(inflight) =< sends
  BY DEF Accounted
<1>2. PICK h, g : h = unread[Second] /\ g = unread'[Second]
  OBVIOUS
<1>3. PICK n \in {0, 1} : n = IF type = Direct THEN 1 ELSE 0
  OBVIOUS
<1>4. g \in Seq(EventTypes) /\ Cardinality(Places(g, {Direct})) =< Cardinality(Places(h, {Direct})) + n
  <2>1. CASE d = Second
    <3>1. g = Retained(Append(h, type))
      BY <1>2, <2>1 DEF Record
    <3>2. PICK T : T = {Direct}
      OBVIOUS
    <3>3. /\ g \in Seq(EventTypes)
          /\ Cardinality(Places(g, T)) =< Cardinality(Places(h, T)) + IF type \in T THEN 1 ELSE 0
      BY <1>1, <1>2, <3>1, PlacesRetained
    <3>4. n = IF type \in T THEN 1 ELSE 0
      BY <1>3, <3>2
    <3> QED
      BY <3>2, <3>3, <3>4
  <2>2. CASE d # Second
    <3>1. g = h
      BY <1>2, <2>2 DEF Record
    <3>2. Cardinality(Places(h, {Direct})) \in Nat
      BY <1>1, <1>2, PlacesFinite
    <3>3. Cardinality(Places(h, {Direct})) =< Cardinality(Places(h, {Direct})) + n
      BY <1>3, <3>2
    <3> QED
      BY <1>1, <1>2, <3>1, <3>3
  <2> QED
    BY <2>1, <2>2
<1>5. IsFiniteSet(inflight') /\ Cardinality(inflight') \in Nat /\ Cardinality(inflight') + n =< Cardinality(inflight)
  <2>1. CASE type # Direct /\ inflight' = inflight
    BY <1>3, <2>1
  <2>2. ASSUME NEW m \in inflight, inflight' = inflight \ {m}
        PROVE  IsFiniteSet(inflight') /\ Cardinality(inflight') \in Nat /\ Cardinality(inflight') + n =< Cardinality(inflight)
    <3>1. IsFiniteSet(inflight') /\ Cardinality(inflight') = Cardinality(inflight) - 1
      BY <2>2, FS_RemoveElement
    <3>2. Cardinality(inflight') \in Nat
      BY <3>1, FS_CardinalityType
    <3> QED
      BY <1>3, <3>1, <3>2
  <2> QED
    BY <2>1, <2>2
<1>6. Unseen = Places(h, {Direct}) /\ Cardinality(Unseen) \in Nat
  BY <1>1, <1>2, UnseenIs
<1>7. Unseen' = Places(g, {Direct})
  BY <1>2 DEF Unseen, Matching, Places, Direct
<1>8. Cardinality(Unseen') \in Nat
  BY <1>4, <1>7, PlacesFinite
<1>9. \A a, b, c, d1, e, r, s \in Nat : \A k \in {0, 1} :
         r + a + b =< s /\ c =< a + k /\ e + k =< b => r + c + e =< s
  OBVIOUS
<1>10. Cardinality(Unseen') =< Cardinality(Unseen) + n
  BY <1>4, <1>6, <1>7
<1>11. received + Cardinality(Unseen') + Cardinality(inflight') =< sends
  BY <1>1, <1>5, <1>6, <1>8, <1>9, <1>10
<1>12. received' + Cardinality(Unseen)' + Cardinality(inflight)' =< sends'
  BY <1>11
<1> QED
  BY <1>2, <1>4, <1>5, <1>12 DEF Accounted

(* A read, which may count what it finds.                                  *)
LEMMA AccountedRead ==
    ASSUME Accounted, sends \in Nat, received \in Nat, Cardinality(inflight) \in Nat,
           DOMAIN unread = Devices, Second \in Devices, UNCHANGED <<sends, inflight>>,
           \/ unread' = unread /\ received' = received
           \/ \E d : unread' = [unread EXCEPT ![d] = <<>>] /\ received' = received
           \/ unread' = [unread EXCEPT ![Second] = <<>>] /\ received' = received + Cardinality(Unseen)
    PROVE  Accounted' /\ received' \in Nat
<1>1. unread[Second] \in Seq(EventTypes) /\ received + Cardinality(Unseen) + Cardinality(inflight) =< sends
  BY DEF Accounted
<1>2. Cardinality(Unseen) \in Nat
  BY <1>1, UnseenIs
<1>3. unread'[Second] = unread[Second] \/ unread'[Second] = <<>>
  OBVIOUS
<1>4. CASE unread'[Second] = unread[Second] /\ received' = received
  <2>1. Unseen' = Unseen
    BY <1>4 DEF Unseen, Matching
  <2> QED
    BY <1>1, <1>4, <2>1 DEF Accounted
<1>5. CASE unread'[Second] = <<>> /\ received' \in {received, received + Cardinality(Unseen)}
  <2>1. Unseen' = {}
    BY <1>5 DEF Unseen, Matching
  <2>2. Cardinality(Unseen)' = 0
    BY <2>1, FS_EmptySet
  <2>3. unread'[Second] \in Seq(EventTypes)
    BY <1>5
  <2>4. received' \in Nat /\ received' + 0 + Cardinality(inflight) =< sends
    BY <1>1, <1>2, <1>5
  <2>5. received' + Cardinality(Unseen)' + Cardinality(inflight)' =< sends'
    BY <2>2, <2>4
  <2> QED
    BY <2>3, <2>4, <2>5 DEF Accounted
<1>6. CASE unread'[Second] = <<>> /\ received' = received
  BY <1>5, <1>6
<1>7. CASE unread' = [unread EXCEPT ![Second] = <<>>] /\ received' = received + Cardinality(Unseen)
  BY <1>5, <1>7
<1> QED
  BY <1>3, <1>4, <1>6, <1>7

(* A command.                                                              *)
LEMMA AccountedSend ==
    ASSUME Accounted, sends \in Nat, received \in Nat, IsFiniteSet(inflight), Cardinality(inflight) \in Nat,
           UNCHANGED <<unread, received>>,
           \/ inflight' \subseteq inflight /\ sends' = sends
           \/ \E m : inflight' = inflight \cup {m} /\ sends' = sends + 1
    PROVE  Accounted' /\ IsFiniteSet(inflight') /\ sends' \in Nat
<1>1. unread[Second] \in Seq(EventTypes) /\ received + Cardinality(Unseen) + Cardinality(inflight) =< sends
  BY DEF Accounted
<1>2. Cardinality(Unseen) \in Nat
  BY <1>1, UnseenIs
<1>3. Unseen' = Unseen
  BY DEF Unseen, Matching
<1>4. PICK n \in {0, 1} : /\ sends' = sends + n /\ IsFiniteSet(inflight') /\ Cardinality(inflight') \in Nat
                          /\ Cardinality(inflight') =< Cardinality(inflight) + n
  <2>1. CASE inflight' \subseteq inflight /\ sends' = sends
    <3>1. IsFiniteSet(inflight') /\ Cardinality(inflight') =< Cardinality(inflight)
      BY <2>1, FS_Subset
    <3>2. Cardinality(inflight') \in Nat
      BY <3>1, FS_CardinalityType
    <3>3. sends' = sends + 0 /\ Cardinality(inflight') =< Cardinality(inflight) + 0
      BY <2>1, <3>1
    <3> QED
      BY <3>1, <3>2, <3>3
  <2>2. ASSUME NEW m, inflight' = inflight \cup {m}, sends' = sends + 1
        PROVE  /\ IsFiniteSet(inflight') /\ Cardinality(inflight') \in Nat
               /\ Cardinality(inflight') =< Cardinality(inflight) + 1
    <3>1. /\ IsFiniteSet(inflight')
          /\ Cardinality(inflight') = IF m \in inflight THEN Cardinality(inflight) ELSE Cardinality(inflight) + 1
      BY <2>2, FS_AddElement
    <3> QED
      BY <3>1
  <2> QED
    BY <2>1, <2>2
<1>5. received + Cardinality(Unseen) + Cardinality(inflight') =< sends + n
  BY <1>1, <1>2, <1>4
<1>6. received' + Cardinality(Unseen)' + Cardinality(inflight)' =< sends'
  BY <1>3, <1>4, <1>5
<1>7. sends' \in Nat
  BY <1>4
<1> QED
  BY <1>1, <1>4, <1>6, <1>7 DEF Accounted

(* Where a step that ends well leads, by place.                            *)
LEMMA GotoPlace ==
    ASSUME FlowInv, outcome = "running", Goto(Now.then)
    PROVE  /\ scenario' = scenario
           /\ \/ outcome' = "passed" /\ pc = Len(script) /\ pc > 2
              \/ outcome' = "running" /\ pc' \in Nat /\ (pc = 1 => pc' = 2) /\ (pc > 1 => pc' > 2)
<1>1. /\ scenario \in Scenarios /\ pc \in 1..Len(script) /\ pc \in Nat /\ Len(script) \in Nat
  BY NowIs
<1>2. Len(script) > 2 /\ script[1] = Preflight[1] /\ script[2] = Preflight[2]
  BY <1>1, ScriptIs
<1>3. scenario' = scenario
  BY DEF Goto, Enter, End
<1>4. CASE Finishes
  BY <1>1, <1>2, <1>3, <1>4 DEF Finishes, End
<1>5. CASE Onward
  <2>1. pc' = pc + 1 /\ outcome' = "running"
    BY <1>5 DEF Onward, Enter
  <2> QED
    BY <1>1, <1>3, <2>1
<1>6. CASE Around
  <2>1. PICK j \in 1..Len(script) : Enter(j) /\ script[j].at \in DoneLabels
    BY <1>6 DEF Around
  <2>2. j \in Nat /\ j # 1 /\ j # 2
    <3>1. Preflight[1].at \notin DoneLabels /\ Preflight[2].at \notin DoneLabels
      BY PreflightIs DEF Plain, DoneLabels
    <3> QED
      BY <1>1, <1>2, <2>1, <3>1
  <2>3. pc' = j /\ j > 2 /\ outcome' = "running"
    BY <1>1, <2>1, <2>2 DEF Enter
  <2>4. pc # 1
    BY <1>6, FirstSteps DEF Around
  <2> QED
    BY <1>3, <2>2, <2>3, <2>4
<1> QED
  BY <1>4, <1>5, <1>6, GotoGoes

(* The count, where a step leaves the runner.                              *)
Countable ==
    /\ sends \in Nat /\ received \in Nat /\ IsFiniteSet(inflight)
    /\ \A m \in inflight : m.name = "sendReliable" /\ m.to = Second

LEMMA CountRunning ==
    ASSUME Countable', outcome' = "running", pc' \in Nat, pc' > 2, Accounted'
    PROVE  CountInv'
BY DEF Countable, CountInv

LEMMA CountNone ==
    ASSUME sends' \in Nat, received' \in Nat, inflight' = {},
           outcome' # "running" \/ (pc' \in {1, 2} /\ sends' = 0 /\ received' = 0)
    PROVE  CountInv'
<1>1. IsFiniteSet(inflight')
  BY FS_EmptySet
<1> QED
  BY <1>1 DEF CountInv

(* A step that leaves the count as it is, and the runner past the          *)
(* preflight if it was, in the preflight if it was.                        *)
LEMMA CountSame ==
    ASSUME FlowInv, CountInv, Live, scenario \in Counted,
           UNCHANGED <<inflight, sends, received>>, unread' = unread,
           outcome' = outcome, pc' \in Nat, pc > 2 => pc' > 2, pc \in {1, 2} => pc' = pc
    PROVE  CountInv'
<1>1. /\ sends \in Nat /\ received \in Nat /\ IsFiniteSet(inflight) /\ Cardinality(inflight) \in Nat
      /\ \A m \in inflight : m.name = "sendReliable" /\ m.to = Second
      /\ outcome = "running" /\ pc =< 2 => inflight = {} /\ sends = 0 /\ received = 0
      /\ outcome = "running" /\ pc > 2 => Accounted
      /\ outcome # "running" => inflight = {}
  BY CountGives
<1>2. CASE outcome # "running"
  BY <1>1, <1>2, CountNone
<1>3. CASE outcome = "running"
  <2>1. pc \in Nat /\ pc \in 1..Len(script) /\ Len(script) \in Nat
    BY <1>3, NowIs
  <2>2. CASE pc > 2
    <3>1. Accounted'
      BY <1>1, <1>3, <2>2 DEF Accounted, Unseen, Matching
    <3>2. Countable'
      BY <1>1 DEF Countable
    <3> QED
      BY <1>3, <2>2, <3>1, <3>2, CountRunning
  <2>3. CASE pc =< 2
    <3>1. pc \in {1, 2}
      BY <2>1, <2>3
    <3> QED
      BY <1>1, <1>3, <2>3, <3>1, CountNone
  <2> QED
    BY <2>1, <2>2, <2>3
<1> QED
  BY <1>2, <1>3

(* What a script that counts asks.                                         *)
LEMMA CountedAsks ==
    ASSUME FlowInv, outcome = "running", scenario \in Counted, script[pc].op \in {"wait", "check"}
    PROVE  Now = script[pc] /\ (Tallies(script[pc]) \/ Unrelated(script[pc]))
<1>1. /\ scenario \in Scenarios /\ pc \in 1..Len(script) /\ Shape(pc)
      /\ (~script[pc].toChosen => Now = script[pc])
  BY NowIs
<1>2. ~script[pc].toChosen
  BY <1>1 DEF Shape
<1>3. Allowed(script, pc, TRUE)
  <2>1. Allowed(script, pc, scenario \in Counted) /\ (scenario \in Counted) = TRUE
    BY <1>1, ScriptIs
  <2> QED
    BY <2>1
<1>4. SendsCounted(script[pc]) => script[pc].op = "cmd"
  BY CmdSubmits DEF SendsCounted, Submits
<1>5. Neutral(script[pc]) => Unrelated(script[pc])
  BY DEF Neutral
<1>6. Guarded(script, pc) => Unrelated(script[pc])
  BY DEF Guarded
<1>7. ~Cancels(script, pc)
  BY DEF Cancels
<1>8. ~Rethrows(script[pc])
  BY DEF Rethrows
<1> QED
  BY <1>1, <1>2, <1>3, <1>4, <1>5, <1>6, <1>7, <1>8 DEF Allowed

(* What the runner counts are the messages to the second device.           *)
LEMMA CollectIs ==
    ASSUME FlowInv, outcome = "running", scenario \in Counted, script[pc].op \in {"wait", "check"},
           sample \in 1..Len(script[pc].what)
    PROVE  /\ Now = script[pc]
           /\ Condition.kind = "collect" => Condition = Collect(Second)
<1>1. Now = script[pc] /\ (Tallies(script[pc]) \/ Unrelated(script[pc]))
  BY CountedAsks
<1>2. Condition = script[pc].what[sample]
  BY <1>1 DEF Condition
<1>3. CASE Tallies(script[pc])
  <2>1. script[pc].what[sample] = Collect(Second) \/ script[pc].what[sample].kind \in {"steady", "enough", "exact"}
    BY <1>3 DEF Tallies
  <2> QED
    BY <1>1, <1>2, <2>1
<1>4. CASE Unrelated(script[pc])
  <2>1. script[pc].what[sample].kind # "collect"
    BY <1>4 DEF Unrelated
  <2> QED
    BY <1>1, <1>2, <2>1
<1> QED
  BY <1>1, <1>3, <1>4

(* The last thing the script asks is whether all were counted.             *)
LEMMA LastSample ==
    ASSUME FlowInv, outcome = "running", scenario \in Counted, SamplesOn, pc = Len(script),
           sample \in 1..Len(script[pc].what)
    PROVE  received >= sends \/ received = sends
<1>1. scenario \in Scenarios /\ pc \in 1..Len(script)
  BY NowIs
<1>2. EndsCounting(script)
  BY <1>1, ScriptIs
<1>3. Tallies(script[pc]) /\ LastCondition(script[pc]).kind \in {"enough", "exact"}
  BY <1>2 DEF EndsCounting
<1>4. Now = script[pc]
  BY <1>3, CollectIs DEF Tallies
<1>5. Condition.kind \in {"enough", "exact"}
  BY <1>3, <1>4 DEF SamplesOn, LastCondition, Condition
<1>6. Seen(Condition)
  BY <1>5 DEF SamplesOn, Verdicts, Verdict
<1> QED
  BY <1>5, <1>6 DEF Seen, BaseSeen, Enough

LEMMA CountSamples ==
    ASSUME FlowInv, CountInv, Samples, Live', scenario \in Counted
    PROVE  CountInv'
<1>1. /\ outcome = "running" /\ raised = "no" /\ script[pc].op \in {"wait", "check"}
      /\ SamplesNext \/ SamplesOn \/ SamplesAgain \/ Raise("failed")
      /\ sample \in 1..Len(script[pc].what) /\ Len(script[pc].what) \in Nat /\ DOMAIN unread' = Devices
  BY SampleGoes
<1>2. /\ scenario \in Scenarios /\ pc \in 1..Len(script) /\ pc \in Nat /\ Len(script) \in Nat
  BY <1>1, NowIs
<1>3. Live
  BY <1>1 DEF Live, Open
<1>4. /\ sends \in Nat /\ received \in Nat /\ IsFiniteSet(inflight) /\ Cardinality(inflight) \in Nat
      /\ \A m \in inflight : m.name = "sendReliable" /\ m.to = Second
      /\ pc =< 2 => inflight = {} /\ sends = 0 /\ received = 0
      /\ pc > 2 => Accounted
      /\ DOMAIN unread = Devices /\ Second \in Devices
  BY <1>1, <1>3, CountGives
<1>5. UNCHANGED <<inflight, sends>>
  BY SampleReads
<1>6. unread' = unread \/ unread' = [unread EXCEPT ![Condition.on] = <<>>]
  BY SampleReads DEF Reading, feedVars
<1>7. received' = IF Condition.kind = "collect" THEN received + Cardinality(Matching(Condition.on, Condition.types))
                  ELSE received
  BY DEF Samples
<1>8. Condition.kind = "collect" => Condition = Collect(Second)
  BY <1>1, CollectIs
<1>9. ~Raise("failed")
  BY <1>1, RaiseFlow
<1>10. CASE pc > 2
  <2>1. Condition.kind = "collect" =>
          unread' = [unread EXCEPT ![Second] = <<>>] /\ received' = received + Cardinality(Unseen)
    <3>1. SUFFICES ASSUME Condition.kind = "collect"
                   PROVE  unread' = [unread EXCEPT ![Second] = <<>>] /\ received' = received + Cardinality(Unseen)
      OBVIOUS
    <3>2. Condition.on = Second /\ Condition.types = {Direct}
      BY <1>8, <3>1 DEF Collect, Events, Direct
    <3>3. unread' = [unread EXCEPT ![Second] = <<>>]
      BY <3>1, <3>2, SampleReads DEF Reading, EventKinds
    <3> QED
      BY <1>7, <3>1, <3>2, <3>3 DEF Unseen, Direct
  <2>2. Accounted' /\ received' \in Nat
    BY <1>4, <1>5, <1>6, <1>7, <1>10, <2>1, AccountedRead
  <2>3. Countable'
    BY <1>4, <1>5, <2>2 DEF Countable
  <2>4. CASE SamplesNext \/ SamplesAgain
    <3>1. pc' = pc /\ outcome' = "running"
      BY <1>1, <2>4 DEF SamplesNext, SamplesAgain
    <3> QED
      BY <1>2, <1>10, <2>2, <2>3, <3>1, CountRunning
  <2>5. CASE SamplesOn
    <3>1. Goto(Now.then)
      BY <2>5 DEF SamplesOn
    <3>2. CASE outcome' = "running" /\ pc' \in Nat /\ pc' > 2
      BY <2>2, <2>3, <3>2, CountRunning
    <3>3. CASE outcome' = "passed" /\ pc = Len(script)
      <4>1. received >= sends
        BY <1>1, <1>4, <2>5, <3>3, LastSample
      <4>2. unread[Second] \in Seq(EventTypes) /\ received + Cardinality(Unseen) + Cardinality(inflight) =< sends
        BY <1>4, <1>10 DEF Accounted
      <4>3. Cardinality(Unseen) \in Nat
        BY <4>2, UnseenIs
      <4>4. Cardinality(inflight) = 0
        BY <1>4, <4>1, <4>2, <4>3
      <4>5. inflight = {}
        BY <1>4, <4>4, FS_EmptySet
      <4> QED
        BY <1>4, <1>5, <2>2, <3>3, <4>5, CountNone
    <3> QED
      BY <1>1, <1>2, <1>10, <3>1, <3>2, <3>3, GotoPlace
  <2> QED
    BY <1>1, <1>9, <2>4, <2>5
<1>11. CASE pc \in {1, 2}
  <2>1. /\ Len(script[pc].what) = 2 /\ Now = script[pc]
        /\ pc = 1 => script[pc].what[1] = Health(First) /\ script[pc].what[2] = Health(Second)
        /\ pc = 2 => script[pc].what[1] = Presence(First) /\ script[pc].what[2] = Presence(Second)
    BY <1>1, <1>11, FirstSteps
  <2>2. sample \in {1, 2}
    <3>1. \A k \in 1..2 : k \in {1, 2}
      OBVIOUS
    <3> QED
      BY <1>1, <2>1, <3>1
  <2>3. Condition.kind # "collect"
    BY <1>11, <2>1, <2>2 DEF Condition, Health, Presence, Shows, Events
  <2>4. inflight' = {} /\ sends' = 0 /\ received' = 0
    BY <1>2, <1>4, <1>5, <1>7, <1>11, <2>3
  <2>5. CASE SamplesNext \/ SamplesAgain
    <3>1. pc' = pc /\ outcome' = "running"
      BY <1>1, <2>5 DEF SamplesNext, SamplesAgain
    <3> QED
      BY <1>11, <2>4, <3>1, CountNone
  <2>6. CASE SamplesOn
    <3>1. Goto(Now.then) /\ sample = 2
      BY <2>1, <2>6 DEF SamplesOn
    <3>2. CASE pc = 1
      BY <1>1, <2>4, <3>1, <3>2, GotoPlace, CountNone
    <3>3. CASE pc = 2
      <4>1. outcome' = "running" /\ pc' \in Nat /\ pc' > 2
        BY <1>1, <3>1, <3>3, GotoPlace
      <4>2. Condition = Presence(Second)
        BY <2>1, <3>1, <3>3 DEF Condition
      <4>3. Condition.kind \in EventKinds /\ Condition.on = Second
        BY <4>2 DEF Presence, Events, EventKinds
      <4>4. unread' = [unread EXCEPT ![Second] = <<>>]
        BY <4>3, SampleReads DEF Reading
      <4>5. unread'[Second] = <<>>
        BY <1>4, <4>4
      <4>6. Unseen' = {}
        BY <4>5 DEF Unseen, Matching
      <4>7. Cardinality(Unseen)' = 0 /\ Cardinality(inflight)' = 0 /\ IsFiniteSet(inflight')
        BY <2>4, <4>6, FS_EmptySet
      <4>8. unread'[Second] \in Seq(EventTypes)
        BY <4>5
      <4>9. Accounted' /\ Countable'
        BY <2>4, <4>7, <4>8 DEF Accounted, Countable
      <4> QED
        BY <4>1, <4>9, CountRunning
    <3> QED
      BY <1>11, <3>2, <3>3
  <2> QED
    BY <1>1, <1>9, <2>5, <2>6
<1> QED
  BY <1>2, <1>10, <1>11

(* A script that counts ends with a question.                              *)
LEMMA NotLast ==
    ASSUME FlowInv, outcome = "running", scenario \in Counted, script[pc].op \notin {"wait", "check"}
    PROVE  pc # Len(script)
<1>1. scenario \in Scenarios /\ pc \in 1..Len(script)
  BY NowIs
<1>2. EndsCounting(script)
  BY <1>1, ScriptIs
<1> QED
  BY <1>2 DEF EndsCounting, Tallies

LEMMA CountEvent ==
    ASSUME FlowInv, CountInv, Live, scenario \in Counted,
           UNCHANGED controlVars, UNCHANGED <<inflight, sends, received>>,
           \/ UNCHANGED feedVars
           \/ \E d \in Devices : \E type \in {"unstable", "other", "connectFailed", "invoke"} : Record(d, type)
    PROVE  CountInv'
<1>1. /\ sends \in Nat /\ received \in Nat /\ IsFiniteSet(inflight) /\ Cardinality(inflight) \in Nat
      /\ \A m \in inflight : m.name = "sendReliable" /\ m.to = Second
      /\ outcome = "running" /\ pc =< 2 => inflight = {} /\ sends = 0 /\ received = 0
      /\ outcome = "running" /\ pc > 2 => Accounted
      /\ outcome # "running" => inflight = {}
      /\ DOMAIN unread = Devices /\ Second \in Devices
  BY CountGives
<1>2. pc \in Nat /\ pc \in 1..Len(script) /\ Len(script) \in Nat
  <2>1. scenario \in Scenarios /\ pc \in 1..Len(script)
    BY DEF FlowInv, Live
  <2> QED
    BY <2>1, ScriptIs
<1>3. CASE UNCHANGED feedVars
  BY <1>2, <1>3, CountSame DEF controlVars, feedVars
<1>4. ASSUME NEW d \in Devices, NEW type \in {"unstable", "other", "connectFailed", "invoke"}, Record(d, type)
      PROVE  CountInv'
  <2>1. type \in EventTypes /\ type # Direct
    BY DEF EventTypes, Direct
  <2>2. CASE outcome = "running" /\ pc > 2
    <3>1. Accounted'
      BY <1>1, <1>4, <2>1, <2>2, AccountedRecord
    <3>2. Countable'
      BY <1>1 DEF Countable
    <3> QED
      BY <1>2, <2>2, <3>1, <3>2, CountRunning DEF controlVars
  <2>3. CASE outcome = "running" /\ pc =< 2
    <3>1. pc \in {1, 2}
      BY <1>2, <2>3
    <3> QED
      BY <1>1, <2>3, <3>1, CountNone DEF controlVars
  <2>4. CASE outcome # "running"
    BY <1>1, <2>4, CountNone DEF controlVars
  <2> QED
    BY <1>2, <2>2, <2>3, <2>4
<1> QED
  BY <1>3, <1>4

LEMMA CountDeliver ==
    ASSUME FlowInv, CountInv, Live, scenario \in Counted, NEW m \in inflight, Deliver(m)
    PROVE  CountInv'
<1>1. /\ sends \in Nat /\ received \in Nat /\ IsFiniteSet(inflight) /\ Cardinality(inflight) \in Nat
      /\ \A n \in inflight : n.name = "sendReliable" /\ n.to = Second
      /\ outcome = "running" /\ pc =< 2 => inflight = {} /\ sends = 0 /\ received = 0
      /\ outcome = "running" /\ pc > 2 => Accounted
      /\ outcome # "running" => inflight = {}
      /\ DOMAIN unread = Devices /\ Second \in Devices
  BY CountGives
<1>2. outcome = "running" /\ ~(pc =< 2)
  BY <1>1
<1>3. pc \in Nat /\ pc > 2
  BY <1>2, NowIs
<1>4. Record(m.to, Shown(m)) /\ inflight' = inflight \ {m} /\ UNCHANGED controlVars /\ UNCHANGED <<sends, received>>
  BY DeliverIs
<1>5. PICK type : type = Shown(m)
  OBVIOUS
<1>6. type \in EventTypes
  BY <1>5 DEF Shown, EventTypes, Evidence
<1>7. PICK d : d = m.to
  OBVIOUS
<1>8. Record(d, type)
  BY <1>4, <1>5, <1>7
<1>9. Accounted' /\ IsFiniteSet(inflight')
  BY <1>1, <1>2, <1>3, <1>4, <1>6, <1>8, AccountedRecord
<1>10. Countable'
  BY <1>1, <1>4, <1>9 DEF Countable
<1> QED
  BY <1>2, <1>3, <1>4, <1>9, <1>10, CountRunning DEF controlVars

(* A step past the preflight that reads or not and goes on.                *)
LEMMA CountGoes ==
    ASSUME FlowInv, CountInv, Live, scenario \in Counted, outcome = "running",
           script[pc].op \notin {"wait", "check"}, Goto(Now.then), UNCHANGED <<inflight, sends, received>>,
           unread' = unread \/ \E d : unread' = [unread EXCEPT ![d] = <<>>]
    PROVE  CountInv'
<1>1. /\ sends \in Nat /\ received \in Nat /\ IsFiniteSet(inflight) /\ Cardinality(inflight) \in Nat
      /\ \A n \in inflight : n.name = "sendReliable" /\ n.to = Second
      /\ outcome = "running" /\ pc > 2 => Accounted
      /\ DOMAIN unread = Devices /\ Second \in Devices
  BY CountGives
<1>2. pc \in Nat /\ pc > 2
  BY PastPreflight
<1>3. outcome' = "running" /\ pc' \in Nat /\ pc' > 2
  BY <1>2, GotoPlace, NotLast
<1>4. Accounted'
  BY <1>1, <1>2, AccountedRead
<1>5. Countable'
  BY <1>1 DEF Countable
<1> QED
  BY <1>3, <1>4, <1>5, CountRunning

LEMMA CountCounts ==
    ASSUME FlowInv, CountInv, Counts, Live', scenario \in Counted
    PROVE  CountInv'
<1>1. outcome = "running" /\ DOMAIN unread' = Devices /\ late' = late /\ raised = "no"
  BY OtherRaises
<1>2. script[pc].op \in {"note", "compare"}
  BY <1>1, NowIs DEF Counts, Busy
<1>3. Live
  BY <1>1 DEF Live, Open
<1>4. UNCHANGED <<inflight, sends, received>> /\ (Raise("failed") \/ Goto(Now.then))
      /\ unread' = [unread EXCEPT ![Now.what[1].on] = <<>>]
  BY DEF Counts
<1>5. Goto(Now.then)
  BY <1>1, <1>4, RaiseFlow
<1> QED
  BY <1>1, <1>2, <1>3, <1>4, <1>5, CountGoes

LEMMA CountReraise ==
    ASSUME FlowInv, CountInv, Reraise(rest), Live', scenario \in Counted
    PROVE  CountInv'
<1>1. raised = "no" /\ outcome = "running"
  BY ReraiseFlow
<1>2. script[pc].op = "reraise" /\ Goto(Now.then)
  BY <1>1, NowIs DEF Reraise, Busy
<1>3. Live
  BY <1>1 DEF Live, Open
<1>4. UNCHANGED <<inflight, sends, received>> /\ unread' = unread
  BY DEF Reraise, rest, messageVars, feedVars
<1> QED
  BY <1>1, <1>2, <1>3, <1>4, CountGoes

LEMMA CountPoll ==
    ASSUME FlowInv, CountInv, PollAgain(rest), Live', scenario \in Counted
    PROVE  CountInv'
<1>1. /\ UNCHANGED <<scenario, pc, open, chosen, raised, outcome>>
      /\ UNCHANGED <<inflight, sends, received>> /\ unread' = unread /\ outcome = "running"
  BY DEF PollAgain, rest, messageVars, feedVars, Busy
<1>2. Live
  BY <1>1 DEF Live, Open
<1>3. pc \in Nat
  BY <1>1, NowIs
<1> QED
  BY <1>1, <1>2, <1>3, CountSame

LEMMA CountCommand ==
    ASSUME FlowInv, CountInv, Live', scenario \in Counted, NEW i \in open, NEW how, CommandEnds(i, how)
    PROVE  CountInv'
<1>1. /\ outcome = "running" /\ raised = "no" /\ Effect(Now.what[i])
      /\ pc \in Nat /\ pc > 2
      /\ \/ open = {i} /\ Goto(Now.then)
         \/ open # {i} /\ script[pc].op = "pair"
  BY AcceptedGoes
<1>2. /\ scenario \in Scenarios /\ pc \in 1..Len(script) /\ Shape(pc)
      /\ (~script[pc].toChosen => Now = script[pc])
  BY <1>1, NowIs
<1>3. script[pc].op = "cmd" /\ ~script[pc].toChosen
  BY <1>2 DEF Shape, CommandEnds
<1>4. i = 1 /\ Goto(Now.then) /\ Now = script[pc]
  BY <1>1, <1>2, <1>3 DEF FlowInv
<1>5. PICK c : c = script[pc].what[1]
  OBVIOUS
<1>6. Effect(c)
  BY <1>1, <1>4, <1>5
<1>7. Allowed(script, pc, TRUE)
  <2>1. Allowed(script, pc, scenario \in Counted) /\ (scenario \in Counted) = TRUE
    BY <1>2, ScriptIs
  <2> QED
    BY <2>1
<1>8. c.name \notin Sending \/ c = To("sendReliable", First, Second)
  <2>1. SendsCounted(script[pc]) => c = To("sendReliable", First, Second)
    <3>1. SUFFICES ASSUME SendsCounted(script[pc]) PROVE c = To("sendReliable", First, Second)
      OBVIOUS
    <3>2. script[pc].what = <<To("sendReliable", First, Second)>>
      BY <3>1, CmdSubmits DEF SendsCounted
    <3> QED
      BY <1>5, <3>2
  <2>2. Neutral(script[pc]) => c.name \notin Sending
    BY <1>3, <1>5 DEF Neutral
  <2>3. Cancels(script, pc) => c.name \notin Sending
    BY <1>5 DEF Cancels
  <2>4. ~Guarded(script, pc) /\ ~Rethrows(script[pc]) /\ ~Tallies(script[pc])
    BY <1>3 DEF Guarded, Rethrows, Tallies
  <2> QED
    BY <1>7, <2>1, <2>2, <2>3, <2>4 DEF Allowed
<1>9. PICK m : m = Message(c)
  OBVIOUS
<1>10. c = To("sendReliable", First, Second) =>
          c.name = "sendReliable" /\ c.name \in Sending /\ m.name = "sendReliable" /\ m.to = Second
  <2>1. SUFFICES ASSUME c = To("sendReliable", First, Second)
                 PROVE  c.name = "sendReliable" /\ c.name \in Sending /\ m.name = "sendReliable" /\ m.to = Second
    OBVIOUS
  <2>2. c.name = "sendReliable" /\ c.arg = Second
    BY <2>1 DEF To, Command
  <2>3. m.name = c.name /\ m.to = Destination(c)
    BY <1>9 DEF Message
  <2> QED
    BY <2>2, <2>3 DEF Destination, Sending
<1>11. /\ UNCHANGED <<unread, received>>
       /\ \/ inflight' \subseteq inflight /\ sends' = sends
          \/ inflight' = inflight \cup {m} /\ sends' = sends + 1 /\ m.name = "sendReliable" /\ m.to = Second
  <2>1. c.name # "publishCheckpoint"
    BY <1>8, <1>10 DEF Sending
  <2> QED
    BY <1>6, <1>8, <1>9, <1>10, <2>1, MessageIs DEF feedVars
<1>12. Live
  BY <1>1 DEF Live, Open
<1>13. /\ sends \in Nat /\ received \in Nat /\ IsFiniteSet(inflight) /\ Cardinality(inflight) \in Nat
       /\ \A n \in inflight : n.name = "sendReliable" /\ n.to = Second
       /\ outcome = "running" /\ pc > 2 => Accounted
  BY <1>12, CountGives
<1>14. Accounted' /\ IsFiniteSet(inflight') /\ sends' \in Nat
  BY <1>1, <1>11, <1>13, AccountedSend
<1>15. Countable'
  BY <1>11, <1>13, <1>14 DEF Countable
<1>16. outcome' = "running" /\ pc' \in Nat /\ pc' > 2
  BY <1>1, <1>3, <1>4, GotoPlace, NotLast
<1> QED
  BY <1>14, <1>15, <1>16, CountRunning

LEMMA CountReports ==
    ASSUME FlowInv, MatchedInv, CountInv, MainInv, Reports
    PROVE  CountInv'
<1>1. sends' = 0 /\ received' = 0
  BY DEF Reports
<1>2. CASE Starts
  <2>1. inflight' = {} /\ pc' = 1
    BY <1>2, StartsClear DEF Starts
  <2> QED
    BY <1>1, <2>1, CountNone
<1>3. CASE UNCHANGED <<controlVars, unread, late, missed, inflight>> /\ outcome # "running"
  <2>1. SUFFICES ASSUME Live', scenario' \in Counted PROVE CountInv'
    BY DEF CountInv
  <2>2. Live /\ scenario \in Counted /\ outcome' # "running"
    BY <1>3, <2>1 DEF Live, Open, controlVars
  <2>3. inflight' = {}
    BY <1>3, <2>2 DEF CountInv
  <2> QED
    BY <1>1, <2>2, <2>3, CountNone
<1> QED
  BY <1>2, <1>3, ReportGoes

-----------------------------------------------------------------------------
(* The specification.                                                      *)

(* Only a report leads to another scenario.                                *)
LEMMA Moves ==
    /\ \A label : Goto(label) => scenario' = scenario
    /\ \A how : Raise(how) => scenario' = scenario
    /\ \A i, how : Settle(i, how) => scenario' = scenario
<1>1. ASSUME NEW label, Goto(label) PROVE scenario' = scenario
  BY <1>1 DEF Goto, Enter, End
<1>2. ASSUME NEW how, Raise(how) PROVE scenario' = scenario
  BY <1>2 DEF Raise, Enter, End
<1>3. ASSUME NEW i, NEW how, Settle(i, how) PROVE scenario' = scenario
  BY <1>1, <1>2, <1>3 DEF Settle
<1> QED
  BY <1>1, <1>2, <1>3

LEMMA ScenarioKept == ASSUME SessionNext, ~Reports PROVE scenario' = scenario
<1>1. CASE Proceeds
  <2>1. Samples => scenario' = scenario
    BY SampleReads
  <2>2. Pick(Seen(Condition), rest) => scenario' = scenario
    BY Moves DEF Pick
  <2>3. Counts => scenario' = scenario
    BY Moves DEF Counts
  <2>4. Blocks => scenario' = scenario
    BY Moves DEF Blocks
  <2>5. Commands => scenario' = scenario
    BY Moves DEF Commands, CommandOk, CommandAnswerLost, CommandRefused, CommandDelayed
  <2>6. Reraise(rest) => scenario' = scenario
    BY Moves DEF Reraise
  <2>7. Uncaught => scenario' = scenario
    BY DEF Uncaught, controlVars
  <2> QED
    BY <1>1, <2>1, <2>2, <2>3, <2>4, <2>5, <2>6, <2>7 DEF Proceeds
<1>2. CASE PollAgain(rest) \/ DeadlinePassed(rest) \/ ReadFails(EndpointReads, rest)
  BY <1>2, Moves DEF PollAgain, DeadlinePassed, ReadFails
<1>3. ASSUME NEW c, LateCommand(c, Accepts(c), Effect(c)) PROVE scenario' = scenario
  BY <1>3 DEF LateCommand, controlVars
<1>4. CASE DevicesMove
  BY <1>4, DeviceMoves DEF controlVars
<1>5. ASSUME NEW m, Deliver(m) PROVE scenario' = scenario
  BY <1>5 DEF Deliver, controlVars
<1>6. ASSUME NEW d, Invokes(d) PROVE scenario' = scenario
  BY <1>6 DEF Invokes, controlVars
<1> QED
  BY <1>1, <1>2, <1>3, <1>4, <1>5, <1>6 DEF SessionNext

(* A step of the devices, or one that ends the process.                    *)
Besides ==
    /\ UNCHANGED controlVars /\ UNCHANGED <<inflight, sends, received>>
    /\ \/ UNCHANGED feedVars
       \/ \E d \in Devices : \E type \in {"unstable", "other", "connectFailed", "invoke"} : Record(d, type)

LEMMA BesidesAre ==
    ASSUME \/ Uncaught \/ UNCHANGED allVars \/ (DevicesMove /\ UNCHANGED <<messageVars, mainVars>>)
           \/ \E d \in Devices : Invokes(d)
    PROVE  Besides
<1>1. CASE Uncaught
  BY <1>1 DEF Uncaught, Besides, messageVars
<1>2. CASE UNCHANGED allVars
  BY <1>2 DEF allVars, stepVars, messageVars, Besides
<1>3. CASE DevicesMove /\ UNCHANGED <<messageVars, mainVars>>
  <2>1. UNCHANGED controlVars
        /\ (UNCHANGED feedVars \/ \E d \in Devices : \E type \in {"unstable", "other", "connectFailed"} : Record(d, type))
    BY <1>3, DeviceMoves
  <2> QED
    BY <1>3, <2>1 DEF Besides, messageVars
<1>4. ASSUME NEW d \in Devices, Invokes(d) PROVE Besides
  BY <1>4 DEF Besides, Invokes
<1> QED
  BY <1>1, <1>2, <1>3, <1>4

(* The steps, for the two invariants about messages.                       *)
LEMMA StepsAre ==
    ASSUME FlowInv, [SessionNext]_allVars, Live', ~Reports
    PROVE  \/ Besides \/ Samples \/ Pick(Seen(Condition), rest) \/ Counts \/ Blocks \/ Reraise(rest)
           \/ PollAgain(rest)
           \/ \E i \in open : \E how : CommandEnds(i, how)
           \/ outcome = "running" /\ \E m \in inflight : Deliver(m)
<1>1. CASE Proceeds
  BY <1>1, BesidesAre, CommandGoes DEF Proceeds
<1>2. CASE PollAgain(rest) \/ DeadlinePassed(rest) \/ ReadFails(EndpointReads, rest)
  BY <1>2, GivesUp
<1>3. CASE \E c \in late : LateCommand(c, Accepts(c), Effect(c))
  BY <1>3, LateFlow
<1>4. CASE DevicesMove /\ UNCHANGED <<messageVars, mainVars>>
  BY <1>4, BesidesAre
<1>5. CASE outcome = "running" /\ ((\E m \in inflight : Deliver(m)) \/ (\E d \in Devices : Invokes(d)))
  BY <1>5, BesidesAre
<1>6. CASE UNCHANGED allVars
  BY <1>6, BesidesAre
<1> QED
  BY <1>1, <1>2, <1>3, <1>4, <1>5, <1>6 DEF SessionNext

LEMMA MatchedStep ==
    ASSUME FlowInv, MatchedInv, CountInv, MainInv, [SessionNext]_allVars
    PROVE  MatchedInv'
<1>1. CASE Reports
  BY <1>1, MatchedReports
<1>2. CASE ~Reports
  <2>1. SUFFICES ASSUME Live', scenario' \notin Counted PROVE MatchedInv'
    BY DEF MatchedInv
  <2>2. scenario \notin Counted
    BY <1>2, <2>1, ScenarioKept DEF allVars, stepVars, controlVars
  <2>3. CASE Besides
    BY <2>3, MatchedEvent DEF Besides
  <2>4. CASE Samples
    BY <2>1, <2>2, <2>4, MatchedFind, MatchedSamples
  <2>5. CASE Pick(Seen(Condition), rest)
    BY <2>1, <2>2, <2>5, MatchedPick
  <2>6. CASE Counts \/ Blocks
    BY <2>1, <2>2, <2>6, MatchedCounts, MatchedBlocks
  <2>7. CASE Reraise(rest) \/ PollAgain(rest)
    BY <2>1, <2>2, <2>7, MatchedReraise, MatchedPoll
  <2>8. ASSUME NEW i \in open, NEW how, CommandEnds(i, how) PROVE MatchedInv'
    BY <2>1, <2>2, <2>8, MatchedCommand, MatchedPair DEF CommandEnds
  <2>9. ASSUME NEW m \in inflight, Deliver(m) PROVE MatchedInv'
    BY <2>9, MatchedDeliver
  <2> QED
    BY <1>2, <2>1, <2>3, <2>4, <2>5, <2>6, <2>7, <2>8, <2>9, StepsAre
<1> QED
  BY <1>1, <1>2

LEMMA CountStep ==
    ASSUME FlowInv, MatchedInv, CountInv, MainInv, [SessionNext]_allVars
    PROVE  CountInv'
<1>1. CASE Reports
  BY <1>1, CountReports
<1>2. CASE ~Reports
  <2>1. SUFFICES ASSUME Live', scenario' \in Counted PROVE CountInv'
    BY DEF CountInv
  <2>2. scenario \in Counted
    BY <1>2, <2>1, ScenarioKept DEF allVars, stepVars, controlVars
  <2>3. CASE Besides
    <3>1. Live
      BY <2>1, <2>3 DEF Besides, Live, Open, controlVars
    <3> QED
      BY <2>2, <2>3, <3>1, CountEvent DEF Besides
  <2>4. CASE Samples
    BY <2>1, <2>2, <2>4, CountSamples
  <2>5. CASE Pick(Seen(Condition), rest) \/ Blocks
    <3>1. outcome = "running" /\ script[pc].op \in {"pick", "block"}
      BY <2>5, PickGoes, BlockEnds
    <3> QED
      BY <2>2, <3>1, NowIs DEF Shape
  <2>6. CASE Counts
    BY <2>1, <2>2, <2>6, CountCounts
  <2>7. CASE Reraise(rest) \/ PollAgain(rest)
    BY <2>1, <2>2, <2>7, CountReraise, CountPoll
  <2>8. ASSUME NEW i \in open, NEW how, CommandEnds(i, how) PROVE CountInv'
    BY <2>1, <2>2, <2>8, CountCommand
  <2>9. ASSUME NEW m \in inflight, Deliver(m) PROVE CountInv'
    <3>1. Live
      BY <2>1, <2>9 DEF Deliver, Live, Open, controlVars
    <3> QED
      BY <2>2, <2>9, <3>1, CountDeliver
  <2> QED
    BY <1>2, <2>1, <2>3, <2>4, <2>5, <2>6, <2>7, <2>8, <2>9, StepsAre
<1> QED
  BY <1>1, <1>2

(* It holds when the first scenario begins.                                *)
LEMMA SessionStarts == ASSUME SessionInit PROVE SessionInv
<1>1. plan \in Seq(Scenarios) /\ plan # <<>> /\ Len(plan) \in Nat /\ Len(plan) > 0 /\ plan[1] \in Scenarios
  <2>1. plan \in Seq(Scenarios) /\ plan # <<>>
    BY SessionScenario DEF SessionInit
  <2>2. Len(plan) \in Nat /\ Len(plan) > 0 /\ plan[1] \in Scenarios
    BY <2>1
  <2> QED
    BY <2>1, <2>2
<1>2. /\ unread = [d \in Devices |-> <<>>] /\ scenario = plan[1] /\ pc = 1 /\ sample = 1 /\ chosen = "none"
      /\ raised = "no" /\ outcome = "running" /\ late = {}
  BY DEF SessionInit, ControlInit
<1>3. scenario \in Scenarios /\ Len(script) \in Nat /\ Len(script) > 2 /\ script[1] = Preflight[1]
  BY <1>1, <1>2, ScriptIs
<1>4. /\ Plain(script[1]) /\ script[1].op = "check" /\ ~script[1].toChosen /\ Len(script[1].what) = 2
  BY <1>3, PreflightIs
<1>5. 1 \in 1..Len(script) /\ 1 \in 1..2
  BY <1>3
<1>6. FlowInv
  <2>1. script[1].at \notin CancelLabels
    BY <1>4 DEF Plain, CancelLabels
  <2> QED
    BY <1>2, <1>3, <1>4, <1>5, <2>1 DEF FlowInv, Open
<1>7. inflight = {} /\ sends = 0 /\ received = 0 /\ results = <<>> /\ exit = "none"
  BY DEF SessionInit
<1>8. MatchedInv
  <2>1. Due = {}
    BY <1>2, <1>4, QuietHere DEF IsFind
  <2>2. Read = {}
    BY <1>2 DEF Read
  <2> QED
    BY <1>7, <2>1, <2>2 DEF MatchedInv, Fits, Awaited
<1>9. CountInv
  <2>1. IsFiniteSet(inflight)
    BY <1>7, FS_EmptySet
  <2> QED
    BY <1>2, <1>7, <2>1 DEF CountInv
<1>10. MainInv
  <2>1. Len(results) = 0 /\ results \in Seq({"passed", "failed", "blocked"}) /\ DOMAIN results = {}
    BY <1>7
  <2> QED
    BY <1>1, <1>7, <2>1 DEF MainInv, ExitMeansAllPassed
<1> QED
  BY <1>6, <1>8, <1>9, <1>10 DEF SessionInv

(* In every state the place in the script, the messages under way and the  *)
(* events the runner has not read are related as the invariants above say, *)
(* and so are the results and the exit status.                             *)
THEOREM SessionInvariant == SessionSpec => []SessionInv
<1>1. SessionInit => SessionInv
  BY SessionStarts
<1>2. SessionInv /\ [SessionNext]_allVars => SessionInv'
  <2> SUFFICES ASSUME SessionInv, [SessionNext]_allVars PROVE SessionInv'
    OBVIOUS
  <2>1. FlowInv /\ MatchedInv /\ CountInv /\ MainInv
    BY DEF SessionInv
  <2> QED
    BY <2>1, FlowStep, MatchedStep, CountStep, MainStep DEF SessionInv
<1> QED
  BY <1>1, <1>2, PTL DEF SessionSpec

(* A scenario that passed had each of its messages and publications        *)
(* delivered: whatever an earlier scenario left in the histories, however  *)
(* many scenarios the command line names and whatever connections do, no   *)
(* old event is taken for a new message.                                   *)
THEOREM SessionDelivers == SessionSpec => []PassedMeansDelivered
<1>1. SessionInv => PassedMeansDelivered
  BY StartsClear DEF SessionInv, PassedMeansDelivered
<1> QED
  BY <1>1, SessionInvariant, PTL

(* What a wait_for_event looks for has not gone by: it is still under way, *)
(* or ahead of the cursor, unless the fixture evicted it.                  *)
THEOREM SessionEvidenceAhead == SessionSpec => []EvidenceStillAhead
<1>1. SessionInv => EvidenceStillAhead
  <2> SUFFICES ASSUME SessionInv, Busy({"wait"}), Now.what[1].kind = "find", Now.what[1].types # {"durable"},
                      \A m \in inflight : m.to # Now.what[1].on, Now.what[1].on \notin missed
               PROVE  Matching(Now.what[1].on, Now.what[1].types) # {}
    BY DEF EvidenceStillAhead
  <2>1. FlowInv /\ MatchedInv /\ outcome = "running"
    BY DEF SessionInv, Busy
  <2>2. /\ script[pc].op = "wait" /\ scenario \in Scenarios /\ pc \in 1..Len(script) /\ Shape(pc)
        /\ (~script[pc].toChosen => Now = script[pc])
    BY <2>1, NowIs DEF Busy
  <2>3. scenario \notin Counted
    <3>1. SUFFICES ASSUME scenario \in Counted PROVE FALSE
      OBVIOUS
    <3>2. Now = script[pc] /\ (Tallies(script[pc]) \/ Unrelated(script[pc]))
      BY <2>1, <2>2, <3>1, CountedAsks
    <3>3. Conditions(script[pc])
      BY <3>2 DEF Tallies, Unrelated
    <3>4. 1 \in 1..Len(script[pc].what)
      <4>1. Len(script[pc].what) \in Nat /\ Len(script[pc].what) >= 1
        BY <3>3, CondLen
      <4> QED
        BY <4>1
    <3>5. Collect(Second).kind = "collect"
      BY DEF Collect, Events
    <3>6. script[pc].what[1].kind # "find"
      BY <3>2, <3>4, <3>5 DEF Tallies, Unrelated
    <3> QED
      BY <3>2, <3>6
  <2>4. IsFind(pc)
    <3>1. CASE script[pc].toChosen
      BY <2>2, <3>1, SenderOps DEF Shape
    <3>2. CASE ~script[pc].toChosen
      BY <2>2, <3>2 DEF IsFind
    <3> QED
      BY <3>1, <3>2
  <2>5. PICK d, type : Searches(pc, d, type)
    BY <2>2, <2>3, <2>4, FindSearches
  <2>6. Now.what[1].on = d /\ Now.what[1].types = {type}
    BY <2>5 DEF Searches, Finds, Now, Events
  <2>7. <<d, {type}>> \in Due
    BY <2>1, <2>5 DEF Searches, Due
  <2>8. Live
    BY <2>1, <2>2, RaisedIs DEF Live, Open
  <2>9. Awaited(Due)
    BY <2>1, <2>3, <2>8, MatchedGives
  <2>10. Holding(d, type)
    <3>1. PICK p : p = <<d, {type}>>
      OBVIOUS
    <3>2. p \in Due /\ p[1] = d /\ p[2] = {type} /\ p[2] # {"durable"}
      BY <2>6, <2>7, <3>1
    <3>3. \/ \E m \in inflight : <<m.to, {Shown(m)}>> = p
          \/ \E x \in p[2] : Holding(p[1], x)
          \/ p[1] \in missed
      BY <2>9, <3>2 DEF Awaited
    <3>4. ~\E m \in inflight : <<m.to, {Shown(m)}>> = p
      BY <2>6, <3>1
    <3> QED
      BY <2>6, <3>2, <3>3, <3>4
  <2> QED
    BY <2>6, <2>10 DEF Holding, Matching
<1> QED
  BY <1>1, SessionInvariant, PTL

(* The process reports success only when every scenario of the command     *)
(* line ran and passed, and failure only after a scenario failed or all of *)
(* them ran.                                                               *)
THEOREM SessionExit == SessionSpec => []ExitMeansAllPassed
<1>1. SessionInv => ExitMeansAllPassed
  BY DEF SessionInv, MainInv
<1> QED
  BY <1>1, SessionInvariant, PTL
=============================================================================
