------------------------- MODULE RunnerTrafficProofs -------------------------
(***************************************************************************)
(* Proofs about IT-041, IT-043 and IT-044, for every number of phases,     *)
(* sizes, bounds of the producers and thresholds, of faulty requests and   *)
(* of connections that flap.                                               *)
(*                                                                         *)
(* The first parts compute the scripts, those of the ramps with as many    *)
(* phases as there are sizes: what the step at every place is, and where   *)
(* its handlers lead.  The invariant then relates the place to what the    *)
(* runner has read, to the producers and to the group.                     *)
(***************************************************************************)
EXTENDS RunnerTraffic, SequenceTheorems, FiniteSetTheorems, WellFoundedInduction, TLAPS

-----------------------------------------------------------------------------
(* Sequences.                                                              *)

(* s is a sequence of n elements.                                          *)
IsSeq(s, n) == n \in Nat /\ \E S : s \in Seq(S) /\ Len(s) = n

(* A function over an interval from 1 is one.                              *)
LEMMA FunctionIsSeq ==
    ASSUME NEW n \in Nat, NEW f, f = [i \in 1..n |-> f[i]]
    PROVE  IsSeq(f, n)
<1> DEFINE S == {f[i] : i \in 1..n}
<1>1. f \in [1..n -> S]
  OBVIOUS
<1> HIDE DEF S
<1>2. f \in Seq(S) /\ Len(f) = n
  BY <1>1
<1> QED
  BY <1>2 DEF IsSeq

(* Its domain.                                                             *)
LEMMA SeqDomain ==
    ASSUME NEW s, NEW n, IsSeq(s, n)
    PROVE  n \in Nat /\ DOMAIN s = 1..n /\ Len(s) = n
BY LenProperties DEF IsSeq

(* Concatenation, for sequences whose elements are of no common type: r,   *)
(* of k elements, is s, of m, followed by t, of n.                         *)
Joins(r, k, s, m, t, n) == r = s \o t /\ k = m + n /\ IsSeq(s, m) /\ IsSeq(t, n)

(* Such an r is a sequence and has the elements of both.                   *)
LEMMA Concat ==
    ASSUME NEW r, NEW k, NEW s, NEW m, NEW t, NEW n, Joins(r, k, s, m, t, n)
    PROVE  /\ IsSeq(r, k)
           /\ \A i \in 1..m : r[i] = s[i]
           /\ \A i \in 1..n : r[m + i] = t[i]
<1>1. m \in Nat /\ n \in Nat
  BY DEF IsSeq, Joins
<1>2. PICK S : s \in Seq(S) /\ Len(s) = m
  BY DEF IsSeq, Joins
<1>3. PICK T : t \in Seq(T) /\ Len(t) = n
  BY DEF IsSeq, Joins
<1>4. s \in Seq(S \cup T) /\ t \in Seq(S \cup T)
  BY <1>2, <1>3
<1>5. /\ r \in Seq(S \cup T) /\ Len(r) = m + n
      /\ \A i \in 1..(m + n) : r[i] = IF i =< m THEN s[i] ELSE t[i - m]
  BY <1>2, <1>3, <1>4, ConcatProperties DEF Joins
<1>6. IsSeq(r, k)
  BY <1>1, <1>5 DEF IsSeq, Joins
<1>7. ASSUME NEW i \in 1..m PROVE r[i] = s[i]
  BY <1>1, <1>5
<1>8. ASSUME NEW i \in 1..n PROVE r[m + i] = t[i]
  <2>1. m + i \in 1..(m + n) /\ ~(m + i =< m) /\ (m + i) - m = i
    BY <1>1
  <2> QED
    BY <1>5, <2>1
<1> QED
  BY <1>6, <1>7, <1>8

(* A set of naturals that has 0 and every successor of a member has all:   *)
(* induction, for a set instead of a predicate.                            *)
LEMMA NatSetInduction ==
    ASSUME NEW S \in SUBSET Nat, 0 \in S, \A n \in S : n + 1 \in S
    PROVE  S = Nat
<1> DEFINE R == {pair \in Nat \X Nat : pair[1] < pair[2]}
<1>1. IsWellFoundedOn(R, Nat)
  BY NatLessThanWellFounded DEF OpToRel
<1> HIDE DEF R
<1>2. ASSUME Nat \ S # {} PROVE FALSE
  <2>1. PICK n \in Nat \ S : \A m \in Nat \ S : <<m, n>> \notin R
    BY <1>1, <1>2, WFMin
  <2>2. n # 0
    BY <2>1
  <2>3. n - 1 \in Nat /\ n - 1 < n
    BY <2>1, <2>2
  <2>4. <<n - 1, n>> \in R
    BY <2>1, <2>3 DEF R
  <2>5. n - 1 \in S
    BY <2>1, <2>3, <2>4
  <2>6. (n - 1) + 1 \in S
    BY <2>5
  <2> QED
    BY <2>1, <2>6
<1> QED
  BY <1>2

(* ss is a sequence of n sequences of w elements each, and off[i] is how   *)
(* many elements the first i of them have.                                 *)
Pieces(ss, n, w, off) ==
    /\ IsSeq(ss, n) /\ n > 0 /\ w \in Nat
    /\ \A i \in 1..n : IsSeq(ss[i], w)
    /\ off \in [0..n -> Nat] /\ off[0] = 0
    /\ \A i \in 1..n : off[i] = off[i - 1] + w

(* f[i] is the concatenation of the first i.                               *)
Flattens(f, ss, n) ==
    f = [i \in 1..n |-> IF i = 1 THEN ss[i] ELSE f[i - 1] \o ss[i]]

(* There is such an f.                                                     *)
LEMMA FlattensExists ==
    ASSUME NEW n \in Nat, NEW ss
    PROVE  \E f : Flattens(f, ss, n)
<1> DEFINE S == {k \in Nat : \E f : Flattens(f, ss, k)}
<1>1. 0 \in S
  <2>1. Flattens([i \in 1..0 |-> i], ss, 0)
    BY DEF Flattens
  <2> QED
    BY <2>1
<1>2. ASSUME NEW k \in S PROVE k + 1 \in S
  <2>1. PICK f : Flattens(f, ss, k)
    OBVIOUS
  <2>2. k \in Nat
    OBVIOUS
  <2> DEFINE one == IF k = 0 THEN ss[1] ELSE f[k] \o ss[k + 1]
  <2>3. one = IF k = 0 THEN ss[1] ELSE f[k] \o ss[k + 1]
    OBVIOUS
  <2> HIDE DEF one
  <2> DEFINE more == [i \in 1..(k + 1) |-> IF i = k + 1 THEN one ELSE f[i]]
  <2>4. ASSUME NEW i \in 1..(k + 1)
        PROVE  more[i] = IF i = 1 THEN ss[i] ELSE more[i - 1] \o ss[i]
    <3>1. CASE i = k + 1
      <4>1. more[i] = one
        BY <3>1
      <4>2. CASE k = 0
        BY <2>2, <2>3, <3>1, <4>1, <4>2
      <4>3. CASE k # 0
        <5>1. i # 1 /\ i - 1 = k /\ k \in 1..(k + 1) /\ k # k + 1
          BY <2>2, <3>1, <4>3
        <5>2. more[k] = f[k]
          BY <5>1
        <5> QED
          BY <2>3, <3>1, <4>1, <4>3, <5>1, <5>2
      <4> QED
        BY <4>2, <4>3
    <3>2. CASE i # k + 1
      <4>1. i \in 1..k
        BY <2>2, <3>2
      <4>2. f[i] = IF i = 1 THEN ss[i] ELSE f[i - 1] \o ss[i]
        BY <2>1, <4>1 DEF Flattens
      <4>3. i # 1 => i - 1 \in 1..(k + 1) /\ i - 1 # k + 1
        BY <2>2, <4>1
      <4> QED
        BY <3>2, <4>2, <4>3
    <3> QED
      BY <3>1, <3>2
  <2>5. more = [i \in 1..(k + 1) |-> IF i = 1 THEN ss[i] ELSE more[i - 1] \o ss[i]]
    BY <2>4
  <2> HIDE DEF more
  <2>6. Flattens(more, ss, k + 1)
    BY <2>5 DEF Flattens
  <2> QED
    BY <2>2, <2>6
<1> HIDE DEF S
<1>3. S \subseteq Nat
  BY DEF S
<1>4. S = Nat
  BY <1>1, <1>2, <1>3, NatSetInduction
<1> QED
  BY <1>4 DEF S

(* Flattening pieces of equal length: every element by its place.          *)
LEMMA FlattenIs ==
    ASSUME NEW ss, NEW n, NEW w, NEW off, Pieces(ss, n, w, off)
    PROVE  /\ IsSeq(FlattenSeq(ss), off[n])
           /\ \A i \in 1..n, j \in 1..w : FlattenSeq(ss)[off[i - 1] + j] = ss[i][j]
<1>1. n \in Nat /\ n > 0 /\ Len(ss) = n /\ w \in Nat
  BY DEF Pieces, IsSeq
<1> DEFINE flat == CHOOSE f : Flattens(f, ss, n)
<1>2. FlattenSeq(ss) = flat[n]
  BY <1>1 DEF FlattenSeq, Flattens
<1>3. Flattens(flat, ss, n)
  BY <1>1, FlattensExists
<1> HIDE DEF flat
<1> DEFINE Good(k) ==
               /\ IsSeq(flat[k], off[k])
               /\ \A i \in 1..k, j \in 1..w : flat[k][off[i - 1] + j] = ss[i][j]
           S == {k \in Nat : k < n => Good(k + 1)}
<1> HIDE DEF Good
<1>4. 0 \in S
  <2>1. flat[1] = ss[1]
    BY <1>1, <1>3 DEF Flattens
  <2>2. off[1] = w /\ off[0] = 0
    <3>1. 1 \in 1..n /\ 1 - 1 = 0
      BY <1>1
    <3>2. off[1] = off[0] + w
      BY <3>1 DEF Pieces
    <3> QED
      BY <1>1, <3>2 DEF Pieces
  <2>3. IsSeq(ss[1], w)
    BY <1>1 DEF Pieces
  <2>4. \A j \in 1..w : flat[1][off[1 - 1] + j] = ss[1][j]
    BY <1>1, <2>1, <2>2
  <2>5. Good(1)
    BY <2>1, <2>2, <2>3, <2>4 DEF Good
  <2> QED
    BY <2>5
<1>5. ASSUME NEW k \in S PROVE k + 1 \in S
  <2>0. k \in Nat
    OBVIOUS
  <2>1. SUFFICES ASSUME k + 1 < n PROVE Good((k + 1) + 1)
    BY <2>0
  <2> DEFINE p == k + 1
             q == p + 1
  <2>2. p \in 1..n /\ q \in 1..n /\ q = p + 1 /\ q - 1 = p /\ q # 1 /\ p \in Nat
    BY <1>1, <2>0, <2>1
  <2>3. Good(p)
    BY <1>1, <2>0, <2>1
  <2> HIDE DEF p
  <2> HIDE DEF q
  <2>4. flat[q] = flat[p] \o ss[q]
    BY <1>3, <2>2 DEF Flattens
  <2>5. off[q] = off[p] + w /\ off[p] \in Nat
    <3>1. p \in 0..n
      BY <1>1, <2>2
    <3> QED
      BY <2>2, <3>1 DEF Pieces
  <2>6. IsSeq(ss[q], w)
    BY <2>2 DEF Pieces
  <2>7. IsSeq(flat[p], off[p])
    BY <2>3 DEF Good
  <2>8. Joins(flat[q], off[q], flat[p], off[p], ss[q], w)
    BY <2>4, <2>5, <2>6, <2>7 DEF Joins
  <2>9. /\ IsSeq(flat[q], off[q])
        /\ \A i \in 1..off[p] : flat[q][i] = flat[p][i]
        /\ \A i \in 1..w : flat[q][off[p] + i] = ss[q][i]
    BY <2>8, Concat
  <2>10. ASSUME NEW i \in 1..q, NEW j \in 1..w PROVE flat[q][off[i - 1] + j] = ss[i][j]
    <3>1. CASE i = q
      BY <2>2, <2>9, <3>1
    <3>2. CASE i # q
      <4>1. i \in 1..p
        BY <2>2, <3>2
      <4>2. flat[p][off[i - 1] + j] = ss[i][j]
        BY <2>3, <4>1 DEF Good
      <4>3. off[i - 1] + j \in 1..off[p]
        <5> DEFINE T == {m \in Nat : i + m =< n => off[i + m] \in Nat /\ off[i + m] >= off[i]}
        <5>0. i \in Nat /\ i >= 1
          BY <4>1
        <5>1. 0 \in T
          <6>1. i \in 0..n
            BY <1>1, <2>2, <4>1
          <6> QED
            BY <5>0, <6>1 DEF Pieces
        <5>2. ASSUME NEW m \in T PROVE m + 1 \in T
          <6>0. m \in Nat
            OBVIOUS
          <6>1. SUFFICES ASSUME i + (m + 1) =< n
                         PROVE  off[i + (m + 1)] \in Nat /\ off[i + (m + 1)] >= off[i]
            BY <6>0
          <6>2. i + (m + 1) \in 1..n /\ (i + (m + 1)) - 1 = i + m /\ i \in 0..n
            BY <1>1, <2>2, <4>1, <5>0, <6>0, <6>1
          <6>3. off[i + (m + 1)] = off[i + m] + w
            BY <6>2 DEF Pieces
          <6>4. off[i + m] \in Nat /\ off[i + m] >= off[i]
            BY <1>1, <5>0, <6>0, <6>1
          <6>5. off[i] \in Nat
            BY <6>2 DEF Pieces
          <6> QED
            BY <1>1, <6>3, <6>4, <6>5
        <5> HIDE DEF T
        <5>3. T \subseteq Nat
          BY DEF T
        <5>4. T = Nat
          BY <5>1, <5>2, <5>3, NatSetInduction
        <5>5. p - i \in T /\ i + (p - i) = p /\ p =< n
          BY <2>2, <4>1, <5>4
        <5>6. off[p] >= off[i]
          BY <5>5 DEF T
        <5>7. off[i] = off[i - 1] + w /\ off[i - 1] \in Nat
          <6>1. i \in 1..n /\ i - 1 \in 0..n
            BY <1>1, <2>2, <4>1
          <6> QED
            BY <6>1 DEF Pieces
        <5> QED
          BY <1>1, <2>5, <5>6, <5>7
      <4> QED
        BY <2>9, <4>2, <4>3
    <3> QED
      BY <3>1, <3>2
  <2>11. Good(q)
    BY <2>9, <2>10 DEF Good
  <2> QED
    BY <2>11 DEF p, q
<1> HIDE DEF S
<1>6. S \subseteq Nat
  BY DEF S
<1>7. S = Nat
  BY <1>4, <1>5, <1>6, NatSetInduction
<1>8. n - 1 \in S /\ n - 1 < n /\ (n - 1) + 1 = n
  BY <1>1, <1>7
<1>9. Good(n)
  BY <1>8 DEF S
<1> QED
  BY <1>2, <1>9 DEF Good

-----------------------------------------------------------------------------
(* The devices, and short sequences.                                       *)

(* The scenarios run on two devices.                                       *)
LEMMA DevicesAre ==
    /\ Apis = <<"a", "b">> /\ First = "a" /\ Second = "b"
    /\ Devices = {"a", "b"} /\ DOMAIN Apis = 1..2 /\ Len(Apis) = 2
    /\ Apis[1] = "a" /\ Apis[2] = "b"
<1>1. Apis = <<"a", "b">>
  BY TrafficScenario DEF TwoDevices
<1>2. DOMAIN Apis = 1..2 /\ Len(Apis) = 2
  BY <1>1
<1> QED
  BY <1>1, <1>2 DEF Devices, First, Second

(* Tuples are sequences.                                                   *)
LEMMA OneStep == ASSUME NEW x PROVE IsSeq(<<x>>, 1) /\ <<x>>[1] = x
<1>1. <<x>> = [i \in 1..1 |-> <<x>>[i]]
  OBVIOUS
<1> QED
  BY <1>1, FunctionIsSeq

LEMMA TwoSteps ==
    ASSUME NEW x, NEW y
    PROVE  IsSeq(<<x, y>>, 2) /\ <<x, y>>[1] = x /\ <<x, y>>[2] = y
<1>1. <<x, y>> = [i \in 1..2 |-> <<x, y>>[i]]
  OBVIOUS
<1>2. IsSeq(<<x, y>>, 2)
  BY <1>1, FunctionIsSeq
<1> QED
  BY <1>2

(* What OnAll makes for the two devices.                                   *)
IsPair(s, x, y) == IsSeq(s, 2) /\ s[1] = x /\ s[2] = y

LEMMA OnBoth ==
    ASSUME NEW s, NEW x, NEW y,
           s = [i \in DOMAIN Apis |-> IF i = 1 THEN x ELSE y]
    PROVE  IsPair(s, x, y)
<1>1. s = [i \in 1..2 |-> s[i]] /\ s[1] = x /\ s[2] = y
  BY DevicesAre
<1>2. IsSeq(s, 2)
  BY <1>1, FunctionIsSeq
<1> QED
  BY <1>1, <1>2 DEF IsPair

-----------------------------------------------------------------------------
(* The steps of connect().                                                 *)

AwaitEndpoint(s, t) == Step("wait", <<Shows("endpoint", <<s, t>>)>>)
ConnectTo(s, t) == Cmd(Command("connect", s, t))
BothReady(s, t) ==
    <<Events("quiet", s, {"connectFailed"}), Events("quiet", t, {"connectFailed"}),
      Ready(<<s, t>>), Ready(Mirror(<<s, t>>))>>
AwaitBoth(s, t, cancel, done) ==
    [Then(done, Step("wait", BothReady(s, t))) EXCEPT !.onFail = cancel]
CancelTo(s, t, cancel, done) == At(cancel, Catch(done, Cmd(Command("cancelConnect", s, t))))
Ended(done) == At(done, Step("reraise", <<>>))

Connects(c, s, t, cancel, done) == c = Connect(s, t, cancel, done)

LEMMA ConnectIs ==
    ASSUME NEW c, NEW s, NEW t, NEW cancel, NEW done, Connects(c, s, t, cancel, done)
    PROVE  /\ IsSeq(c, 5)
           /\ c[1] = AwaitEndpoint(s, t) /\ c[2] = ConnectTo(s, t)
           /\ c[3] = AwaitBoth(s, t, cancel, done) /\ c[4] = CancelTo(s, t, cancel, done)
           /\ c[5] = Ended(done)
<1> DEFINE before == <<AwaitEndpoint(s, t), ConnectTo(s, t)>>
           inside == <<Then(done, Step("wait", BothReady(s, t)))>>
           guarded == Except(cancel, inside)
           after == <<CancelTo(s, t, cancel, done), Ended(done)>>
           three == before \o guarded
<1>1. c = three \o after
  BY DEF Connects, Connect, AwaitEndpoint, ConnectTo, BothReady, CancelTo, Ended
<1>2. IsSeq(before, 2) /\ before[1] = AwaitEndpoint(s, t) /\ before[2] = ConnectTo(s, t)
  BY TwoSteps
<1>3. IsSeq(after, 2) /\ after[1] = CancelTo(s, t, cancel, done) /\ after[2] = Ended(done)
  BY TwoSteps
<1>4. IsSeq(guarded, 1) /\ guarded[1] = AwaitBoth(s, t, cancel, done)
  <2>1. DOMAIN inside = 1..1 /\ inside[1] = Then(done, Step("wait", BothReady(s, t)))
    OBVIOUS
  <2> HIDE DEF inside
  <2>2. guarded = [i \in 1..1 |-> guarded[i]]
    BY <2>1 DEF Except
  <2>3. guarded[1] = AwaitBoth(s, t, cancel, done)
    BY <2>1 DEF Except, AwaitBoth
  <2> HIDE DEF guarded
  <2> QED
    BY <2>2, <2>3, FunctionIsSeq
<1>5. three = before \o guarded
  OBVIOUS
<1> HIDE DEF before, guarded, after, three
<1>6. Joins(three, 3, before, 2, guarded, 1)
  BY <1>2, <1>4, <1>5 DEF Joins
<1>7. IsSeq(three, 3) /\ (\A i \in 1..2 : three[i] = before[i])
      /\ \A i \in 1..1 : three[2 + i] = guarded[i]
  BY <1>6, Concat
<1>8. Joins(c, 5, three, 3, after, 2)
  BY <1>1, <1>3, <1>7 DEF Joins
<1>9. IsSeq(c, 5) /\ (\A i \in 1..3 : c[i] = three[i]) /\ \A i \in 1..2 : c[3 + i] = after[i]
  BY <1>8, Concat
<1>10. c[1] = three[1] /\ c[2] = three[2] /\ c[3] = three[3]
  BY <1>9
<1>11. three[1] = before[1] /\ three[2] = before[2] /\ three[2 + 1] = guarded[1]
  BY <1>7
<1>12. c[3 + 1] = after[1] /\ c[3 + 2] = after[2]
  BY <1>9
<1>13. 2 + 1 = 3 /\ 3 + 1 = 4 /\ 3 + 2 = 5
  OBVIOUS
<1> QED
  BY <1>2, <1>3, <1>4, <1>9, <1>10, <1>11, <1>12, <1>13

(* connect() inside the handlers of ensure_bidirectional_ready.            *)
There == Handled("second", Connect(First, Second, "cancel1", "done1"))
Back == Connect(Second, First, "cancel2", "done2")

LEMMA ThereIs ==
    /\ IsSeq(There, 5)
    /\ There[1] = Catch("second", AwaitEndpoint(First, Second))
    /\ There[2] = Catch("second", ConnectTo(First, Second))
    /\ There[3] = AwaitBoth(First, Second, "cancel1", "done1")
    /\ There[4] = CancelTo(First, Second, "cancel1", "done1")
    /\ There[5] = Catch("second", Ended("done1"))
<1>1. PICK s, t, cancel, done, second :
        /\ s = First /\ t = Second /\ cancel = "cancel1" /\ done = "done1" /\ second = "second"
  OBVIOUS
<1> DEFINE c == Connect(s, t, cancel, done)
<1>2. Connects(c, s, t, cancel, done)
  BY DEF Connects
<1>3. There = Handled(second, c)
  BY <1>1 DEF There
<1> HIDE DEF c
<1>4. /\ IsSeq(c, 5)
      /\ c[1] = AwaitEndpoint(s, t) /\ c[2] = ConnectTo(s, t)
      /\ c[3] = AwaitBoth(s, t, cancel, done) /\ c[4] = CancelTo(s, t, cancel, done)
      /\ c[5] = Ended(done)
  BY <1>2, ConnectIs
<1>5. /\ c[1].onFail = "end" /\ c[2].onFail = "end" /\ c[3].onFail = cancel
      /\ c[4].onFail = done /\ c[5].onFail = "end"
  <2>1. AwaitEndpoint(s, t).onFail = "end"
    BY DEF AwaitEndpoint, Step
  <2>2. ConnectTo(s, t).onFail = "end"
    BY DEF ConnectTo, Cmd, Step
  <2>3. AwaitBoth(s, t, cancel, done).onFail = cancel
    BY DEF AwaitBoth, Step, Then
  <2>4. CancelTo(s, t, cancel, done).onFail = done
    BY DEF CancelTo, Cmd, Step, At, Catch
  <2>5. Ended(done).onFail = "end"
    BY DEF Ended, Step, At
  <2> QED
    BY <1>4, <2>1, <2>2, <2>3, <2>4, <2>5
<1>6. DOMAIN c = 1..5
  BY <1>4, SeqDomain
<1>7. There = [i \in 1..5 |-> IF c[i].onFail = "end" THEN Catch(second, c[i]) ELSE c[i]]
  BY <1>3, <1>6 DEF Handled
<1>8. There = [i \in 1..5 |-> There[i]]
  BY <1>7
<1>9. IsSeq(There, 5)
  BY <1>8, FunctionIsSeq
<1>10. cancel # "end" /\ done # "end"
  BY <1>1
<1>11. /\ There[1] = Catch(second, c[1]) /\ There[2] = Catch(second, c[2])
       /\ There[3] = c[3] /\ There[4] = c[4] /\ There[5] = Catch(second, c[5])
  BY <1>5, <1>7, <1>10
<1> QED
  BY <1>1, <1>4, <1>9, <1>11

LEMMA BackIs ==
    /\ IsSeq(Back, 5)
    /\ Back[1] = AwaitEndpoint(Second, First) /\ Back[2] = ConnectTo(Second, First)
    /\ Back[3] = AwaitBoth(Second, First, "cancel2", "done2")
    /\ Back[4] = CancelTo(Second, First, "cancel2", "done2") /\ Back[5] = Ended("done2")
<1>1. PICK s, t, cancel, done :
        s = Second /\ t = First /\ cancel = "cancel2" /\ done = "done2"
  OBVIOUS
<1>2. Connects(Back, s, t, cancel, done)
  BY <1>1 DEF Connects, Back
<1>3. /\ IsSeq(Back, 5)
      /\ Back[1] = AwaitEndpoint(s, t) /\ Back[2] = ConnectTo(s, t)
      /\ Back[3] = AwaitBoth(s, t, cancel, done) /\ Back[4] = CancelTo(s, t, cancel, done)
      /\ Back[5] = Ended(done)
  BY <1>2, ConnectIs
<1> QED
  BY <1>1, <1>3

-----------------------------------------------------------------------------
(* ensure_bidirectional_ready.                                             *)

AwaitPaired ==
    Then("paired", Catch("first", Step("wait", <<Ready(<<First, Second>>), Ready(<<Second, First>>)>>)))
Ensured == EnsureReady(First, Second)

(* Its steps by place.                                                     *)
LEMMA EnsureIs ==
    /\ IsSeq(Ensured, 12)
    /\ Ensured[1] = AwaitPaired /\ Ensured[2] = At("first", There[1])
    /\ Ensured[3] = There[2] /\ Ensured[4] = There[3] /\ Ensured[5] = There[4]
    /\ Ensured[6] = Then("paired", There[5]) /\ Ensured[7] = At("second", Back[1])
    /\ Ensured[8] = Back[2] /\ Ensured[9] = Back[3] /\ Ensured[10] = Back[4]
    /\ Ensured[11] = Back[5] /\ Ensured[12] = Ended("paired")
<1> DEFINE s1 == <<AwaitPaired, At("first", There[1])>>
           s2 == SubSeq(There, 2, 4)
           s3 == <<Then("paired", There[5])>>
           s4 == <<At("second", Back[1])>>
           s5 == Tail(Back)
           s6 == <<Ended("paired")>>
           t2 == s1 \o s2
           t3 == t2 \o s3
           t4 == t3 \o s4
           t5 == t4 \o s5
<1>1. Len(There) = 5
  BY ThereIs, SeqDomain
<1>2. Ensured = t5 \o s6
  <2>1. Ensured = s1 \o SubSeq(There, 2, Len(There) - 1) \o <<Then("paired", There[Len(There)])>>
                  \o s4 \o s5 \o s6
    BY DEF Ensured, EnsureReady, AwaitPaired, There, Back, Ended
  <2>2. Len(There) - 1 = 4
    BY <1>1
  <2> QED
    BY <1>1, <2>1, <2>2
<1>3. IsSeq(s1, 2) /\ s1[1] = AwaitPaired /\ s1[2] = At("first", There[1])
  BY TwoSteps
<1>4. IsSeq(s2, 3) /\ s2[1] = There[2] /\ s2[2] = There[3] /\ s2[3] = There[4]
  <2>1. PICK S : There \in Seq(S) /\ Len(There) = 5
    BY ThereIs DEF IsSeq
  <2>2. \A i \in 2..4 : There[i] \in S
    BY <2>1
  <2>3. /\ s2 \in Seq(S) /\ Len(s2) = 3
        /\ \A i \in 1..3 : s2[i] = There[2 + i - 1]
    BY <2>1, <2>2, SubSeqProperties
  <2>4. s2[1] = There[2] /\ s2[2] = There[3] /\ s2[3] = There[4]
    BY <2>3
  <2> HIDE DEF s2
  <2> QED
    BY <2>3, <2>4 DEF IsSeq
<1>5. IsSeq(s3, 1) /\ s3[1] = Then("paired", There[5])
  BY OneStep
<1>6. IsSeq(s4, 1) /\ s4[1] = At("second", Back[1])
  BY OneStep
<1>7. IsSeq(s5, 4) /\ s5[1] = Back[2] /\ s5[2] = Back[3] /\ s5[3] = Back[4] /\ s5[4] = Back[5]
  <2>1. PICK S : Back \in Seq(S) /\ Len(Back) = 5
    BY BackIs DEF IsSeq
  <2>2. Back # <<>>
    BY <2>1
  <2>3. s5 \in Seq(S) /\ Len(s5) = 4 /\ \A i \in 1..4 : s5[i] = Back[i + 1]
    <3>1. Tail(Back) \in Seq(S) /\ Len(Tail(Back)) = Len(Back) - 1
          /\ \A i \in 1..Len(Tail(Back)) : Tail(Back)[i] = Back[i + 1]
      BY <2>1, <2>2, HeadTailProperties
    <3>2. Len(Tail(Back)) = 4
      BY <2>1, <3>1
    <3> QED
      BY <3>1, <3>2
  <2> HIDE DEF s5
  <2> QED
    BY <2>3 DEF IsSeq
<1>8. IsSeq(s6, 1) /\ s6[1] = Ended("paired")
  BY OneStep
<1>9. t2 = s1 \o s2 /\ t3 = t2 \o s3 /\ t4 = t3 \o s4 /\ t5 = t4 \o s5
  OBVIOUS
<1> HIDE DEF s1, s2, s3, s4, s5, s6, t2, t3, t4, t5
<1>10. Joins(t2, 5, s1, 2, s2, 3)
  BY <1>3, <1>4, <1>9 DEF Joins
<1>11. IsSeq(t2, 5) /\ (\A i \in 1..2 : t2[i] = s1[i]) /\ \A i \in 1..3 : t2[2 + i] = s2[i]
  BY <1>10, Concat
<1>12. Joins(t3, 6, t2, 5, s3, 1)
  BY <1>5, <1>9, <1>11 DEF Joins
<1>13. IsSeq(t3, 6) /\ (\A i \in 1..5 : t3[i] = t2[i]) /\ \A i \in 1..1 : t3[5 + i] = s3[i]
  BY <1>12, Concat
<1>14. Joins(t4, 7, t3, 6, s4, 1)
  BY <1>6, <1>9, <1>13 DEF Joins
<1>15. IsSeq(t4, 7) /\ (\A i \in 1..6 : t4[i] = t3[i]) /\ \A i \in 1..1 : t4[6 + i] = s4[i]
  BY <1>14, Concat
<1>16. Joins(t5, 11, t4, 7, s5, 4)
  BY <1>7, <1>9, <1>15 DEF Joins
<1>17. IsSeq(t5, 11) /\ (\A i \in 1..7 : t5[i] = t4[i]) /\ \A i \in 1..4 : t5[7 + i] = s5[i]
  BY <1>16, Concat
<1>18. Joins(Ensured, 12, t5, 11, s6, 1)
  BY <1>2, <1>8, <1>17 DEF Joins
<1>19. /\ IsSeq(Ensured, 12) /\ (\A i \in 1..11 : Ensured[i] = t5[i])
       /\ \A i \in 1..1 : Ensured[11 + i] = s6[i]
  BY <1>18, Concat
<1>20. /\ Ensured[1] = s1[1] /\ Ensured[2] = s1[2] /\ Ensured[3] = s2[1] /\ Ensured[4] = s2[2]
       /\ Ensured[5] = s2[3]
  <2>1. 3 = 2 + 1 /\ 4 = 2 + 2 /\ 5 = 2 + 3
    OBVIOUS
  <2>2. \A i \in 1..5 : Ensured[i] = t2[i]
    BY <1>13, <1>15, <1>17, <1>19
  <2>3. t2[2 + 1] = s2[1] /\ t2[2 + 2] = s2[2] /\ t2[2 + 3] = s2[3]
    BY <1>11
  <2> QED
    BY <1>11, <2>1, <2>2, <2>3
<1>21. Ensured[6] = s3[1] /\ Ensured[7] = s4[1]
  <2>1. Ensured[6] = t3[6] /\ Ensured[7] = t4[7]
    BY <1>15, <1>17, <1>19
  <2>2. t3[5 + 1] = s3[1] /\ t4[6 + 1] = s4[1]
    BY <1>13, <1>15
  <2> QED
    BY <2>1, <2>2
<1>22. Ensured[8] = s5[1] /\ Ensured[9] = s5[2] /\ Ensured[10] = s5[3] /\ Ensured[11] = s5[4]
  <2>1. t5[7 + 1] = s5[1] /\ t5[7 + 2] = s5[2] /\ t5[7 + 3] = s5[3] /\ t5[7 + 4] = s5[4]
    BY <1>17
  <2>2. 7 + 1 = 8 /\ 7 + 2 = 9 /\ 7 + 3 = 10 /\ 7 + 4 = 11
    OBVIOUS
  <2> QED
    BY <1>19, <2>1, <2>2
<1>23. Ensured[11 + 1] = s6[1] /\ 11 + 1 = 12
  BY <1>19
<1> QED
  BY <1>3, <1>4, <1>5, <1>6, <1>7, <1>8, <1>19, <1>20, <1>21, <1>22, <1>23

(* What a step among the handlers of connect() does, whether or not        *)
(* ensure_bidirectional_ready is around it: it polls, commands a           *)
(* connection, or re-raises, and leads to a label of handlers.             *)
Harmless == {"connect", "cancelConnect"}
EnsureLabels == {"first", "second", "cancel1", "done1", "cancel2", "done2", "paired"}
Filled(w) == \E n \in Nat \ {0} : IsSeq(w, n)
HandlerStep(s, L) ==
    /\ s.op \in {"wait", "cmd", "reraise"}
    /\ s.op = "wait" => Filled(s.what)
    /\ s.op = "cmd" => \E c : s.what = <<c>> /\ c.name \in Harmless
    /\ s.then \in L \cup {"next"} /\ s.onFail \in L \cup {"end"}
    /\ s.onCrash = "end" /\ s.toChosen = FALSE
    /\ s.at \in L \cup {""}

LEMMA PollsFilled ==
    /\ \A s, t : Filled(<<Shows("endpoint", <<s, t>>)>>) /\ Filled(BothReady(s, t))
    /\ Filled(<<Ready(<<First, Second>>), Ready(<<Second, First>>)>>)
<1>1. ASSUME NEW x PROVE Filled(<<x>>)
  <2>1. IsSeq(<<x>>, 1) /\ 1 \in Nat \ {0}
    BY OneStep
  <2> QED
    BY <2>1 DEF Filled
<1>2. ASSUME NEW x, NEW y PROVE Filled(<<x, y>>)
  <2>1. IsSeq(<<x, y>>, 2) /\ 2 \in Nat \ {0}
    BY TwoSteps
  <2> QED
    BY <2>1 DEF Filled
<1>3. ASSUME NEW s, NEW t PROVE Filled(BothReady(s, t))
  <2> DEFINE w == BothReady(s, t)
  <2>1. w = [i \in 1..4 |-> w[i]]
    BY DEF BothReady
  <2> HIDE DEF w
  <2>2. PICK n \in Nat \ {0} : n = 4
    OBVIOUS
  <2>3. IsSeq(w, n)
    BY <2>1, <2>2, FunctionIsSeq
  <2>4. Filled(w)
    BY <2>3 DEF Filled
  <2> QED
    BY <2>4 DEF w
<1>4. ASSUME NEW s, NEW t PROVE Filled(<<Shows("endpoint", <<s, t>>)>>)
  BY <1>1
<1>5. Filled(<<Ready(<<First, Second>>), Ready(<<Second, First>>)>>)
  BY <1>2
<1> QED
  BY <1>3, <1>4, <1>5

(* The steps before the end of ensure_bidirectional_ready are of that      *)
(* kind.                                                                   *)
LEMMA EnsureHandles ==
    /\ \A i \in 1..11 : HandlerStep(Ensured[i], EnsureLabels)
    /\ Ensured[1].at = "" /\ Ensured[2].at = "first" /\ Ensured[3].at = ""
    /\ Ensured[4].at = "" /\ Ensured[5].at = "cancel1" /\ Ensured[6].at = "done1"
    /\ Ensured[7].at = "second" /\ Ensured[8].at = "" /\ Ensured[9].at = ""
    /\ Ensured[10].at = "cancel2" /\ Ensured[11].at = "done2"
<1> USE DEF HandlerStep, EnsureLabels, At, Then, Catch, Cmd, Step
<1>1. HandlerStep(AwaitPaired, EnsureLabels) /\ AwaitPaired.at = ""
  BY PollsFilled DEF AwaitPaired
<1>2. LET t == At("first", Catch("second", AwaitEndpoint(First, Second)))
      IN  HandlerStep(t, EnsureLabels) /\ t.at = "first"
  BY PollsFilled DEF AwaitEndpoint
<1>3. LET t == Catch("second", ConnectTo(First, Second))
      IN  HandlerStep(t, EnsureLabels) /\ t.at = ""
  BY DEF ConnectTo, Command, Harmless
<1>4. LET t == AwaitBoth(First, Second, "cancel1", "done1")
      IN  HandlerStep(t, EnsureLabels) /\ t.at = ""
  BY PollsFilled DEF AwaitBoth
<1>5. LET t == CancelTo(First, Second, "cancel1", "done1")
      IN  HandlerStep(t, EnsureLabels) /\ t.at = "cancel1"
  BY DEF CancelTo, Command, Harmless
<1>6. LET t == Then("paired", Catch("second", Ended("done1")))
      IN  HandlerStep(t, EnsureLabels) /\ t.at = "done1"
  BY DEF Ended
<1>7. LET t == At("second", AwaitEndpoint(Second, First))
      IN  HandlerStep(t, EnsureLabels) /\ t.at = "second"
  BY PollsFilled DEF AwaitEndpoint
<1>8. LET t == ConnectTo(Second, First)
      IN  HandlerStep(t, EnsureLabels) /\ t.at = ""
  BY DEF ConnectTo, Command, Harmless
<1>9. LET t == AwaitBoth(Second, First, "cancel2", "done2")
      IN  HandlerStep(t, EnsureLabels) /\ t.at = ""
  BY PollsFilled DEF AwaitBoth
<1>10. LET t == CancelTo(Second, First, "cancel2", "done2")
       IN  HandlerStep(t, EnsureLabels) /\ t.at = "cancel2"
  BY DEF CancelTo, Command, Harmless
<1>11. LET t == Ended("done2")
       IN  HandlerStep(t, EnsureLabels) /\ t.at = "done2"
  BY DEF Ended
<1> HIDE DEF HandlerStep, EnsureLabels, At, Then, Catch, Cmd, Step
<1>12. ASSUME NEW i \in 1..11 PROVE HandlerStep(Ensured[i], EnsureLabels)
  <2>1. i \in {1, 2, 3, 4, 5, 6} \/ i \in {7, 8, 9, 10, 11}
    OBVIOUS
  <2> QED
    BY <1>1, <1>2, <1>3, <1>4, <1>5, <1>6, <1>7, <1>8, <1>9, <1>10, <1>11, <2>1,
       EnsureIs, ThereIs, BackIs
<1> QED
  BY <1>1, <1>2, <1>3, <1>4, <1>5, <1>6, <1>7, <1>8, <1>9, <1>10, <1>11, <1>12,
     EnsureIs, ThereIs, BackIs

-----------------------------------------------------------------------------
(* The conditions of the polls.                                            *)

(* The one link of each device.                                            *)
LEMMA LinksAre ==
    /\ Pairs = {<<"a", "b">>, <<"b", "a">>}
    /\ LinksOf("a") = <<Ready(<<"a", "b">>)>> /\ LinksOf("b") = <<Ready(<<"b", "a">>)>>
<1>1. Pairs = {<<"a", "b">>, <<"b", "a">>}
  <2>1. ASSUME NEW p \in Pairs PROVE p \in {<<"a", "b">>, <<"b", "a">>}
    BY DevicesAre DEF Pairs
  <2>2. <<"a", "b">> \in Pairs /\ <<"b", "a">> \in Pairs
    <3>1. <<"a", "b">> \in Devices \X Devices /\ <<"b", "a">> \in Devices \X Devices
      BY DevicesAre
    <3>2. <<"a", "b">>[1] # <<"a", "b">>[2] /\ <<"b", "a">>[1] # <<"b", "a">>[2]
      OBVIOUS
    <3> QED
      BY <3>1, <3>2 DEF Pairs
  <2> QED
    BY <2>1, <2>2
<1>2. From("a") = {<<"a", "b">>} /\ From("b") = {<<"b", "a">>}
  <2>1. <<"a", "b">>[1] = "a" /\ <<"b", "a">>[1] = "b" /\ "a" # "b"
    OBVIOUS
  <2> QED
    BY <1>1, <2>1 DEF From
<1>3. ASSUME NEW x PROVE SetToSeq({x}) = <<x>>
  <2>1. Cardinality({x}) = 1
    BY FS_Singleton
  <2>2. <<x>> \in [1..1 -> {x}] /\ IsInjective(<<x>>)
    BY DEF IsInjective
  <2>3. \A f \in [1..1 -> {x}] : f = <<x>>
    OBVIOUS
  <2> QED
    BY <2>1, <2>2, <2>3 DEF SetToSeq
<1>4. /\ {Ready(p) : p \in From("a")} = {Ready(<<"a", "b">>)}
      /\ {Ready(p) : p \in From("b")} = {Ready(<<"b", "a">>)}
  BY <1>2
<1> QED
  BY <1>1, <1>3, <1>4 DEF LinksOf

(* Flattening two sequences of one or of two elements.                     *)
LEMMA FlattenTwo ==
    ASSUME NEW ss, NEW w \in {1, 2}, IsSeq(ss, 2), IsSeq(ss[1], w), IsSeq(ss[2], w)
    PROVE  /\ IsSeq(FlattenSeq(ss), 2 * w)
           /\ \A j \in 1..w : FlattenSeq(ss)[j] = ss[1][j]
           /\ \A j \in 1..w : FlattenSeq(ss)[w + j] = ss[2][j]
<1> DEFINE off == [i \in 0..2 |-> IF i = 0 THEN 0 ELSE IF i = 1 THEN w ELSE 2 * w]
<1>1. Pieces(ss, 2, w, off)
  <2>1. \A i \in 1..2 : IsSeq(ss[i], w)
    <3>1. \A i \in 1..2 : i = 1 \/ i = 2
      OBVIOUS
    <3> QED
      BY <3>1
  <2>2. off \in [0..2 -> Nat] /\ off[0] = 0
    OBVIOUS
  <2>3. \A i \in 1..2 : off[i] = off[i - 1] + w
    OBVIOUS
  <2> QED
    BY <2>1, <2>2, <2>3 DEF Pieces
<1>2. off[2] = 2 * w /\ off[1] = w /\ off[0] = 0
  OBVIOUS
<1> HIDE DEF off
<1>3. /\ IsSeq(FlattenSeq(ss), off[2])
      /\ \A i \in 1..2, j \in 1..w : FlattenSeq(ss)[off[i - 1] + j] = ss[i][j]
  BY <1>1, FlattenIs
<1>4. \A j \in 1..w : FlattenSeq(ss)[off[1 - 1] + j] = ss[1][j]
  BY <1>3
<1>5. \A j \in 1..w : FlattenSeq(ss)[off[2 - 1] + j] = ss[2][j]
  BY <1>3
<1>6. \A j \in 1..w : 0 + j = j
  OBVIOUS
<1> QED
  BY <1>2, <1>3, <1>4, <1>5, <1>6

Quiet(d) == Events("quiet", d, Unstable)

(* SelectedReady looks at the events of a device and at its link.          *)
LEMMA SelectedReadyIs ==
    /\ IsSeq(SelectedReady, 4)
    /\ SelectedReady[1] = Quiet("a") /\ SelectedReady[2] = Ready(<<"a", "b">>)
    /\ SelectedReady[3] = Quiet("b") /\ SelectedReady[4] = Ready(<<"b", "a">>)
<1> DEFINE of(d) == <<Quiet(d)>> \o LinksOf(d)
           ss == OnAll(of)
<1>1. SelectedReady = FlattenSeq(ss)
  BY DEF SelectedReady, Quiet, OnAll
<1>2. ASSUME NEW d, NEW p, LinksOf(d) = <<Ready(p)>>
      PROVE  IsSeq(of(d), 2) /\ of(d)[1] = Quiet(d) /\ of(d)[2] = Ready(p)
  <2> DEFINE x == <<Quiet(d)>>
             y == <<Ready(p)>>
             r == of(d)
  <2>1. IsSeq(x, 1) /\ x[1] = Quiet(d) /\ IsSeq(y, 1) /\ y[1] = Ready(p)
    BY OneStep
  <2>2. r = x \o y
    BY <1>2
  <2> HIDE DEF x, y, r
  <2>3. Joins(r, 2, x, 1, y, 1)
    BY <2>1, <2>2 DEF Joins
  <2>4. IsSeq(r, 2) /\ (\A i \in 1..1 : r[i] = x[i]) /\ \A i \in 1..1 : r[1 + i] = y[i]
    BY <2>3, Concat
  <2>5. r[1] = x[1] /\ r[1 + 1] = y[1] /\ 1 + 1 = 2
    BY <2>4
  <2>6. IsSeq(r, 2) /\ r[1] = Quiet(d) /\ r[2] = Ready(p)
    BY <2>1, <2>4, <2>5
  <2> QED
    BY <2>6 DEF r
<1>3. /\ IsSeq(of("a"), 2) /\ of("a")[1] = Quiet("a") /\ of("a")[2] = Ready(<<"a", "b">>)
      /\ IsSeq(of("b"), 2) /\ of("b")[1] = Quiet("b") /\ of("b")[2] = Ready(<<"b", "a">>)
  BY <1>2, LinksAre
<1>4. ss = [i \in 1..2 |-> of(Apis[i])]
  BY DevicesAre DEF OnAll
<1> HIDE DEF of
<1>5. ss = [i \in 1..2 |-> ss[i]] /\ ss[1] = of("a") /\ ss[2] = of("b")
  BY <1>4, DevicesAre
<1> HIDE DEF ss
<1>6. IsSeq(ss, 2)
  BY <1>5, FunctionIsSeq
<1>7. PICK w \in {1, 2} : w = 2
  OBVIOUS
<1>8. IsSeq(ss[1], w) /\ IsSeq(ss[2], w)
  BY <1>3, <1>5, <1>7
<1>9. /\ IsSeq(FlattenSeq(ss), 2 * w)
      /\ \A j \in 1..w : FlattenSeq(ss)[j] = ss[1][j]
      /\ \A j \in 1..w : FlattenSeq(ss)[w + j] = ss[2][j]
  BY <1>6, <1>8, FlattenTwo
<1>10. /\ FlattenSeq(ss)[1] = ss[1][1] /\ FlattenSeq(ss)[2] = ss[1][2]
       /\ FlattenSeq(ss)[2 + 1] = ss[2][1] /\ FlattenSeq(ss)[2 + 2] = ss[2][2]
  BY <1>7, <1>9
<1>11. IsSeq(FlattenSeq(ss), 4)
  <2>1. 2 * w = 4
    BY <1>7
  <2> QED
    BY <1>9, <2>1
<1>12. 2 + 1 = 3 /\ 2 + 2 = 4
  OBVIOUS
<1> QED
  BY <1>1, <1>3, <1>5, <1>10, <1>11, <1>12

Links == FlattenSeq(OnAll(LinksOf))

LEMMA LinksIs ==
    /\ IsSeq(Links, 2) /\ Links[1] = Ready(<<"a", "b">>) /\ Links[2] = Ready(<<"b", "a">>)
<1> DEFINE ss == OnAll(LinksOf)
<1>1. ss = [i \in 1..2 |-> ss[i]] /\ ss[1] = LinksOf("a") /\ ss[2] = LinksOf("b")
  BY DevicesAre DEF OnAll
<1>2. Links = FlattenSeq(ss)
  BY DEF Links
<1> HIDE DEF ss
<1>3. IsSeq(ss, 2)
  BY <1>1, FunctionIsSeq
<1>4. PICK w \in {1, 2} : w = 1
  OBVIOUS
<1>5. IsSeq(ss[1], 1) /\ IsSeq(ss[2], 1)
      /\ ss[1][1] = Ready(<<"a", "b">>) /\ ss[2][1] = Ready(<<"b", "a">>)
  BY <1>1, LinksAre, OneStep
<1>6. /\ IsSeq(FlattenSeq(ss), 2 * w)
      /\ \A j \in 1..w : FlattenSeq(ss)[j] = ss[1][j]
      /\ \A j \in 1..w : FlattenSeq(ss)[w + j] = ss[2][j]
  BY <1>3, <1>4, <1>5, FlattenTwo
<1>7. FlattenSeq(ss)[1] = ss[1][1] /\ FlattenSeq(ss)[1 + 1] = ss[2][1] /\ 2 * w = 2 /\ 1 + 1 = 2
  BY <1>4, <1>6
<1> QED
  BY <1>2, <1>5, <1>6, <1>7

-----------------------------------------------------------------------------
(* The scripts by place.                                                   *)

(* reset_all.                                                              *)
LEMMA ResetIs ==
    /\ IsSeq(ResetAll, 4)
    /\ ResetAll[1] = ResetRuntime("a") /\ ResetAll[2] = ResetRuntime("b")
    /\ ResetAll[3] = Step("check", OnAll(Health)) /\ ResetAll[4] = Step("wait", OnAll(Presence))
<1> DEFINE x == OnAll(ResetRuntime)
<1>1. x = [i \in DOMAIN Apis |-> IF i = 1 THEN ResetRuntime("a") ELSE ResetRuntime("b")]
  BY DevicesAre DEF OnAll
<1>2. ResetAll = x \o Preflight
  BY DEF ResetAll
<1> HIDE DEF x
<1>3. IsSeq(x, 2) /\ x[1] = ResetRuntime("a") /\ x[2] = ResetRuntime("b")
  BY <1>1, OnBoth DEF IsPair
<1>4. /\ IsSeq(Preflight, 2) /\ Preflight[1] = Step("check", OnAll(Health))
      /\ Preflight[2] = Step("wait", OnAll(Presence))
  BY TwoSteps DEF Preflight
<1>5. Joins(ResetAll, 4, x, 2, Preflight, 2)
  BY <1>2, <1>3, <1>4 DEF Joins
<1>6. /\ IsSeq(ResetAll, 4) /\ (\A i \in 1..2 : ResetAll[i] = x[i])
      /\ \A i \in 1..2 : ResetAll[2 + i] = Preflight[i]
  BY <1>5, Concat
<1>7. /\ ResetAll[1] = x[1] /\ ResetAll[2] = x[2]
      /\ ResetAll[2 + 1] = Preflight[1] /\ ResetAll[2 + 2] = Preflight[2]
  BY <1>6
<1>8. 2 + 1 = 3 /\ 2 + 2 = 4
  OBVIOUS
<1> QED
  BY <1>3, <1>4, <1>6, <1>7, <1>8

Watching1 == At("watch", StabilityWindow)

LEMMA SettledIs ==
    /\ IsSeq(WaitForSelected, 2)
    /\ WaitForSelected[1] = Step("wait", Links) /\ WaitForSelected[2] = DrainEvents
    /\ IsSeq(Settled, 4)
    /\ Settled[1] = DrainEvents /\ Settled[2] = Step("wait", Links)
    /\ Settled[3] = DrainEvents /\ Settled[4] = Watching1
<1> DEFINE x == <<DrainEvents>>
           y == x \o WaitForSelected
           z == <<Watching1>>
<1>1. /\ IsSeq(WaitForSelected, 2)
      /\ WaitForSelected[1] = Step("wait", Links) /\ WaitForSelected[2] = DrainEvents
  BY TwoSteps DEF WaitForSelected, Links
<1>2. IsSeq(x, 1) /\ x[1] = DrainEvents /\ IsSeq(z, 1) /\ z[1] = Watching1
  BY OneStep
<1>3. Settled = y \o z /\ y = x \o WaitForSelected
  BY DEF Settled, Watching1
<1> HIDE DEF x, y, z
<1>4. Joins(y, 3, x, 1, WaitForSelected, 2)
  BY <1>1, <1>2, <1>3 DEF Joins
<1>5. IsSeq(y, 3) /\ (\A i \in 1..1 : y[i] = x[i]) /\ \A i \in 1..2 : y[1 + i] = WaitForSelected[i]
  BY <1>4, Concat
<1>6. Joins(Settled, 4, y, 3, z, 1)
  BY <1>2, <1>3, <1>5 DEF Joins
<1>7. IsSeq(Settled, 4) /\ (\A i \in 1..3 : Settled[i] = y[i]) /\ \A i \in 1..1 : Settled[3 + i] = z[i]
  BY <1>6, Concat
<1>8. /\ Settled[1] = y[1] /\ Settled[2] = y[2] /\ Settled[3] = y[3] /\ Settled[3 + 1] = z[1]
      /\ y[1] = x[1] /\ y[1 + 1] = WaitForSelected[1] /\ y[1 + 2] = WaitForSelected[2]
  BY <1>5, <1>7
<1>9. 1 + 1 = 2 /\ 1 + 2 = 3 /\ 3 + 1 = 4
  OBVIOUS
<1> QED
  BY <1>1, <1>2, <1>7, <1>8, <1>9

(* What IT-041 and IT-043 have in common.                                  *)
Preamble == ResetAll \o EnsureReady(First, Second) \o PeerIds \o Settled

LEMMA PreambleIs ==
    /\ IsSeq(Preamble, 22)
    /\ \A i \in 1..4 : Preamble[i] = ResetAll[i]
    /\ \A i \in 1..12 : Preamble[4 + i] = Ensured[i]
    /\ Preamble[17] = PeerId(First, Second) /\ Preamble[18] = PeerId(Second, First)
    /\ Preamble[19] = DrainEvents /\ Preamble[20] = Step("wait", Links)
    /\ Preamble[21] = DrainEvents /\ Preamble[22] = Watching1
<1> DEFINE x == ResetAll \o Ensured
           y == x \o PeerIds
<1>1. Preamble = y \o Settled /\ y = x \o PeerIds /\ x = ResetAll \o Ensured
  BY DEF Preamble, Ensured
<1>2. /\ IsSeq(PeerIds, 2) /\ PeerIds[1] = PeerId(First, Second)
      /\ PeerIds[2] = PeerId(Second, First)
  BY TwoSteps DEF PeerIds
<1> HIDE DEF x, y
<1>3. Joins(x, 16, ResetAll, 4, Ensured, 12)
  BY <1>1, ResetIs, EnsureIs DEF Joins
<1>4. /\ IsSeq(x, 16) /\ (\A i \in 1..4 : x[i] = ResetAll[i])
      /\ \A i \in 1..12 : x[4 + i] = Ensured[i]
  BY <1>3, Concat
<1>5. Joins(y, 18, x, 16, PeerIds, 2)
  BY <1>1, <1>2, <1>4 DEF Joins
<1>6. IsSeq(y, 18) /\ (\A i \in 1..16 : y[i] = x[i]) /\ \A i \in 1..2 : y[16 + i] = PeerIds[i]
  BY <1>5, Concat
<1>7. Joins(Preamble, 22, y, 18, Settled, 4)
  BY <1>1, <1>6, SettledIs DEF Joins
<1>8. /\ IsSeq(Preamble, 22) /\ (\A i \in 1..18 : Preamble[i] = y[i])
      /\ \A i \in 1..4 : Preamble[18 + i] = Settled[i]
  BY <1>7, Concat
<1>9. \A i \in 1..4 : Preamble[i] = ResetAll[i]
  BY <1>4, <1>6, <1>8
<1>10. ASSUME NEW i \in 1..12 PROVE Preamble[4 + i] = Ensured[i]
  <2>1. 4 + i \in 1..16 /\ 4 + i \in 1..18
    OBVIOUS
  <2> QED
    BY <1>4, <1>6, <1>8, <2>1
<1>11. /\ Preamble[17] = y[17] /\ Preamble[18] = y[18]
       /\ y[16 + 1] = PeerIds[1] /\ y[16 + 2] = PeerIds[2]
       /\ Preamble[18 + 1] = Settled[1] /\ Preamble[18 + 2] = Settled[2]
       /\ Preamble[18 + 3] = Settled[3] /\ Preamble[18 + 4] = Settled[4]
  BY <1>6, <1>8
<1>12. /\ 16 + 1 = 17 /\ 16 + 2 = 18 /\ 18 + 1 = 19 /\ 18 + 2 = 20 /\ 18 + 3 = 21 /\ 18 + 4 = 22
  OBVIOUS
<1> QED
  BY <1>2, <1>8, <1>9, <1>10, <1>11, <1>12, SettledIs

(* IT-041.                                                                 *)
LEMMA FixedRateIs ==
    /\ IsSeq(FixedRate, 27)
    /\ \A i \in 1..22 : FixedRate[i] = Preamble[i]
    /\ FixedRate[23] = Start(Ramp[1]) /\ FixedRate[24] = StabilityWindow
    /\ FixedRate[25] = Stop /\ FixedRate[26] = Assess("lossless", Ramp[1])
    /\ FixedRate[27] = StabilityWindow
<1> DEFINE x == <<Start(Ramp[1]), StabilityWindow, Stop, Assess("lossless", Ramp[1]), StabilityWindow>>
<1>1. FixedRate = Preamble \o x
  BY DEF FixedRate, Preamble
<1>2. /\ x = [i \in 1..5 |-> x[i]]
      /\ x[1] = Start(Ramp[1]) /\ x[2] = StabilityWindow /\ x[3] = Stop
      /\ x[4] = Assess("lossless", Ramp[1]) /\ x[5] = StabilityWindow
  OBVIOUS
<1> HIDE DEF x
<1>3. IsSeq(x, 5)
  BY <1>2, FunctionIsSeq
<1>4. Joins(FixedRate, 27, Preamble, 22, x, 5)
  BY <1>1, <1>3, PreambleIs DEF Joins
<1>5. /\ IsSeq(FixedRate, 27) /\ (\A i \in 1..22 : FixedRate[i] = Preamble[i])
      /\ \A i \in 1..5 : FixedRate[22 + i] = x[i]
  BY <1>4, Concat
<1>6. /\ FixedRate[22 + 1] = x[1] /\ FixedRate[22 + 2] = x[2] /\ FixedRate[22 + 3] = x[3]
      /\ FixedRate[22 + 4] = x[4] /\ FixedRate[22 + 5] = x[5]
  BY <1>5
<1>7. 22 + 1 = 23 /\ 22 + 2 = 24 /\ 22 + 3 = 25 /\ 22 + 4 = 26 /\ 22 + 5 = 27
  OBVIOUS
<1> QED
  BY <1>2, <1>5, <1>6, <1>7

-----------------------------------------------------------------------------
(* The ramps.                                                              *)

Phases == Len(Ramp)

LEMMA RampIs ==
    /\ Phases \in Nat /\ Phases > 0 /\ DOMAIN Ramp = 1..Phases
    /\ \A k \in 1..Phases : Ramp[k] \in Nat
<1>1. Ramp \in Seq(Nat) /\ Ramp # <<>>
  BY TrafficBounds
<1>2. Len(Ramp) \in Nat /\ DOMAIN Ramp = 1..Len(Ramp) /\ \A k \in 1..Len(Ramp) : Ramp[k] \in Nat
  BY <1>1
<1>3. Len(Ramp) > 0
  BY <1>1, <1>2
<1> QED
  BY <1>2, <1>3 DEF Phases

(* Flattened phases of w steps: step j of phase k is at w * (k - 1) + j.   *)
LEMMA PhasesFlatten ==
    ASSUME NEW ss, NEW w \in {5, 6}, IsSeq(ss, Phases),
           \A k \in 1..Phases : IsSeq(ss[k], w)
    PROVE  /\ IsSeq(FlattenSeq(ss), w * Phases)
           /\ \A k \in 1..Phases, j \in 1..w : FlattenSeq(ss)[w * (k - 1) + j] = ss[k][j]
<1> DEFINE off == [i \in 0..Phases |-> w * i]
           n == Phases
<1>0. n \in Nat /\ n > 0
  BY RampIs
<1> HIDE DEF n
<1>1. Pieces(ss, n, w, off)
  <2>1. off \in [0..n -> Nat] /\ off[0] = 0
    BY <1>0 DEF n
  <2>2. \A i \in 1..n : off[i] = off[i - 1] + w
    <3>1. ASSUME NEW i \in 1..n PROVE w * i = w * (i - 1) + w
      BY <1>0
    <3>2. \A i \in 1..n : i \in 0..n /\ i - 1 \in 0..n
      BY <1>0
    <3> QED
      BY <3>1, <3>2 DEF n
  <2> QED
    BY <1>0, <2>1, <2>2 DEF Pieces, n
<1>2. off[n] = w * n /\ \A k \in 1..n : off[k - 1] = w * (k - 1)
  <2>1. n \in 0..n /\ \A k \in 1..n : k - 1 \in 0..n
    BY <1>0
  <2> QED
    BY <2>1 DEF n
<1> HIDE DEF off
<1>3. /\ IsSeq(FlattenSeq(ss), off[n])
      /\ \A i \in 1..n, j \in 1..w : FlattenSeq(ss)[off[i - 1] + j] = ss[i][j]
  BY <1>1, FlattenIs
<1> QED
  BY <1>2, <1>3 DEF n

TrafficPhase(size) ==
    <<Start(size), StabilityWindow, Stop, Assess("accounted", size), AssertReady>>

(* IT-043.                                                                 *)
LEMMA SizeRampIs ==
    /\ IsSeq(SizeRamp, 5 * Phases + 24)
    /\ \A i \in 1..22 : SizeRamp[i] = Preamble[i]
    /\ \A k \in 1..Phases :
          /\ SizeRamp[5 * k + 18] = Start(Ramp[k]) /\ SizeRamp[5 * k + 19] = StabilityWindow
          /\ SizeRamp[5 * k + 20] = Stop /\ SizeRamp[5 * k + 21] = Assess("accounted", Ramp[k])
          /\ SizeRamp[5 * k + 22] = AssertReady
    /\ SizeRamp[5 * Phases + 23] = Assess("bandwidth", 0)
    /\ SizeRamp[5 * Phases + 24] = StabilityWindow
<1> DEFINE ss == [i \in DOMAIN Ramp |-> TrafficPhase(Ramp[i])]
           flat == FlattenSeq(ss)
           x == Preamble \o flat
           y == <<Assess("bandwidth", 0), StabilityWindow>>
           n == 5 * Phases
<1>0. n \in Nat /\ n = 5 * Phases
  BY RampIs
<1> HIDE DEF n
<1>1. SizeRamp = x \o y /\ x = Preamble \o flat
  BY DEF SizeRamp, Preamble, TrafficPhase
<1>2. IsSeq(y, 2) /\ y[1] = Assess("bandwidth", 0) /\ y[2] = StabilityWindow
  BY TwoSteps
<1>3. ss = [i \in 1..Phases |-> ss[i]] /\ \A k \in 1..Phases : ss[k] = TrafficPhase(Ramp[k])
  BY RampIs
<1> HIDE DEF ss
<1>4. IsSeq(ss, Phases)
  BY <1>3, RampIs, FunctionIsSeq
<1>5. ASSUME NEW size
      PROVE  /\ IsSeq(TrafficPhase(size), 5)
             /\ TrafficPhase(size)[1] = Start(size) /\ TrafficPhase(size)[2] = StabilityWindow
             /\ TrafficPhase(size)[3] = Stop /\ TrafficPhase(size)[4] = Assess("accounted", size)
             /\ TrafficPhase(size)[5] = AssertReady
  <2> DEFINE t == TrafficPhase(size)
  <2>1. /\ t = [i \in 1..5 |-> t[i]]
        /\ t[1] = Start(size) /\ t[2] = StabilityWindow /\ t[3] = Stop
        /\ t[4] = Assess("accounted", size) /\ t[5] = AssertReady
    BY DEF TrafficPhase
  <2> HIDE DEF t
  <2>2. IsSeq(t, 5)
    BY <2>1, FunctionIsSeq
  <2> QED
    BY <2>1, <2>2 DEF t
<1>6. PICK w \in {5, 6} : w = 5
  OBVIOUS
<1>7. \A k \in 1..Phases : IsSeq(ss[k], w)
  BY <1>3, <1>5, <1>6
<1>8. /\ IsSeq(flat, w * Phases)
      /\ \A k \in 1..Phases, j \in 1..w : flat[w * (k - 1) + j] = ss[k][j]
  BY <1>4, <1>7, PhasesFlatten
<1>9. IsSeq(flat, n)
  BY <1>0, <1>6, <1>8
<1> HIDE DEF flat, x, y
<1>10. Joins(x, 22 + n, Preamble, 22, flat, n)
  BY <1>1, <1>9, PreambleIs DEF Joins
<1>11. /\ IsSeq(x, 22 + n) /\ (\A i \in 1..22 : x[i] = Preamble[i])
       /\ \A i \in 1..n : x[22 + i] = flat[i]
  BY <1>10, Concat
<1>12. Joins(SizeRamp, n + 24, x, 22 + n, y, 2)
  <2>1. n + 24 = (22 + n) + 2
    BY <1>0
  <2> QED
    BY <1>1, <1>2, <1>11, <2>1 DEF Joins
<1>13. /\ IsSeq(SizeRamp, n + 24) /\ (\A i \in 1..(22 + n) : SizeRamp[i] = x[i])
       /\ \A i \in 1..2 : SizeRamp[(22 + n) + i] = y[i]
  BY <1>12, Concat
<1>14. \A i \in 1..22 : SizeRamp[i] = Preamble[i]
  BY <1>0, <1>11, <1>13
<1>15. SizeRamp[n + 23] = y[1] /\ SizeRamp[n + 24] = y[2]
  <2>1. SizeRamp[(22 + n) + 1] = y[1] /\ SizeRamp[(22 + n) + 2] = y[2]
    BY <1>13
  <2>2. (22 + n) + 1 = n + 23 /\ (22 + n) + 2 = n + 24
    BY <1>0
  <2> QED
    BY <2>1, <2>2
<1>16. ASSUME NEW k \in 1..Phases, NEW j \in 1..5
       PROVE  SizeRamp[5 * k + (17 + j)] = TrafficPhase(Ramp[k])[j]
  <2>1. 5 * (k - 1) + j \in 1..n
    BY <1>0, RampIs
  <2>2. flat[5 * (k - 1) + j] = ss[k][j]
    BY <1>6, <1>8
  <2>3. /\ 22 + (5 * (k - 1) + j) \in 1..(22 + n)
        /\ 22 + (5 * (k - 1) + j) = 5 * k + (17 + j)
    BY <1>0, <2>1, RampIs
  <2> QED
    BY <1>3, <1>11, <1>13, <2>1, <2>2, <2>3
<1>17. ASSUME NEW k \in 1..Phases
       PROVE  /\ SizeRamp[5 * k + 18] = Start(Ramp[k]) /\ SizeRamp[5 * k + 19] = StabilityWindow
              /\ SizeRamp[5 * k + 20] = Stop /\ SizeRamp[5 * k + 21] = Assess("accounted", Ramp[k])
              /\ SizeRamp[5 * k + 22] = AssertReady
  <2>1. /\ SizeRamp[5 * k + (17 + 1)] = TrafficPhase(Ramp[k])[1]
        /\ SizeRamp[5 * k + (17 + 2)] = TrafficPhase(Ramp[k])[2]
        /\ SizeRamp[5 * k + (17 + 3)] = TrafficPhase(Ramp[k])[3]
        /\ SizeRamp[5 * k + (17 + 4)] = TrafficPhase(Ramp[k])[4]
        /\ SizeRamp[5 * k + (17 + 5)] = TrafficPhase(Ramp[k])[5]
    BY <1>16
  <2>2. 17 + 1 = 18 /\ 17 + 2 = 19 /\ 17 + 3 = 20 /\ 17 + 4 = 21 /\ 17 + 5 = 22
    OBVIOUS
  <2> QED
    BY <1>5, <2>1, <2>2
<1> QED
  BY <1>0, <1>2, <1>13, <1>14, <1>15, <1>17

(* The connect() of IT-044, whose handler is not inside another.           *)
Linked == Connect(First, Second, "cancel", "done")

LEMMA LinkedIs ==
    /\ IsSeq(Linked, 5)
    /\ Linked[1] = AwaitEndpoint(First, Second) /\ Linked[2] = ConnectTo(First, Second)
    /\ Linked[3] = AwaitBoth(First, Second, "cancel", "done")
    /\ Linked[4] = CancelTo(First, Second, "cancel", "done") /\ Linked[5] = Ended("done")
<1>1. PICK s, t, cancel, done :
        s = First /\ t = Second /\ cancel = "cancel" /\ done = "done"
  OBVIOUS
<1>2. Connects(Linked, s, t, cancel, done)
  BY <1>1 DEF Connects, Linked
<1>3. /\ IsSeq(Linked, 5)
      /\ Linked[1] = AwaitEndpoint(s, t) /\ Linked[2] = ConnectTo(s, t)
      /\ Linked[3] = AwaitBoth(s, t, cancel, done) /\ Linked[4] = CancelTo(s, t, cancel, done)
      /\ Linked[5] = Ended(done)
  BY <1>2, ConnectIs
<1> QED
  BY <1>1, <1>3

ConnectLabels == {"cancel", "done"}

LEMMA LinkedHandles ==
    /\ \A i \in 1..4 : HandlerStep(Linked[i], ConnectLabels)
    /\ Linked[1].at = "" /\ Linked[2].at = "" /\ Linked[3].at = "" /\ Linked[4].at = "cancel"
<1> USE DEF HandlerStep, ConnectLabels, At, Then, Catch, Cmd, Step
<1>1. LET t == AwaitEndpoint(First, Second)
      IN  HandlerStep(t, ConnectLabels) /\ t.at = ""
  BY PollsFilled DEF AwaitEndpoint
<1>2. LET t == ConnectTo(First, Second)
      IN  HandlerStep(t, ConnectLabels) /\ t.at = ""
  BY DEF ConnectTo, Command, Harmless
<1>3. LET t == AwaitBoth(First, Second, "cancel", "done")
      IN  HandlerStep(t, ConnectLabels) /\ t.at = ""
  BY PollsFilled DEF AwaitBoth
<1>4. LET t == CancelTo(First, Second, "cancel", "done")
      IN  HandlerStep(t, ConnectLabels) /\ t.at = "cancel"
  BY DEF CancelTo, Command, Harmless
<1> HIDE DEF HandlerStep, ConnectLabels, At, Then, Catch, Cmd, Step
<1>5. \A i \in 1..4 : i \in {1, 2, 3, 4}
  OBVIOUS
<1> QED
  BY <1>1, <1>2, <1>3, <1>4, <1>5, LinkedIs

(* The steps before the checkpoints.                                       *)
Formed == ResetAll \o Linked \o FormGroup \o <<PickCoordinator, DrainEvents>>
          \o PeerIds \o WaitForSelected \o <<At("watch", StabilityWindow)>>

LEMMA FormedIs ==
    /\ IsSeq(Formed, 19)
    /\ \A i \in 1..4 : Formed[i] = ResetAll[i]
    /\ \A i \in 1..5 : Formed[4 + i] = Linked[i]
    /\ Formed[10] = CreateGroup("a") /\ Formed[11] = CreateGroup("b") /\ Formed[12] = WaitGroup
    /\ Formed[13] = PickCoordinator /\ Formed[14] = DrainEvents
    /\ Formed[15] = PeerId(First, Second) /\ Formed[16] = PeerId(Second, First)
    /\ Formed[17] = Step("wait", Links) /\ Formed[18] = DrainEvents /\ Formed[19] = Watching1
<1> DEFINE g == OnAll(CreateGroup)
           h == <<WaitGroup>>
           p == <<PickCoordinator, DrainEvents>>
           z == <<Watching1>>
           t1 == ResetAll \o Linked
           t2 == t1 \o FormGroup
           t3 == t2 \o p
           t4 == t3 \o PeerIds
           t5 == t4 \o WaitForSelected
<1>1. /\ Formed = t5 \o z /\ t5 = t4 \o WaitForSelected /\ t4 = t3 \o PeerIds /\ t3 = t2 \o p
      /\ t2 = t1 \o FormGroup /\ t1 = ResetAll \o Linked /\ FormGroup = g \o h
  BY DEF Formed, FormGroup, Watching1
<1>2. g = [i \in DOMAIN Apis |-> IF i = 1 THEN CreateGroup("a") ELSE CreateGroup("b")]
  BY DevicesAre DEF OnAll
<1>3. /\ IsSeq(h, 1) /\ h[1] = WaitGroup /\ IsSeq(z, 1) /\ z[1] = Watching1
      /\ IsSeq(p, 2) /\ p[1] = PickCoordinator /\ p[2] = DrainEvents
  BY OneStep, TwoSteps
<1>4. /\ IsSeq(PeerIds, 2) /\ PeerIds[1] = PeerId(First, Second)
      /\ PeerIds[2] = PeerId(Second, First)
  BY TwoSteps DEF PeerIds
<1> HIDE DEF g, h, p, z, t1, t2, t3, t4, t5
<1>5. IsSeq(g, 2) /\ g[1] = CreateGroup("a") /\ g[2] = CreateGroup("b")
  BY <1>2, OnBoth DEF IsPair
<1>6. Joins(FormGroup, 3, g, 2, h, 1)
  BY <1>1, <1>3, <1>5 DEF Joins
<1>7. /\ IsSeq(FormGroup, 3) /\ (\A i \in 1..2 : FormGroup[i] = g[i])
      /\ \A i \in 1..1 : FormGroup[2 + i] = h[i]
  BY <1>6, Concat
<1>8. Joins(t1, 9, ResetAll, 4, Linked, 5)
  BY <1>1, ResetIs, LinkedIs DEF Joins
<1>9. /\ IsSeq(t1, 9) /\ (\A i \in 1..4 : t1[i] = ResetAll[i])
      /\ \A i \in 1..5 : t1[4 + i] = Linked[i]
  BY <1>8, Concat
<1>10. Joins(t2, 12, t1, 9, FormGroup, 3)
  BY <1>1, <1>7, <1>9 DEF Joins
<1>11. /\ IsSeq(t2, 12) /\ (\A i \in 1..9 : t2[i] = t1[i])
       /\ \A i \in 1..3 : t2[9 + i] = FormGroup[i]
  BY <1>10, Concat
<1>12. Joins(t3, 14, t2, 12, p, 2)
  BY <1>1, <1>3, <1>11 DEF Joins
<1>13. IsSeq(t3, 14) /\ (\A i \in 1..12 : t3[i] = t2[i]) /\ \A i \in 1..2 : t3[12 + i] = p[i]
  BY <1>12, Concat
<1>14. Joins(t4, 16, t3, 14, PeerIds, 2)
  BY <1>1, <1>4, <1>13 DEF Joins
<1>15. IsSeq(t4, 16) /\ (\A i \in 1..14 : t4[i] = t3[i]) /\ \A i \in 1..2 : t4[14 + i] = PeerIds[i]
  BY <1>14, Concat
<1>16. Joins(t5, 18, t4, 16, WaitForSelected, 2)
  BY <1>1, <1>15, SettledIs DEF Joins
<1>17. /\ IsSeq(t5, 18) /\ (\A i \in 1..16 : t5[i] = t4[i])
       /\ \A i \in 1..2 : t5[16 + i] = WaitForSelected[i]
  BY <1>16, Concat
<1>18. Joins(Formed, 19, t5, 18, z, 1)
  BY <1>1, <1>3, <1>17 DEF Joins
<1>19. /\ IsSeq(Formed, 19) /\ (\A i \in 1..18 : Formed[i] = t5[i])
       /\ \A i \in 1..1 : Formed[18 + i] = z[i]
  BY <1>18, Concat
<1>20. \A i \in 1..9 : Formed[i] = t1[i]
  BY <1>11, <1>13, <1>15, <1>17, <1>19
<1>21. \A i \in 1..4 : Formed[i] = ResetAll[i]
  BY <1>9, <1>20
<1>22. ASSUME NEW i \in 1..5 PROVE Formed[4 + i] = Linked[i]
  <2>1. 4 + i \in 1..9
    OBVIOUS
  <2> QED
    BY <1>9, <1>20, <2>1
<1>23. /\ Formed[10] = t2[10] /\ Formed[11] = t2[11] /\ Formed[12] = t2[12]
       /\ Formed[13] = t3[13] /\ Formed[14] = t3[14] /\ Formed[15] = t4[15] /\ Formed[16] = t4[16]
       /\ Formed[17] = t5[17] /\ Formed[18] = t5[18]
  BY <1>13, <1>15, <1>17, <1>19
<1>24. /\ t2[9 + 1] = FormGroup[1] /\ t2[9 + 2] = FormGroup[2] /\ t2[9 + 3] = FormGroup[3]
       /\ t3[12 + 1] = p[1] /\ t3[12 + 2] = p[2]
       /\ t4[14 + 1] = PeerIds[1] /\ t4[14 + 2] = PeerIds[2]
       /\ t5[16 + 1] = WaitForSelected[1] /\ t5[16 + 2] = WaitForSelected[2]
       /\ Formed[18 + 1] = z[1]
       /\ FormGroup[1] = g[1] /\ FormGroup[2] = g[2] /\ FormGroup[2 + 1] = h[1]
  BY <1>7, <1>11, <1>13, <1>15, <1>17, <1>19
<1>25. /\ 9 + 1 = 10 /\ 9 + 2 = 11 /\ 9 + 3 = 12 /\ 12 + 1 = 13 /\ 12 + 2 = 14 /\ 14 + 1 = 15
       /\ 14 + 2 = 16 /\ 16 + 1 = 17 /\ 16 + 2 = 18 /\ 18 + 1 = 19 /\ 2 + 1 = 3
  OBVIOUS
<1> QED
  BY <1>3, <1>4, <1>5, <1>19, <1>21, <1>22, <1>23, <1>24, <1>25, SettledIs

StartPublishing(size) == AtChosen(Cmd(Command("startCheckpointTest", First, size)))
StopPublishing == AtChosen(Cmd(Command("stopCheckpointTest", First, 0)))
AwaitDrained == AtChosen(Step("wait", <<Shows("drained", First)>>))
CheckCounters == AtChosen(Step("check", <<Shows("counters", First)>>))
AssessDurable == AtChosen(Step("assess", <<Shows("durable", First)>>))

(* IT-044.                                                                 *)
LEMMA CheckpointRampIs ==
    /\ IsSeq(CheckpointRamp, 6 * Phases + 20)
    /\ \A i \in 1..19 : CheckpointRamp[i] = Formed[i]
    /\ \A k \in 1..Phases :
          /\ CheckpointRamp[6 * k + 14] = StartPublishing(Ramp[k])
          /\ CheckpointRamp[6 * k + 15] = StopPublishing
          /\ CheckpointRamp[6 * k + 16] = AwaitDrained
          /\ CheckpointRamp[6 * k + 17] = CheckCounters
          /\ CheckpointRamp[6 * k + 18] = AssessDurable
          /\ CheckpointRamp[6 * k + 19] = AssertReady
    /\ CheckpointRamp[6 * Phases + 20] = StabilityWindow
<1> DEFINE ss == [i \in DOMAIN Ramp |-> CheckpointPhase(Ramp[i])]
           flat == FlattenSeq(ss)
           x == Formed \o flat
           y == <<StabilityWindow>>
           n == 6 * Phases
<1>0. n \in Nat /\ n = 6 * Phases
  BY RampIs
<1> HIDE DEF n
<1>1. CheckpointRamp = x \o y /\ x = Formed \o flat
  BY DEF CheckpointRamp, Formed, Linked
<1>2. IsSeq(y, 1) /\ y[1] = StabilityWindow
  BY OneStep
<1>3. ss = [i \in 1..Phases |-> ss[i]] /\ \A k \in 1..Phases : ss[k] = CheckpointPhase(Ramp[k])
  BY RampIs
<1> HIDE DEF ss
<1>4. IsSeq(ss, Phases)
  BY <1>3, RampIs, FunctionIsSeq
<1>5. ASSUME NEW size
      PROVE  /\ IsSeq(CheckpointPhase(size), 6)
             /\ CheckpointPhase(size)[1] = StartPublishing(size)
             /\ CheckpointPhase(size)[2] = StopPublishing
             /\ CheckpointPhase(size)[3] = AwaitDrained
             /\ CheckpointPhase(size)[4] = CheckCounters
             /\ CheckpointPhase(size)[5] = AssessDurable
             /\ CheckpointPhase(size)[6] = AssertReady
  <2> DEFINE t == CheckpointPhase(size)
  <2>1. t = <<StartPublishing(size), StopPublishing, AwaitDrained, CheckCounters, AssessDurable,
              AssertReady>>
    BY DEF CheckpointPhase, StartPublishing, StopPublishing, AwaitDrained, CheckCounters,
           AssessDurable
  <2> HIDE DEF t
  <2>2. /\ t = [i \in 1..6 |-> t[i]]
        /\ t[1] = StartPublishing(size) /\ t[2] = StopPublishing /\ t[3] = AwaitDrained
        /\ t[4] = CheckCounters /\ t[5] = AssessDurable /\ t[6] = AssertReady
    BY <2>1
  <2>3. IsSeq(t, 6)
    BY <2>2, FunctionIsSeq
  <2> QED
    BY <2>2, <2>3 DEF t
<1>6. PICK w \in {5, 6} : w = 6
  OBVIOUS
<1>7. \A k \in 1..Phases : IsSeq(ss[k], w)
  BY <1>3, <1>5, <1>6
<1>8. /\ IsSeq(flat, w * Phases)
      /\ \A k \in 1..Phases, j \in 1..w : flat[w * (k - 1) + j] = ss[k][j]
  BY <1>4, <1>7, PhasesFlatten
<1>9. IsSeq(flat, n)
  BY <1>0, <1>6, <1>8
<1> HIDE DEF flat, x, y
<1>10. Joins(x, 19 + n, Formed, 19, flat, n)
  BY <1>1, <1>9, FormedIs DEF Joins
<1>11. /\ IsSeq(x, 19 + n) /\ (\A i \in 1..19 : x[i] = Formed[i])
       /\ \A i \in 1..n : x[19 + i] = flat[i]
  BY <1>10, Concat
<1>12. Joins(CheckpointRamp, n + 20, x, 19 + n, y, 1)
  <2>1. n + 20 = (19 + n) + 1
    BY <1>0
  <2> QED
    BY <1>1, <1>2, <1>11, <2>1 DEF Joins
<1>13. /\ IsSeq(CheckpointRamp, n + 20) /\ (\A i \in 1..(19 + n) : CheckpointRamp[i] = x[i])
       /\ \A i \in 1..1 : CheckpointRamp[(19 + n) + i] = y[i]
  BY <1>12, Concat
<1>14. \A i \in 1..19 : CheckpointRamp[i] = Formed[i]
  BY <1>0, <1>11, <1>13
<1>15. CheckpointRamp[n + 20] = y[1]
  <2>1. CheckpointRamp[(19 + n) + 1] = y[1]
    BY <1>13
  <2>2. (19 + n) + 1 = n + 20
    BY <1>0
  <2> QED
    BY <2>1, <2>2
<1>16. ASSUME NEW k \in 1..Phases, NEW j \in 1..6
       PROVE  CheckpointRamp[6 * k + (13 + j)] = CheckpointPhase(Ramp[k])[j]
  <2>1. 6 * (k - 1) + j \in 1..n
    BY <1>0, RampIs
  <2>2. flat[6 * (k - 1) + j] = ss[k][j]
    BY <1>6, <1>8
  <2>3. /\ 19 + (6 * (k - 1) + j) \in 1..(19 + n)
        /\ 19 + (6 * (k - 1) + j) = 6 * k + (13 + j)
    BY <1>0, <2>1, RampIs
  <2> QED
    BY <1>3, <1>11, <1>13, <2>1, <2>2, <2>3
<1>17. ASSUME NEW k \in 1..Phases
       PROVE  /\ CheckpointRamp[6 * k + 14] = StartPublishing(Ramp[k])
              /\ CheckpointRamp[6 * k + 15] = StopPublishing
              /\ CheckpointRamp[6 * k + 16] = AwaitDrained
              /\ CheckpointRamp[6 * k + 17] = CheckCounters
              /\ CheckpointRamp[6 * k + 18] = AssessDurable
              /\ CheckpointRamp[6 * k + 19] = AssertReady
  <2>1. /\ CheckpointRamp[6 * k + (13 + 1)] = CheckpointPhase(Ramp[k])[1]
        /\ CheckpointRamp[6 * k + (13 + 2)] = CheckpointPhase(Ramp[k])[2]
        /\ CheckpointRamp[6 * k + (13 + 3)] = CheckpointPhase(Ramp[k])[3]
        /\ CheckpointRamp[6 * k + (13 + 4)] = CheckpointPhase(Ramp[k])[4]
        /\ CheckpointRamp[6 * k + (13 + 5)] = CheckpointPhase(Ramp[k])[5]
        /\ CheckpointRamp[6 * k + (13 + 6)] = CheckpointPhase(Ramp[k])[6]
    BY <1>16
  <2>2. 13 + 1 = 14 /\ 13 + 2 = 15 /\ 13 + 3 = 16 /\ 13 + 4 = 17 /\ 13 + 5 = 18 /\ 13 + 6 = 19
    OBVIOUS
  <2> QED
    BY <1>5, <2>1, <2>2
<1> QED
  BY <1>0, <1>2, <1>13, <1>14, <1>15, <1>17

-----------------------------------------------------------------------------
(* Places in the script of the scenario that is run.                       *)

Scenarios == {"IT-041", "IT-043", "IT-044"}

(* Where the handlers of the connection end, and the last drain of the     *)
(* events, which the first stability window follows.                       *)
Connected == IF scenario = "IT-044" THEN 9 ELSE 16
LastDrain == IF scenario = "IT-044" THEN 18 ELSE 21

(* Where a phase starts its producers.                                     *)
StartPlaces ==
    IF scenario = "IT-041" THEN {23}
    ELSE IF scenario = "IT-043" THEN {5 * k + 18 : k \in 1..Phases}
    ELSE {6 * k + 14 : k \in 1..Phases}

Final == IF scenario = "IT-041" THEN 27
         ELSE IF scenario = "IT-043" THEN 5 * Phases + 24 ELSE 6 * Phases + 20

LEMMA ScriptIs ==
    ASSUME scenario \in Scenarios
    PROVE  script = IF scenario = "IT-041" THEN FixedRate
                    ELSE IF scenario = "IT-043" THEN SizeRamp ELSE CheckpointRamp
BY TrafficScenario DEF script, TrafficScripts, Scenarios

(* A phase is over before the next begins, and the script goes on after    *)
(* the last.                                                               *)
LEMMA StartsApart ==
    ASSUME scenario \in Scenarios, NEW i \in StartPlaces
    PROVE  /\ i \in Nat /\ i > LastDrain + 1 /\ i + 4 <= Final
           /\ i + 1 \notin StartPlaces /\ i + 2 \notin StartPlaces /\ i + 3 \notin StartPlaces
           /\ i + 4 \notin StartPlaces
<1>1. CASE scenario = "IT-041"
  BY <1>1 DEF StartPlaces, LastDrain, Final
<1>2. CASE scenario = "IT-043"
  <2>1. PICK k \in 1..Phases : i = 5 * k + 18
    BY <1>2 DEF StartPlaces
  <2>2. i \in Nat /\ i > 22 /\ i + 4 <= 5 * Phases + 24
    BY <2>1, RampIs
  <2>3. ASSUME NEW j \in 1..4, i + j \in StartPlaces PROVE FALSE
    <3>1. PICK m \in 1..Phases : i + j = 5 * m + 18
      BY <1>2, <2>3 DEF StartPlaces
    <3>2. 5 * (m - k) = j
      BY <2>1, <3>1, RampIs
    <3> QED
      BY <3>2, RampIs
  <2>4. 1 \in 1..4 /\ 2 \in 1..4 /\ 3 \in 1..4 /\ 4 \in 1..4
    OBVIOUS
  <2> QED
    BY <1>2, <2>2, <2>3, <2>4 DEF LastDrain, Final
<1>3. CASE scenario = "IT-044"
  <2>1. PICK k \in 1..Phases : i = 6 * k + 14
    BY <1>3 DEF StartPlaces
  <2>2. i \in Nat /\ i > 19 /\ i + 4 <= 6 * Phases + 20
    BY <2>1, RampIs
  <2>3. ASSUME NEW j \in 1..4, i + j \in StartPlaces PROVE FALSE
    <3>1. PICK m \in 1..Phases : i + j = 6 * m + 14
      BY <1>3, <2>3 DEF StartPlaces
    <3>2. 6 * (m - k) = j
      BY <2>1, <3>1, RampIs
    <3> QED
      BY <3>2, RampIs
  <2>4. 1 \in 1..4 /\ 2 \in 1..4 /\ 3 \in 1..4 /\ 4 \in 1..4
    OBVIOUS
  <2> QED
    BY <1>3, <2>2, <2>3, <2>4 DEF LastDrain, Final
<1> QED
  BY <1>1, <1>2, <1>3 DEF Scenarios

(* The script up to its last drain, and after it, for direct traffic.      *)
InPhase(i) == i \in StartPlaces \/ i - 1 \in StartPlaces \/ i - 2 \in StartPlaces
              \/ i - 3 \in StartPlaces

Tally(size) == IF scenario = "IT-041" THEN Assess("lossless", size) ELSE Assess("accounted", size)

LEMMA TrafficPlaces ==
    ASSUME scenario \in {"IT-041", "IT-043"}
    PROVE  /\ IsSeq(script, Final) /\ Final > 22
           /\ \A i \in 1..22 : script[i] = Preamble[i]
           /\ \A i \in StartPlaces :
                 \E size \in Nat :
                    /\ script[i] = Start(size) /\ script[i + 1] = StabilityWindow
                    /\ script[i + 2] = Stop /\ script[i + 3] = Tally(size)
           /\ \A i \in 23..Final :
                 InPhase(i) \/ script[i] \in {StabilityWindow, AssertReady, Assess("bandwidth", 0)}
<1>1. CASE scenario = "IT-041"
  <2>1. script = FixedRate /\ Final = 27 /\ StartPlaces = {23}
    BY <1>1, ScriptIs DEF Final, StartPlaces, Scenarios
  <2>2. IsSeq(script, Final) /\ Final > 22 /\ \A i \in 1..22 : script[i] = Preamble[i]
    BY <2>1, FixedRateIs
  <2>3. Tally(Ramp[1]) = Assess("lossless", Ramp[1]) /\ Ramp[1] \in Nat
    BY <1>1, RampIs DEF Tally
  <2>4. /\ script[23] = Start(Ramp[1]) /\ script[23 + 1] = StabilityWindow
        /\ script[23 + 2] = Stop /\ script[23 + 3] = Tally(Ramp[1])
    <3>1. 23 + 1 = 24 /\ 23 + 2 = 25 /\ 23 + 3 = 26
      OBVIOUS
    <3> QED
      BY <2>1, <2>3, <3>1, FixedRateIs
  <2>5. ASSUME NEW i \in 23..Final
        PROVE  InPhase(i) \/ script[i] \in {StabilityWindow, AssertReady, Assess("bandwidth", 0)}
    <3>1. i = 27 \/ i = 23 \/ i - 1 = 23 \/ i - 2 = 23 \/ i - 3 = 23
      BY <2>1
    <3>2. InPhase(i) \/ i = 27
      BY <2>1, <3>1 DEF InPhase
    <3> QED
      BY <2>1, <3>2, FixedRateIs
  <2> QED
    BY <2>1, <2>2, <2>3, <2>4, <2>5
<1>2. CASE scenario = "IT-043"
  <2>1. script = SizeRamp /\ Final = 5 * Phases + 24
        /\ StartPlaces = {5 * k + 18 : k \in 1..Phases}
    BY <1>2, ScriptIs DEF Final, StartPlaces, Scenarios
  <2>2. IsSeq(script, Final) /\ Final > 22 /\ \A i \in 1..22 : script[i] = Preamble[i]
    BY <2>1, SizeRampIs, RampIs
  <2>3. ASSUME NEW i \in StartPlaces
        PROVE  \E size \in Nat :
                  /\ script[i] = Start(size) /\ script[i + 1] = StabilityWindow
                  /\ script[i + 2] = Stop /\ script[i + 3] = Tally(size)
    <3>1. PICK k \in 1..Phases : i = 5 * k + 18
      BY <2>1
    <3>2. Tally(Ramp[k]) = Assess("accounted", Ramp[k]) /\ Ramp[k] \in Nat
      BY <1>2, RampIs DEF Tally
    <3>3. i + 1 = 5 * k + 19 /\ i + 2 = 5 * k + 20 /\ i + 3 = 5 * k + 21
      BY <3>1, RampIs
    <3>4. /\ SizeRamp[5 * k + 18] = Start(Ramp[k]) /\ SizeRamp[5 * k + 19] = StabilityWindow
          /\ SizeRamp[5 * k + 20] = Stop /\ SizeRamp[5 * k + 21] = Assess("accounted", Ramp[k])
      BY SizeRampIs
    <3> QED
      BY <2>1, <3>1, <3>2, <3>3, <3>4
  <2>4. ASSUME NEW i \in 23..Final
        PROVE  InPhase(i) \/ script[i] \in {StabilityWindow, AssertReady, Assess("bandwidth", 0)}
    <3>1. CASE i > 5 * Phases + 22
      <4>1. i = 5 * Phases + 23 \/ i = 5 * Phases + 24
        BY <2>1, <3>1, RampIs
      <4> QED
        BY <2>1, <4>1, SizeRampIs
    <3>2. CASE i <= 5 * Phases + 22
      <4> DEFINE k == (i - 18) \div 5
      <4>0. i \in Int
        OBVIOUS
      <4>1. k \in Int /\ 5 * k <= i - 18 /\ i - 18 < 5 * k + 5
        BY <4>0
      <4> HIDE DEF k
      <4>2. k \in 1..Phases
        BY <2>1, <3>2, <4>1, RampIs
      <4>3. i = 5 * k + 18 \/ i - 1 = 5 * k + 18 \/ i - 2 = 5 * k + 18 \/ i - 3 = 5 * k + 18
            \/ i = 5 * k + 22
        BY <2>1, <4>1, <4>2, RampIs
      <4>4. SizeRamp[5 * k + 22] = AssertReady /\ 5 * k + 18 \in StartPlaces
        BY <2>1, <4>2, SizeRampIs
      <4>5. CASE i = 5 * k + 22
        BY <2>1, <4>4, <4>5
      <4>6. CASE i # 5 * k + 22
        BY <4>3, <4>4, <4>6 DEF InPhase
      <4> QED
        BY <4>5, <4>6
    <3> QED
      BY <2>1, <3>1, <3>2, RampIs
  <2> QED
    BY <2>2, <2>3, <2>4
<1> QED
  BY <1>1, <1>2

(* And for checkpoints.                                                    *)
LEMMA CheckpointPlaces ==
    ASSUME scenario = "IT-044"
    PROVE  /\ IsSeq(script, Final) /\ Final > 19
           /\ \A i \in 1..19 : script[i] = Formed[i]
           /\ \A i \in StartPlaces :
                 /\ \E size \in Nat : script[i] = StartPublishing(size)
                 /\ script[i + 1] = StopPublishing /\ script[i + 2] = AwaitDrained
                 /\ script[i + 3] = CheckCounters
           /\ \A i \in 20..Final :
                 InPhase(i) \/ script[i] \in {StabilityWindow, AssertReady, AssessDurable}
<1>1. script = CheckpointRamp /\ Final = 6 * Phases + 20
      /\ StartPlaces = {6 * k + 14 : k \in 1..Phases}
  BY ScriptIs DEF Final, StartPlaces, Scenarios
<1>2. IsSeq(script, Final) /\ Final > 19 /\ \A i \in 1..19 : script[i] = Formed[i]
  BY <1>1, CheckpointRampIs, RampIs
<1>3. ASSUME NEW i \in StartPlaces
      PROVE  /\ \E size \in Nat : script[i] = StartPublishing(size)
             /\ script[i + 1] = StopPublishing /\ script[i + 2] = AwaitDrained
             /\ script[i + 3] = CheckCounters
  <2>1. PICK k \in 1..Phases : i = 6 * k + 14
    BY <1>1
  <2>2. i + 1 = 6 * k + 15 /\ i + 2 = 6 * k + 16 /\ i + 3 = 6 * k + 17 /\ Ramp[k] \in Nat
    BY <2>1, RampIs
  <2>3. /\ CheckpointRamp[6 * k + 14] = StartPublishing(Ramp[k])
        /\ CheckpointRamp[6 * k + 15] = StopPublishing
        /\ CheckpointRamp[6 * k + 16] = AwaitDrained
        /\ CheckpointRamp[6 * k + 17] = CheckCounters
    BY CheckpointRampIs
  <2> QED
    BY <1>1, <2>1, <2>2, <2>3
<1>4. ASSUME NEW i \in 20..Final
      PROVE  InPhase(i) \/ script[i] \in {StabilityWindow, AssertReady, AssessDurable}
  <2>1. CASE i = 6 * Phases + 20
    BY <1>1, <2>1, CheckpointRampIs
  <2>2. CASE i # 6 * Phases + 20
    <3> DEFINE k == (i - 14) \div 6
    <3>1. k \in Int /\ 6 * k <= i - 14 /\ i - 14 < 6 * k + 6
      BY <1>1, RampIs
    <3> HIDE DEF k
    <3>2. k \in 1..Phases
      BY <1>1, <2>2, <3>1, RampIs
    <3>3. i = 6 * k + 14 \/ i - 1 = 6 * k + 14 \/ i - 2 = 6 * k + 14 \/ i - 3 = 6 * k + 14
          \/ i = 6 * k + 18 \/ i = 6 * k + 19
      BY <1>1, <3>1, <3>2, RampIs
    <3>4. /\ CheckpointRamp[6 * k + 18] = AssessDurable /\ CheckpointRamp[6 * k + 19] = AssertReady
          /\ 6 * k + 14 \in StartPlaces
      BY <1>1, <3>2, CheckpointRampIs
    <3>5. CASE i = 6 * k + 18 \/ i = 6 * k + 19
      BY <1>1, <3>4, <3>5
    <3>6. CASE ~(i = 6 * k + 18 \/ i = 6 * k + 19)
      BY <3>3, <3>4, <3>6 DEF InPhase
    <3> QED
      BY <3>5, <3>6
  <2> QED
    BY <2>1, <2>2
<1> QED
  BY <1>2, <1>3, <1>4

-----------------------------------------------------------------------------
(* Where steps lead.                                                       *)

(* A step without handlers, and one whose command goes to the coordinator. *)
Plain(s) == \E op, what : s = Step(op, what)
Addressed(s) == \E op, what : s = AtChosen(Step(op, what))

LEMMA PlainSteps ==
    /\ \A d : Plain(ResetRuntime(d)) /\ Plain(CreateGroup(d))
    /\ Plain(Step("check", OnAll(Health))) /\ Plain(Step("wait", OnAll(Presence)))
    /\ \A d, e : Plain(PeerId(d, e))
    /\ Plain(DrainEvents) /\ Plain(Step("wait", Links)) /\ Plain(StabilityWindow)
    /\ \A size : Plain(Start(size)) /\ \A kind : Plain(Assess(kind, size))
    /\ Plain(Stop) /\ Plain(AssertReady) /\ Plain(WaitGroup) /\ Plain(PickCoordinator)
<1>1. ASSUME NEW op, NEW what PROVE Plain(Step(op, what))
  BY DEF Plain
<1>2. ASSUME NEW d, NEW e
      PROVE  Plain(ResetRuntime(d)) /\ Plain(CreateGroup(d)) /\ Plain(PeerId(d, e))
  BY <1>1 DEF ResetRuntime, CreateGroup, PeerId, Cmd
<1>3. ASSUME NEW size, NEW kind PROVE Plain(Start(size)) /\ Plain(Assess(kind, size))
  BY <1>1 DEF Start, Assess
<1>4. Plain(Step("check", OnAll(Health))) /\ Plain(Step("wait", OnAll(Presence)))
  BY <1>1
<1>5. Plain(DrainEvents) /\ Plain(Step("wait", Links)) /\ Plain(StabilityWindow)
  BY <1>1 DEF DrainEvents, StabilityWindow
<1>6. Plain(Stop) /\ Plain(AssertReady) /\ Plain(WaitGroup) /\ Plain(PickCoordinator)
  BY <1>1 DEF Stop, AssertReady, WaitGroup, PickCoordinator
<1> QED
  BY <1>2, <1>3, <1>4, <1>5, <1>6

LEMMA AddressedSteps ==
    /\ \A size : Addressed(StartPublishing(size))
    /\ Addressed(StopPublishing) /\ Addressed(AwaitDrained) /\ Addressed(CheckCounters)
    /\ Addressed(AssessDurable)
<1>1. ASSUME NEW op, NEW what PROVE Addressed(AtChosen(Step(op, what)))
  BY DEF Addressed
<1>2. ASSUME NEW size PROVE Addressed(StartPublishing(size))
  BY <1>1 DEF StartPublishing, Cmd
<1>3. Addressed(StopPublishing)
  BY <1>1 DEF StopPublishing, Cmd
<1>4. Addressed(AwaitDrained) /\ Addressed(CheckCounters) /\ Addressed(AssessDurable)
  BY <1>1 DEF AwaitDrained, CheckCounters, AssessDurable
<1> QED
  BY <1>2, <1>3, <1>4

(* Such a step goes on to the next one, and a failure ends the scenario.   *)
Linear(s) == s.then = "next" /\ s.onFail = "end" /\ s.onCrash = "end"

LEMMA LinearSteps ==
    ASSUME NEW s
    PROVE  /\ Plain(s) => Linear(s) /\ s.at = "" /\ s.toChosen = FALSE
           /\ Addressed(s) => Linear(s) /\ s.at = "" /\ s.toChosen = TRUE
           /\ s = Watching1 => Linear(s) /\ s.at = "watch" /\ s.toChosen = FALSE
           /\ \A label : s = Ended(label) => Linear(s) /\ s.at = label /\ s.toChosen = FALSE
<1>1. ASSUME Plain(s) PROVE Linear(s) /\ s.at = "" /\ s.toChosen = FALSE
  <2>1. PICK op, what : s = Step(op, what)
    BY <1>1 DEF Plain
  <2> QED
    BY <2>1 DEF Linear, Step
<1>2. ASSUME Addressed(s) PROVE Linear(s) /\ s.at = "" /\ s.toChosen = TRUE
  BY <1>2 DEF Addressed, AtChosen, Linear, Step
<1>3. ASSUME s = Watching1 PROVE Linear(s) /\ s.at = "watch" /\ s.toChosen = FALSE
  BY <1>3 DEF Watching1, StabilityWindow, At, Linear, Step
<1>4. ASSUME NEW label, s = Ended(label) PROVE Linear(s) /\ s.at = label /\ s.toChosen = FALSE
  BY <1>4 DEF Ended, At, Linear, Step
<1> QED
  BY <1>1, <1>2, <1>3, <1>4

(* The places before, between and after the handlers, and the places of    *)
(* the handlers.                                                           *)
Labels == IF scenario = "IT-044" THEN ConnectLabels ELSE EnsureLabels
LastLabel == IF scenario = "IT-044" THEN "done" ELSE "paired"

LEMMA Places ==
    ASSUME scenario \in Scenarios
    PROVE  /\ IsSeq(script, Final) /\ Final > LastDrain
           /\ \A i \in 1..4 : Plain(script[i])
           /\ \A i \in 5..(Connected - 1) : HandlerStep(script[i], Labels)
           /\ script[Connected] = Ended(LastLabel)
           /\ \A i \in (Connected + 1)..LastDrain : Plain(script[i])
           /\ script[LastDrain] = DrainEvents /\ script[LastDrain + 1] = Watching1
           /\ \A i \in (LastDrain + 2)..Final : Plain(script[i]) \/ Addressed(script[i])
<1>0. \A i \in 1..4 : Plain(ResetAll[i])
  <2>1. \A i \in 1..4 : i = 1 \/ i = 2 \/ i = 3 \/ i = 4
    OBVIOUS
  <2> QED
    BY <2>1, ResetIs, PlainSteps
<1>1. CASE scenario \in {"IT-041", "IT-043"}
  <2>0. Connected = 16 /\ LastDrain = 21 /\ Labels = EnsureLabels /\ LastLabel = "paired"
    BY <1>1 DEF Connected, LastDrain, Labels, LastLabel
  <2>1. \A i \in 1..22 : script[i] = Preamble[i]
    BY <1>1, TrafficPlaces
  <2>2. \A i \in 1..4 : Plain(script[i])
    BY <1>0, <2>1, PreambleIs
  <2>3. ASSUME NEW i \in 5..15 PROVE HandlerStep(script[i], EnsureLabels)
    <3>1. i - 4 \in 1..11 /\ 4 + (i - 4) = i /\ i \in 1..22 /\ i - 4 \in 1..12
      OBVIOUS
    <3>2. HandlerStep(Ensured[i - 4], EnsureLabels)
      BY <3>1, EnsureHandles
    <3>3. Preamble[4 + (i - 4)] = Ensured[i - 4]
      BY <3>1, PreambleIs
    <3>4. script[i] = Ensured[i - 4]
      BY <2>1, <3>1, <3>3
    <3> QED
      BY <3>2, <3>4
  <2>4. script[16] = Ended("paired")
    <3>1. 4 + 12 = 16 /\ 12 \in 1..12 /\ 16 \in 1..22
      OBVIOUS
    <3>2. Preamble[4 + 12] = Ensured[12]
      BY <3>1, PreambleIs
    <3> QED
      BY <2>1, <3>1, <3>2, EnsureIs
  <2>5. ASSUME NEW i \in 17..21 PROVE Plain(script[i])
    <3>1. i = 17 \/ i = 18 \/ i = 19 \/ i = 20 \/ i = 21
      OBVIOUS
    <3>2. \A j \in 17..21 : script[j] = Preamble[j]
      BY <2>1
    <3> QED
      BY <3>1, <3>2, PreambleIs, PlainSteps
  <2>6. script[21] = DrainEvents /\ script[22] = Watching1
    BY <2>1, PreambleIs
  <2>7. ASSUME NEW i \in 23..Final PROVE Plain(script[i])
    <3>1. CASE InPhase(i)
      <4>1. PICK m \in StartPlaces : i = m \/ i - 1 = m \/ i - 2 = m \/ i - 3 = m
        BY <3>1 DEF InPhase
      <4>2. m \in Nat
        BY <1>1, <4>1, StartsApart DEF Scenarios
      <4>3. i = m \/ i = m + 1 \/ i = m + 2 \/ i = m + 3
        BY <4>1, <4>2
      <4>4. PICK size \in Nat :
               /\ script[m] = Start(size) /\ script[m + 1] = StabilityWindow
               /\ script[m + 2] = Stop /\ script[m + 3] = Tally(size)
        BY <1>1, TrafficPlaces
      <4>5. Plain(Tally(size))
        BY PlainSteps DEF Tally
      <4> QED
        BY <4>3, <4>4, <4>5, PlainSteps
    <3>2. CASE ~InPhase(i)
      <4>1. script[i] \in {StabilityWindow, AssertReady, Assess("bandwidth", 0)}
        BY <1>1, <3>2, TrafficPlaces
      <4>2. Plain(Assess("bandwidth", 0))
        BY PlainSteps
      <4> QED
        BY <4>1, <4>2, PlainSteps
    <3> QED
      BY <3>1, <3>2
  <2>8. IsSeq(script, Final) /\ Final > 21
    BY <1>1, TrafficPlaces DEF IsSeq
  <2>9. 16 - 1 = 15 /\ 16 + 1 = 17 /\ 21 + 1 = 22 /\ 21 + 2 = 23
    OBVIOUS
  <2> QED
    BY <2>0, <2>2, <2>3, <2>4, <2>5, <2>6, <2>7, <2>8, <2>9
<1>2. CASE scenario = "IT-044"
  <2>0. Connected = 9 /\ LastDrain = 18 /\ Labels = ConnectLabels /\ LastLabel = "done"
    BY <1>2 DEF Connected, LastDrain, Labels, LastLabel
  <2>1. \A i \in 1..19 : script[i] = Formed[i]
    BY <1>2, CheckpointPlaces
  <2>2. \A i \in 1..4 : Plain(script[i])
    BY <1>0, <2>1, FormedIs
  <2>3. ASSUME NEW i \in 5..8 PROVE HandlerStep(script[i], ConnectLabels)
    <3>1. i - 4 \in 1..4 /\ 4 + (i - 4) = i /\ i \in 1..19 /\ i - 4 \in 1..5
      OBVIOUS
    <3>2. HandlerStep(Linked[i - 4], ConnectLabels)
      BY <3>1, LinkedHandles
    <3>3. Formed[4 + (i - 4)] = Linked[i - 4]
      BY <3>1, FormedIs
    <3>4. script[i] = Linked[i - 4]
      BY <2>1, <3>1, <3>3
    <3> QED
      BY <3>2, <3>4
  <2>4. script[9] = Ended("done")
    <3>1. 4 + 5 = 9 /\ 5 \in 1..5 /\ 9 \in 1..19
      OBVIOUS
    <3>2. Formed[4 + 5] = Linked[5]
      BY <3>1, FormedIs
    <3> QED
      BY <2>1, <3>1, <3>2, LinkedIs
  <2>5. ASSUME NEW i \in 10..18 PROVE Plain(script[i])
    <3>1. i = 10 \/ i = 11 \/ i = 12 \/ i = 13 \/ i = 14 \/ i = 15 \/ i = 16 \/ i = 17 \/ i = 18
      OBVIOUS
    <3>2. script[i] = Formed[i]
      BY <2>1
    <3>3. CASE i \in 10..14
      <4>1. i = 10 \/ i = 11 \/ i = 12 \/ i = 13 \/ i = 14
        BY <3>3
      <4> QED
        BY <3>2, <4>1, FormedIs, PlainSteps
    <3>4. CASE i \in 15..18
      <4>1. i = 15 \/ i = 16 \/ i = 17 \/ i = 18
        BY <3>4
      <4> QED
        BY <3>2, <4>1, FormedIs, PlainSteps
    <3> QED
      BY <3>3, <3>4
  <2>6. script[18] = DrainEvents /\ script[19] = Watching1
    BY <2>1, FormedIs
  <2>7. ASSUME NEW i \in 20..Final PROVE Plain(script[i]) \/ Addressed(script[i])
    <3>1. CASE InPhase(i)
      <4>1. PICK m \in StartPlaces : i = m \/ i - 1 = m \/ i - 2 = m \/ i - 3 = m
        BY <3>1 DEF InPhase
      <4>2. m \in Nat
        BY <1>2, <4>1, StartsApart DEF Scenarios
      <4>3. i = m \/ i = m + 1 \/ i = m + 2 \/ i = m + 3
        BY <4>1, <4>2
      <4>4. /\ \E size \in Nat : script[m] = StartPublishing(size)
            /\ script[m + 1] = StopPublishing /\ script[m + 2] = AwaitDrained
            /\ script[m + 3] = CheckCounters
        BY <1>2, CheckpointPlaces
      <4> QED
        BY <4>3, <4>4, AddressedSteps
    <3>2. CASE ~InPhase(i)
      <4>1. script[i] \in {StabilityWindow, AssertReady, AssessDurable}
        BY <1>2, <3>2, CheckpointPlaces
      <4> QED
        BY <4>1, PlainSteps, AddressedSteps
    <3> QED
      BY <3>1, <3>2
  <2>8. IsSeq(script, Final) /\ Final > 18
    BY <1>2, CheckpointPlaces DEF IsSeq
  <2>9. 9 - 1 = 8 /\ 9 + 1 = 10 /\ 18 + 1 = 19 /\ 18 + 2 = 20
    OBVIOUS
  <2> QED
    BY <2>0, <2>2, <2>3, <2>4, <2>5, <2>6, <2>7, <2>8, <2>9
<1> QED
  BY <1>1, <1>2 DEF Scenarios

(* Every label of a handler is the label of a step.                        *)
LEMMA LabelsExist ==
    ASSUME scenario \in Scenarios, NEW label \in Labels
    PROVE  \E i \in 1..22 : i <= LastDrain /\ script[i].at = label
<1>1. CASE scenario \in {"IT-041", "IT-043"}
  <2>1. \A i \in 1..12 : script[4 + i] = Ensured[i]
    <3>1. \A i \in 1..12 : 4 + i \in 1..22
      OBVIOUS
    <3> QED
      BY <1>1, <3>1, TrafficPlaces, PreambleIs
  <2>2. \A i \in 1..12 : 4 + i \in 1..22 /\ 4 + i <= LastDrain
    BY <1>1 DEF LastDrain
  <2>3. Ensured[12].at = "paired"
    BY EnsureIs DEF Ended, At, Step
  <2>4. label \in EnsureLabels
    BY <1>1 DEF Labels
  <2>5. \E i \in 1..12 : Ensured[i].at = label
    <3>1. /\ 2 \in 1..12 /\ 5 \in 1..12 /\ 6 \in 1..12 /\ 7 \in 1..12 /\ 10 \in 1..12
          /\ 11 \in 1..12 /\ 12 \in 1..12
      OBVIOUS
    <3>2. /\ Ensured[2].at = "first" /\ Ensured[5].at = "cancel1" /\ Ensured[6].at = "done1"
          /\ Ensured[7].at = "second" /\ Ensured[10].at = "cancel2" /\ Ensured[11].at = "done2"
      BY EnsureHandles
    <3> QED
      BY <2>3, <2>4, <3>1, <3>2 DEF EnsureLabels
  <2>6. PICK i \in 1..12 : Ensured[i].at = label
    BY <2>5
  <2> QED
    BY <2>1, <2>2, <2>6
<1>2. CASE scenario = "IT-044"
  <2>1. label \in {"cancel", "done"}
    BY <1>2 DEF Labels, ConnectLabels
  <2>2. 4 + 4 = 8 /\ 4 + 5 = 9 /\ 4 \in 1..5 /\ 5 \in 1..5
    OBVIOUS
  <2>3. Formed[4 + 4] = Linked[4] /\ Formed[4 + 5] = Linked[5]
    BY <2>2, FormedIs
  <2>4. script[8] = Linked[4] /\ script[9] = Linked[5]
    <3>1. 8 \in 1..19 /\ 9 \in 1..19
      OBVIOUS
    <3> QED
      BY <1>2, <2>2, <2>3, <3>1, CheckpointPlaces
  <2>5. Linked[4].at = "cancel"
    BY LinkedHandles
  <2>6. Linked[5].at = "done"
    BY LinkedIs DEF Ended, At, Step
  <2>7. 8 \in 1..22 /\ 9 \in 1..22 /\ 8 <= LastDrain /\ 9 <= LastDrain
    BY <1>2 DEF LastDrain
  <2> QED
    BY <2>1, <2>4, <2>5, <2>6, <2>7
<1> QED
  BY <1>1, <1>2 DEF Scenarios

LEMMA Bounds ==
    ASSUME scenario \in Scenarios
    PROVE  /\ Connected \in {9, 16} /\ LastDrain \in {18, 21} /\ LastDrain > Connected + 4
           /\ Final \in Nat /\ Final > LastDrain + 1 /\ Final >= 24 /\ DOMAIN script = 1..Final /\ Len(script) = Final
<1>1. Connected \in {9, 16} /\ LastDrain \in {18, 21} /\ LastDrain > Connected + 4
  BY DEF Connected, LastDrain
<1>2. Final \in Nat /\ Final > LastDrain + 1 /\ Final >= 24
  BY RampIs DEF Final, LastDrain, Scenarios
<1>3. DOMAIN script = 1..Final /\ Len(script) = Final
  BY Places, SeqDomain
<1> QED
  BY <1>1, <1>2, <1>3

(* The labels outside the handlers.                                        *)
LEMMA LabelsElsewhere ==
    ASSUME scenario \in Scenarios, NEW i \in 1..Final, i < 5 \/ i > Connected
    PROVE  /\ Linear(script[i])
           /\ script[i].at = IF i = LastDrain + 1 THEN "watch" ELSE ""
<1>1. CASE i < 5
  <2>1. i \in 1..4 /\ i # LastDrain + 1
    BY <1>1, Bounds
  <2> QED
    BY <2>1, Places, LinearSteps
<1>2. CASE i > Connected
  <2>1. i \in (Connected + 1)..LastDrain \/ i = LastDrain + 1 \/ i \in (LastDrain + 2)..Final
    BY <1>2, Bounds
  <2>2. CASE i \in (Connected + 1)..LastDrain
    <3>1. i # LastDrain + 1
      BY <2>2, Bounds
    <3> QED
      BY <2>2, <3>1, Places, LinearSteps
  <2>3. CASE i = LastDrain + 1
    BY <2>3, Places, LinearSteps
  <2>4. CASE i \in (LastDrain + 2)..Final
    <3>1. i # LastDrain + 1
      BY <2>4, Bounds
    <3> QED
      BY <2>4, <3>1, Places, LinearSteps
  <2> QED
    BY <2>1, <2>2, <2>3, <2>4
<1> QED
  BY <1>1, <1>2

(* A handler leads to a handler, and the first stability window follows    *)
(* the last drain.                                                         *)
LEMMA JumpIs ==
    ASSUME scenario \in Scenarios
    PROVE  /\ \A label \in Labels : Jump(label) \in 5..Connected
           /\ Jump("watch") = LastDrain + 1
<1>1. "" \notin Labels /\ "watch" \notin Labels /\ LastLabel \in Labels
  BY DEF Labels, LastLabel, ConnectLabels, EnsureLabels
<1>2. ASSUME NEW label \in Labels PROVE Jump(label) \in 5..Connected
  <2>1. \E i \in DOMAIN script : script[i].at = label
    <3>1. PICK i \in 1..22 : i <= LastDrain /\ script[i].at = label
      BY LabelsExist
    <3>2. i \in DOMAIN script
      BY <3>1, Bounds
    <3> QED
      BY <3>1, <3>2
  <2>2. Jump(label) \in DOMAIN script /\ script[Jump(label)].at = label
    BY <2>1 DEF Jump
  <2>3. Jump(label) \in 1..Final
    BY <2>2, Bounds
  <2>4. ~(Jump(label) < 5 \/ Jump(label) > Connected)
    BY <1>1, <2>2, <2>3, LabelsElsewhere
  <2> QED
    BY <2>3, <2>4, Bounds
<1>3. Jump("watch") = LastDrain + 1
  <2>1. PICK label : label = "watch"
    OBVIOUS
  <2>2. LastDrain + 1 \in 1..Final /\ LastDrain + 1 > Connected
    BY Bounds
  <2>3. script[LastDrain + 1].at = label
    BY <2>1, <2>2, LabelsElsewhere
  <2>4. Jump(label) \in DOMAIN script /\ script[Jump(label)].at = label
    BY <2>2, <2>3, Bounds DEF Jump
  <2>5. Jump(label) \in 1..Final
    BY <2>4, Bounds
  <2>6. CASE Jump(label) \in 5..(Connected - 1)
    <3>1. HandlerStep(script[Jump(label)], Labels)
      BY <2>6, Places
    <3>2. script[Jump(label)].at \in Labels \cup {""}
      BY <3>1 DEF HandlerStep
    <3> QED
      BY <1>1, <2>1, <2>4, <3>2
  <2>7. CASE Jump(label) = Connected
    <3>1. script[Connected].at = LastLabel
      BY Places, LinearSteps
    <3> QED
      BY <1>1, <2>1, <2>4, <2>7, <3>1
  <2>8. CASE Jump(label) < 5 \/ Jump(label) > Connected
    <3>1. Jump(label) = LastDrain + 1
      BY <2>1, <2>4, <2>5, <2>8, LabelsElsewhere
    <3> QED
      BY <2>1, <3>1
  <2>9. Jump(label) \in 5..(Connected - 1) \/ Jump(label) = Connected
        \/ Jump(label) < 5 \/ Jump(label) > Connected
    BY <2>5, Bounds
  <2> QED
    BY <2>6, <2>7, <2>8, <2>9
<1> QED
  BY <1>2, <1>3

(* The step that is run, with its commands addressed.                      *)
LEMMA NowIs ==
    ASSUME scenario \in Scenarios, pc \in 1..Final
    PROVE  /\ Now.op = script[pc].op /\ Now.then = script[pc].then
           /\ Now.onFail = script[pc].onFail /\ Now.onCrash = script[pc].onCrash
           /\ Now.swallow = script[pc].swallow
           /\ ~Addressed(script[pc]) => Now = script[pc]
<1>1. CASE Addressed(script[pc])
  <2>1. PICK op, what : script[pc] = AtChosen(Step(op, what))
    BY <1>1 DEF Addressed
  <2> QED
    BY <1>1, <2>1 DEF Now, Resolved, AtChosen, Step
<1>2. CASE ~Addressed(script[pc])
  <2>1. script[pc].toChosen = FALSE
    <3>1. CASE pc < 5
      <4>1. pc \in 1..4
        BY <3>1
      <4> QED
        BY <4>1, Places, LinearSteps
    <3>2. CASE pc \in 5..(Connected - 1)
      BY <3>2, Places DEF HandlerStep
    <3>3. CASE pc = Connected
      BY <3>3, Places, LinearSteps
    <3>4. CASE pc \in (Connected + 1)..LastDrain
      BY <3>4, Places, LinearSteps
    <3>5. CASE pc = LastDrain + 1
      BY <3>5, Places, LinearSteps
    <3>6. CASE pc \in (LastDrain + 2)..Final
      BY <1>2, <3>6, Places, LinearSteps
    <3>7. pc < 5 \/ pc \in 5..(Connected - 1) \/ pc = Connected \/ pc \in (Connected + 1)..LastDrain
          \/ pc = LastDrain + 1 \/ pc \in (LastDrain + 2)..Final
      BY Bounds
    <3> QED
      BY <3>1, <3>2, <3>3, <3>4, <3>5, <3>6, <3>7
  <2>2. Now = script[pc]
    BY <2>1 DEF Now, Resolved
  <2> QED
    BY <2>2
<1> QED
  BY <1>1, <1>2

-----------------------------------------------------------------------------
(* What the steps consist of.                                              *)

(* A sequence of two, by what both have in common.                         *)
LEMMA BothAre ==
    ASSUME NEW s, NEW x, NEW y, s = <<x, y>>
    PROVE  IsPair(s, x, y)
BY TwoSteps DEF IsPair

LEMMA Pairwise ==
    ASSUME NEW s, NEW x, NEW y, IsPair(s, x, y)
    PROVE  IsSeq(s, 2) /\ DOMAIN s = 1..2 /\ Len(s) = 2 /\ s[1] = x /\ s[2] = y
BY SeqDomain DEF IsPair

LEMMA PollForms ==
    /\ DrainEvents.op = "check" /\ IsPair(DrainEvents.what, Drain("a"), Drain("b"))
    /\ WaitGroup.op = "wait" /\ IsPair(WaitGroup.what, Shows("group", "a"), Shows("group", "b"))
    /\ PickCoordinator.op = "pick"
    /\ IsPair(PickCoordinator.what, Shows("leads", "a"), Shows("leads", "b"))
    /\ \A d, e : PeerId(d, e).op = "check" /\ IsSeq(PeerId(d, e).what, 1)
    /\ StabilityWindow.op = "window" /\ StabilityWindow.what = SelectedReady
    /\ Watching1.op = "window" /\ Watching1.what = SelectedReady
    /\ AssertReady.op = "check" /\ AssertReady.what = SelectedReady
    /\ Step("wait", Links).op = "wait" /\ IsSeq(Step("wait", Links).what, 2)
    /\ Step("check", OnAll(Health)).op = "check" /\ IsSeq(Step("check", OnAll(Health)).what, 2)
    /\ Step("wait", OnAll(Presence)).op = "wait" /\ IsSeq(Step("wait", OnAll(Presence)).what, 2)
<1>1. ASSUME NEW op, NEW what PROVE Step(op, what).op = op /\ Step(op, what).what = what
  BY DEF Step
<1>2. DrainEvents.op = "check" /\ IsPair(DrainEvents.what, Drain("a"), Drain("b"))
  <2> DEFINE s == OnAll(Drain)
  <2>1. s = [i \in DOMAIN Apis |-> IF i = 1 THEN Drain("a") ELSE Drain("b")]
    BY DevicesAre DEF OnAll
  <2>2. DrainEvents = Step("check", s)
    BY DEF DrainEvents
  <2> HIDE DEF s
  <2>3. IsPair(s, Drain("a"), Drain("b"))
    BY <2>1, OnBoth
  <2> QED
    BY <1>1, <2>2, <2>3
<1>3. WaitGroup.op = "wait" /\ IsPair(WaitGroup.what, Shows("group", "a"), Shows("group", "b"))
  <2> DEFINE s == OnAll(LAMBDA d : Shows("group", d))
             x == Shows("group", "a")
             y == Shows("group", "b")
  <2>1. s = [i \in DOMAIN Apis |-> IF i = 1 THEN x ELSE y]
    BY DevicesAre DEF OnAll
  <2>2. WaitGroup = Step("wait", s)
    BY DEF WaitGroup
  <2> HIDE DEF s, x, y
  <2>3. IsPair(s, x, y)
    BY <2>1, OnBoth
  <2> QED
    BY <1>1, <2>2, <2>3 DEF x, y
<1>4. /\ PickCoordinator.op = "pick"
      /\ IsPair(PickCoordinator.what, Shows("leads", "a"), Shows("leads", "b"))
  <2> DEFINE s == OnAll(LAMBDA d : Shows("leads", d))
             x == Shows("leads", "a")
             y == Shows("leads", "b")
  <2>1. s = [i \in DOMAIN Apis |-> IF i = 1 THEN x ELSE y]
    BY DevicesAre DEF OnAll
  <2>2. PickCoordinator = Step("pick", s)
    BY DEF PickCoordinator
  <2> HIDE DEF s, x, y
  <2>3. IsPair(s, x, y)
    BY <2>1, OnBoth
  <2> QED
    BY <1>1, <2>2, <2>3 DEF x, y
<1>5. ASSUME NEW d, NEW e PROVE PeerId(d, e).op = "check" /\ IsSeq(PeerId(d, e).what, 1)
  <2> DEFINE x == Shows("linked", <<d, e>>)
             s == <<x>>
  <2>1. PeerId(d, e) = Step("check", s)
    BY DEF PeerId
  <2>2. IsSeq(s, 1)
    BY OneStep
  <2> HIDE DEF x, s
  <2> QED
    BY <1>1, <2>1, <2>2
<1>6. StabilityWindow.op = "window" /\ StabilityWindow.what = SelectedReady
  BY <1>1 DEF StabilityWindow
<1>7. Watching1.op = "window" /\ Watching1.what = SelectedReady
  BY DEF Watching1, At, StabilityWindow, Step
<1>8. AssertReady.op = "check" /\ AssertReady.what = SelectedReady
  BY <1>1 DEF AssertReady
<1>9. Step("wait", Links).op = "wait" /\ IsSeq(Step("wait", Links).what, 2)
  BY <1>1, LinksIs
<1>10. ASSUME NEW s, s \in {OnAll(Health), OnAll(Presence)} PROVE IsSeq(s, 2)
  <2>1. OnAll(Health) = [i \in DOMAIN Apis |-> IF i = 1 THEN Health("a") ELSE Health("b")]
    BY DevicesAre DEF OnAll
  <2>2. OnAll(Presence) = [i \in DOMAIN Apis |-> IF i = 1 THEN Presence("a") ELSE Presence("b")]
    BY DevicesAre DEF OnAll
  <2>3. CASE s = OnAll(Health)
    <3>1. IsPair(s, Health("a"), Health("b"))
      BY <2>1, <2>3, OnBoth
    <3> QED
      BY <3>1 DEF IsPair
  <2>4. CASE s = OnAll(Presence)
    <3>1. IsPair(s, Presence("a"), Presence("b"))
      BY <2>2, <2>4, OnBoth
    <3> QED
      BY <3>1 DEF IsPair
  <2> QED
    BY <1>10, <2>3, <2>4
<1>11. /\ Step("check", OnAll(Health)).op = "check" /\ IsSeq(Step("check", OnAll(Health)).what, 2)
       /\ Step("wait", OnAll(Presence)).op = "wait" /\ IsSeq(Step("wait", OnAll(Presence)).what, 2)
  <2>1. IsSeq(OnAll(Health), 2) /\ IsSeq(OnAll(Presence), 2)
    BY <1>10
  <2> QED
    BY <1>1, <2>1
<1> QED
  BY <1>2, <1>3, <1>4, <1>5, <1>6, <1>7, <1>8, <1>9, <1>11

LEMMA CommandForms ==
    /\ \A d : /\ ResetRuntime(d).op = "cmd"
              /\ ResetRuntime(d).what = <<Command("resetRuntime", d, d)>>
              /\ CreateGroup(d).op = "cmd" /\ CreateGroup(d).what = <<Command("createGroup", d, d)>>
    /\ \A size : /\ Start(size).op = "pair"
                 /\ IsPair(Start(size).what, Command("startSendTest", "a", size),
                           Command("startSendTest", "b", size))
    /\ Stop.op = "pair"
    /\ IsPair(Stop.what, Command("stopSendTest", "a", 0), Command("stopSendTest", "b", 0))
<1>1. ASSUME NEW d
      PROVE  /\ ResetRuntime(d).op = "cmd"
             /\ ResetRuntime(d).what = <<Command("resetRuntime", d, d)>>
             /\ CreateGroup(d).op = "cmd" /\ CreateGroup(d).what = <<Command("createGroup", d, d)>>
  BY DEF ResetRuntime, CreateGroup, Cmd, Step
<1>2. ASSUME NEW size
      PROVE  /\ Start(size).op = "pair"
             /\ IsPair(Start(size).what, Command("startSendTest", "a", size),
                       Command("startSendTest", "b", size))
  <2> DEFINE x == Command("startSendTest", "a", size)
             y == Command("startSendTest", "b", size)
  <2>1. Start(size).op = "pair" /\ Start(size).what = <<x, y>>
    BY DevicesAre DEF Start, Both, Step
  <2> HIDE DEF x, y
  <2>2. IsPair(Start(size).what, x, y)
    BY <2>1, BothAre
  <2> QED
    BY <2>1, <2>2 DEF x, y
<1>3. /\ Stop.op = "pair"
      /\ IsPair(Stop.what, Command("stopSendTest", "a", 0), Command("stopSendTest", "b", 0))
  <2> DEFINE x == Command("stopSendTest", "a", 0)
             y == Command("stopSendTest", "b", 0)
  <2>1. Stop.op = "pair" /\ Stop.what = <<x, y>>
    BY DevicesAre DEF Stop, Both, Step
  <2> HIDE DEF x, y
  <2>2. IsPair(Stop.what, x, y)
    BY <2>1, BothAre
  <2> QED
    BY <2>1, <2>2 DEF x, y
<1> QED
  BY <1>1, <1>2, <1>3

(* An assessment is about the counters of both devices.                    *)
LEMMA AssessForms ==
    ASSUME NEW kind, NEW size
    PROVE  /\ Assess(kind, size).op = "assess"
           /\ IsPair(Assess(kind, size).what, Events(kind, "a", {size}), Events(kind, "b", {size}))
<1> DEFINE x == Events(kind, "a", {size})
           y == Events(kind, "b", {size})
<1>1. Assess(kind, size).op = "assess" /\ Assess(kind, size).what = <<x, y>>
  BY DevicesAre DEF Assess, Both, Step
<1> HIDE DEF x, y
<1>2. IsPair(Assess(kind, size).what, x, y)
  BY <1>1, BothAre
<1> QED
  BY <1>1, <1>2 DEF x, y

(* What is sent to the coordinator, or read from it.                       *)
LEMMA AddressedForms ==
    /\ \A size : /\ StartPublishing(size).op = "cmd"
                 /\ StartPublishing(size).what = <<Command("startCheckpointTest", First, size)>>
    /\ StopPublishing.op = "cmd"
    /\ StopPublishing.what = <<Command("stopCheckpointTest", First, 0)>>
    /\ AwaitDrained.op = "wait" /\ AwaitDrained.what = <<Shows("drained", First)>>
    /\ CheckCounters.op = "check" /\ CheckCounters.what = <<Shows("counters", First)>>
    /\ AssessDurable.op = "assess" /\ AssessDurable.what = <<Shows("durable", First)>>
<1>1. ASSUME NEW size
      PROVE  /\ StartPublishing(size).op = "cmd"
             /\ StartPublishing(size).what = <<Command("startCheckpointTest", First, size)>>
  BY DEF StartPublishing, AtChosen, Cmd, Step
<1>2. /\ StopPublishing.op = "cmd"
      /\ StopPublishing.what = <<Command("stopCheckpointTest", First, 0)>>
  BY DEF StopPublishing, AtChosen, Cmd, Step
<1>3. AwaitDrained.op = "wait" /\ AwaitDrained.what = <<Shows("drained", First)>>
  BY DEF AwaitDrained, AtChosen, Step
<1>4. CheckCounters.op = "check" /\ CheckCounters.what = <<Shows("counters", First)>>
  BY DEF CheckCounters, AtChosen, Step
<1>5. AssessDurable.op = "assess" /\ AssessDurable.what = <<Shows("durable", First)>>
  BY DEF AssessDurable, AtChosen, Step
<1> QED
  BY <1>1, <1>2, <1>3, <1>4, <1>5

LEMMA AddressedNow ==
    ASSUME Addressed(script[pc]), NEW x, script[pc].what = <<x>>
    PROVE  /\ IsSeq(Now.what, 1) /\ DOMAIN Now.what = 1..1 /\ Len(Now.what) = 1
           /\ Now.what[1] = [x EXCEPT !.on = chosen]
<1>1. PICK op, what : script[pc] = AtChosen(Step(op, what))
  BY DEF Addressed
<1>2. what = <<x>>
  BY <1>1 DEF AtChosen, Step
<1> DEFINE w == [i \in 1..1 |-> [<<x>>[i] EXCEPT !.on = chosen]]
<1>3. Now.what = [i \in DOMAIN what |-> [what[i] EXCEPT !.on = chosen]]
  BY <1>1 DEF Now, Resolved, AtChosen, Step
<1>4. Now.what = w
  BY <1>2, <1>3
<1>5. w[1] = [x EXCEPT !.on = chosen] /\ w = [i \in 1..1 |-> w[i]]
  OBVIOUS
<1> HIDE DEF w
<1>6. IsSeq(w, 1)
  BY <1>5, FunctionIsSeq
<1> QED
  BY <1>4, <1>5, <1>6, SeqDomain

-----------------------------------------------------------------------------
(* Every place by its step.                                                *)

Resetting(i) == i \in {1, 2} /\ script[i] = ResetRuntime(Apis[i])
Preflights(i) ==
    /\ i \in {3, 4}
    /\ script[i] \in {Step("check", OnAll(Health)), Step("wait", OnAll(Presence))}
Handling(i) == i \in 5..(Connected - 1) /\ HandlerStep(script[i], Labels)
Reraising(i) == i = Connected /\ script[i] = Ended(LastLabel)
Selecting(i) ==
    /\ i > Connected /\ i <= LastDrain /\ ~(scenario = "IT-044" /\ i \in 10..13)
    /\ script[i] \in {PeerId(First, Second), PeerId(Second, First), DrainEvents, Step("wait", Links)}
Forming(i) ==
    /\ scenario = "IT-044"
    /\ \/ i = 10 /\ script[i] = CreateGroup("a")
       \/ i = 11 /\ script[i] = CreateGroup("b")
       \/ i = 12 /\ script[i] = WaitGroup
       \/ i = 13 /\ script[i] = PickCoordinator
Between(i) ==
    /\ i > LastDrain /\ ~InPhase(i)
    /\ script[i] \in {StabilityWindow, Watching1, AssertReady, Assess("bandwidth", 0), AssessDurable}
Loading(i) ==
    /\ scenario # "IT-044"
    /\ \/ i \in StartPlaces /\ \E size \in Nat : script[i] = Start(size)
       \/ i - 1 \in StartPlaces /\ script[i] = StabilityWindow
       \/ i - 2 \in StartPlaces /\ script[i] = Stop
       \/ i - 3 \in StartPlaces /\ \E size \in Nat : script[i] = Tally(size)
Publishing(i) ==
    /\ scenario = "IT-044"
    /\ \/ i \in StartPlaces /\ \E size \in Nat : script[i] = StartPublishing(size)
       \/ i - 1 \in StartPlaces /\ script[i] = StopPublishing
       \/ i - 2 \in StartPlaces /\ script[i] = AwaitDrained
       \/ i - 3 \in StartPlaces /\ script[i] = CheckCounters

LEMMA Partition ==
    ASSUME scenario \in Scenarios, NEW i \in 1..Final
    PROVE  \/ Resetting(i) \/ Preflights(i) \/ Handling(i) \/ Reraising(i) \/ Selecting(i)
           \/ Forming(i) \/ Between(i) \/ Loading(i) \/ Publishing(i)
<1>1. ASSUME NEW m \in StartPlaces, i = m \/ i - 1 = m \/ i - 2 = m \/ i - 3 = m
      PROVE  Loading(i) \/ Publishing(i)
  <2>1. m \in Nat
    BY StartsApart
  <2>2. i = m \/ i = m + 1 \/ i = m + 2 \/ i = m + 3
    BY <1>1, <2>1
  <2>3. CASE scenario = "IT-044"
    <3>1. /\ \E size \in Nat : script[m] = StartPublishing(size)
          /\ script[m + 1] = StopPublishing /\ script[m + 2] = AwaitDrained
          /\ script[m + 3] = CheckCounters
      BY <2>3, CheckpointPlaces
    <3> QED
      BY <1>1, <2>2, <2>3, <3>1 DEF Publishing
  <2>4. CASE scenario # "IT-044"
    <3>1. PICK size \in Nat :
             /\ script[m] = Start(size) /\ script[m + 1] = StabilityWindow
             /\ script[m + 2] = Stop /\ script[m + 3] = Tally(size)
      BY <2>4, TrafficPlaces DEF Scenarios
    <3> QED
      BY <1>1, <2>2, <2>4, <3>1 DEF Loading
  <2> QED
    BY <2>3, <2>4
<1>2. CASE InPhase(i)
  BY <1>1, <1>2 DEF InPhase
<1>3. CASE ~InPhase(i) /\ i > LastDrain
  <2>1. CASE i = LastDrain + 1
    BY <1>3, <2>1, Places DEF Between
  <2>2. CASE i # LastDrain + 1
    <3>1. CASE scenario = "IT-044"
      <4>1. i \in 20..Final
        BY <1>3, <2>2, <3>1, Bounds DEF LastDrain
      <4> QED
        BY <1>3, <3>1, <4>1, CheckpointPlaces DEF Between
    <3>2. CASE scenario # "IT-044"
      <4>1. i \in 23..Final
        BY <1>3, <2>2, <3>2, Bounds DEF LastDrain
      <4> QED
        BY <1>3, <3>2, <4>1, TrafficPlaces DEF Between, Scenarios
    <3> QED
      BY <3>1, <3>2
  <2> QED
    BY <2>1, <2>2
<1>4. CASE i <= LastDrain /\ scenario = "IT-044"
  <2>1. \A j \in 1..19 : script[j] = Formed[j]
    BY <1>4, CheckpointPlaces
  <2>2. Connected = 9 /\ LastDrain = 18
    BY <1>4 DEF Connected, LastDrain
  <2>3. i \in 1..4 \/ i \in 5..8 \/ i = 9 \/ i \in 10..13 \/ i \in 14..18
    BY <1>4, <2>2
  <2>4. script[i] = Formed[i]
    BY <1>4, <2>1, <2>2
  <2>5. CASE i \in 1..4
    <3>1. i = 1 \/ i = 2 \/ i = 3 \/ i = 4
      BY <2>5
    <3> QED
      BY <2>4, <3>1, FormedIs, ResetIs, DevicesAre DEF Resetting, Preflights
  <2>6. CASE i \in 5..8
    <3>1. i \in 5..(Connected - 1)
      BY <2>2, <2>6
    <3> QED
      BY <3>1, Places DEF Handling
  <2>7. CASE i = 9
    BY <2>2, <2>7, Places DEF Reraising
  <2>8. CASE i \in 10..13
    <3>1. i = 10 \/ i = 11 \/ i = 12 \/ i = 13
      BY <2>8
    <3> QED
      BY <1>4, <2>4, <3>1, FormedIs DEF Forming
  <2>9. CASE i \in 14..18
    <3>1. i = 14 \/ i = 15 \/ i = 16 \/ i = 17 \/ i = 18
      BY <2>9
    <3>2. i > Connected /\ i <= LastDrain /\ ~(i \in 10..13)
      BY <2>2, <2>9
    <3> QED
      BY <2>4, <3>1, <3>2, FormedIs DEF Selecting
  <2> QED
    BY <2>3, <2>5, <2>6, <2>7, <2>8, <2>9
<1>5. CASE i <= LastDrain /\ scenario # "IT-044"
  <2>1. \A j \in 1..22 : script[j] = Preamble[j]
    BY <1>5, TrafficPlaces DEF Scenarios
  <2>2. Connected = 16 /\ LastDrain = 21
    BY <1>5 DEF Connected, LastDrain
  <2>3. i \in 1..4 \/ i \in 5..15 \/ i = 16 \/ i \in 17..21
    BY <1>5, <2>2
  <2>4. script[i] = Preamble[i]
    BY <1>5, <2>1, <2>2
  <2>5. CASE i \in 1..4
    <3>1. i = 1 \/ i = 2 \/ i = 3 \/ i = 4
      BY <2>5
    <3> QED
      BY <2>4, <3>1, PreambleIs, ResetIs, DevicesAre DEF Resetting, Preflights
  <2>6. CASE i \in 5..15
    <3>1. i \in 5..(Connected - 1)
      BY <2>2, <2>6
    <3> QED
      BY <3>1, Places DEF Handling
  <2>7. CASE i = 16
    BY <2>2, <2>7, Places DEF Reraising
  <2>8. CASE i \in 17..21
    <3>1. i = 17 \/ i = 18 \/ i = 19 \/ i = 20 \/ i = 21
      BY <2>8
    <3>2. i > Connected /\ i <= LastDrain
      BY <2>2, <2>8
    <3> QED
      BY <1>5, <2>4, <3>1, <3>2, PreambleIs DEF Selecting
  <2> QED
    BY <2>3, <2>5, <2>6, <2>7, <2>8
<1> QED
  BY <1>2, <1>3, <1>4, <1>5, Bounds

(* The commands of a step, and the conditions of a poll.                   *)
Commanding == {"cmd", "pair"}
Sampling == {"wait", "check", "if", "window", "note", "pick"}

LEMMA StepIs ==
    ASSUME scenario \in Scenarios, NEW i \in 1..Final
    PROVE  /\ script[i].op = "cmd" => DOMAIN script[i].what = {1}
           /\ script[i].op = "pair" =>
                 /\ DOMAIN script[i].what = {1, 2}
                 /\ scenario # "IT-044" /\ (i \in StartPlaces \/ i - 2 \in StartPlaces)
           /\ script[i].op \in Sampling => Filled(script[i].what)
           /\ script[i].op = "pick" => scenario = "IT-044" /\ i = 13
           /\ script[i].op \notin {"if", "note"}
<1> DEFINE s == script[i]
           Goal == /\ s.op = "cmd" => DOMAIN s.what = {1}
                   /\ s.op = "pair" =>
                         /\ DOMAIN s.what = {1, 2}
                         /\ scenario # "IT-044" /\ (i \in StartPlaces \/ i - 2 \in StartPlaces)
                   /\ s.op \in Sampling => Filled(s.what)
                   /\ s.op = "pick" => scenario = "IT-044" /\ i = 13
                   /\ s.op \notin {"if", "note"}
<1>1. ASSUME NEW w, NEW n \in {1, 2, 4}, IsSeq(w, n) PROVE Filled(w)
  BY <1>1 DEF Filled
<1>2. ASSUME NEW x, NEW y, NEW w, IsPair(w, x, y) PROVE Filled(w) /\ DOMAIN w = {1, 2}
  <2>1. IsSeq(w, 2) /\ DOMAIN w = 1..2
    BY <1>2, Pairwise
  <2>2. 1..2 = {1, 2} /\ 2 \in {1, 2, 4}
    OBVIOUS
  <2>3. Filled(w)
    BY <1>1, <2>1, <2>2
  <2> QED
    BY <2>1, <2>2, <2>3
<1>3. ASSUME NEW x PROVE Filled(<<x>>) /\ DOMAIN <<x>> = {1}
  <2>1. IsSeq(<<x>>, 1) /\ 1 \in {1, 2, 4}
    BY OneStep
  <2>2. Filled(<<x>>)
    BY <1>1, <2>1
  <2> QED
    BY <2>2
<1>4. ASSUME s.op \in {"wait", "check", "window"}, Filled(s.what) PROVE Goal
  BY <1>4
<1>5. ASSUME s.op = "cmd", DOMAIN s.what = {1} PROVE Goal
  BY <1>5 DEF Sampling
<1>6. ASSUME s.op \in {"assess", "reraise"} PROVE Goal
  BY <1>6 DEF Sampling
<1>7. Filled(SelectedReady)
  <2>1. 4 \in {1, 2, 4}
    OBVIOUS
  <2> QED
    BY <1>1, <2>1, SelectedReadyIs
<1>8. Filled(DrainEvents.what)
  BY <1>2, PollForms
<1> SUFFICES Goal
  OBVIOUS
<1> HIDE DEF Goal
<1>9. CASE Resetting(i)
  BY <1>3, <1>5, <1>9, CommandForms DEF Resetting
<1>10. CASE Preflights(i)
  <2>1. 2 \in {1, 2, 4}
    OBVIOUS
  <2> QED
    BY <1>1, <1>4, <1>10, <2>1, PollForms DEF Preflights
<1>11. CASE Handling(i)
  <2>1. HandlerStep(s, Labels)
    BY <1>11 DEF Handling
  <2>2. CASE s.op = "cmd"
    <3>1. PICK c : s.what = <<c>>
      BY <2>1, <2>2 DEF HandlerStep
    <3> QED
      BY <1>3, <1>5, <2>2, <3>1
  <2>3. CASE s.op = "wait"
    <3>1. Filled(s.what)
      BY <2>1, <2>3 DEF HandlerStep
    <3> QED
      BY <1>4, <2>3, <3>1
  <2>4. CASE s.op = "reraise"
    BY <1>6, <2>4
  <2>5. s.op \in {"wait", "cmd", "reraise"}
    BY <2>1 DEF HandlerStep
  <2> QED
    BY <2>2, <2>3, <2>4, <2>5
<1>12. CASE Reraising(i)
  <2>1. s.op = "reraise"
    BY <1>12 DEF Reraising, Ended, At, Step
  <2> QED
    BY <1>6, <2>1
<1>13. CASE Selecting(i)
  <2>1. 1 \in {1, 2, 4} /\ 2 \in {1, 2, 4}
    OBVIOUS
  <2>2. s \in {PeerId(First, Second), PeerId(Second, First), DrainEvents, Step("wait", Links)}
    BY <1>13 DEF Selecting
  <2>3. \A d, e : PeerId(d, e).op = "check" /\ Filled(PeerId(d, e).what)
    BY <1>1, <2>1, PollForms
  <2>4. Step("wait", Links).op = "wait" /\ Filled(Step("wait", Links).what)
    BY <1>1, <2>1, PollForms
  <2>5. DrainEvents.op = "check"
    BY PollForms
  <2> QED
    BY <1>4, <1>8, <2>2, <2>3, <2>4, <2>5
<1>14. CASE Forming(i)
  <2>1. CASE s = CreateGroup("a") \/ s = CreateGroup("b")
    <3>1. PICK d : s = CreateGroup(d)
      BY <2>1
    <3> QED
      BY <1>3, <1>5, <3>1, CommandForms
  <2>2. CASE s = WaitGroup
    <3>1. s.op = "wait" /\ Filled(s.what)
      BY <1>2, <2>2, PollForms
    <3> QED
      BY <1>4, <3>1
  <2>3. CASE i = 13 /\ s = PickCoordinator
    <3>1. s.op = "pick" /\ Filled(s.what) /\ scenario = "IT-044"
      BY <1>2, <1>14, <2>3, PollForms DEF Forming
    <3> QED
      BY <2>3, <3>1 DEF Goal
  <2> QED
    BY <1>14, <2>1, <2>2, <2>3 DEF Forming
<1>15. CASE Between(i)
  <2>1. s \in {StabilityWindow, Watching1, AssertReady, Assess("bandwidth", 0), AssessDurable}
    BY <1>15 DEF Between
  <2>2. CASE s \in {StabilityWindow, Watching1, AssertReady}
    <3>1. s.op \in {"window", "check"} /\ s.what = SelectedReady
      BY <2>2, PollForms
    <3> QED
      BY <1>4, <1>7, <3>1
  <2>3. CASE s = Assess("bandwidth", 0) \/ s = AssessDurable
    <3>1. Assess("bandwidth", 0).op = "assess"
      BY AssessForms
    <3>2. s.op = "assess"
      BY <2>3, <3>1, AddressedForms
    <3> QED
      BY <1>6, <3>2
  <2> QED
    BY <2>1, <2>2, <2>3
<1>16. CASE Loading(i)
  <2>1. CASE s = StabilityWindow
    <3>1. s.op = "window" /\ s.what = SelectedReady
      BY <2>1, PollForms
    <3> QED
      BY <1>4, <1>7, <3>1
  <2>2. CASE \E size \in Nat : s = Tally(size)
    <3>1. PICK size \in Nat : s = Tally(size)
      BY <2>2
    <3>2. \A kind : Assess(kind, size).op = "assess"
      BY AssessForms
    <3>3. s.op = "assess"
      BY <3>1, <3>2 DEF Tally
    <3> QED
      BY <1>6, <3>3
  <2>3. CASE (i \in StartPlaces /\ \E size \in Nat : s = Start(size)) \/ (i - 2 \in StartPlaces /\ s = Stop)
    <3>1. s.op = "pair" /\ \E x, y : IsPair(s.what, x, y)
      BY <2>3, CommandForms
    <3>2. DOMAIN s.what = {1, 2}
      BY <1>2, <3>1
    <3>3. scenario # "IT-044" /\ (i \in StartPlaces \/ i - 2 \in StartPlaces)
      BY <1>16, <2>3 DEF Loading
    <3> QED
      BY <3>1, <3>2, <3>3 DEF Goal, Sampling
  <2> QED
    BY <1>16, <2>1, <2>2, <2>3 DEF Loading
<1>17. CASE Publishing(i)
  <2>1. CASE (\E size \in Nat : s = StartPublishing(size)) \/ s = StopPublishing
    <3>1. PICK c : s.op = "cmd" /\ s.what = <<c>>
      BY <2>1, AddressedForms
    <3> QED
      BY <1>3, <1>5, <3>1
  <2>2. CASE s = AwaitDrained \/ s = CheckCounters
    <3>1. s.op \in {"wait", "check"} /\ \E x : s.what = <<x>>
      BY <2>2, AddressedForms
    <3>2. Filled(s.what)
      BY <1>3, <3>1
    <3> QED
      BY <1>4, <3>1, <3>2
  <2> QED
    BY <1>17, <2>1, <2>2 DEF Publishing
<1> QED
  BY <1>9, <1>10, <1>11, <1>12, <1>13, <1>14, <1>15, <1>16, <1>17, Partition

-----------------------------------------------------------------------------
(* How the place moves.                                                    *)

(* The futures a step opens.                                               *)
Slots(s) == IF s.op \in Commanding THEN DOMAIN s.what ELSE {}

(* Past the handlers of the connection an exception waits only in a pair   *)
(* for the other future.                                                   *)
FlowInv ==
    /\ scenario \in Scenarios /\ pc \in 1..Final
    /\ sample \in Nat
    /\ script[pc].op \in Sampling => sample <= Len(script[pc].what)
    /\ sample = 0 => script[pc].op \in {"wait", "window"}
    /\ open \subseteq Slots(script[pc])
    /\ raised \in {"no", "failed", "crashed"}
    /\ outcome \in {"running", "passed", "failed", "crashed"}
    /\ outcome = "passed" => pc = Final
    /\ outcome \in {"running", "passed"} /\ pc > Connected /\ raised # "no"
          => outcome = "running" /\ script[pc].op = "pair"
    /\ faults \in Nat /\ flaps \in Nat

Keeps == UNCHANGED <<scenario, pc, chosen, raised, outcome>>

Advances ==
    /\ pc < Final /\ pc' = pc + 1 /\ sample' = 1 /\ open' = Slots(script[pc + 1])
    /\ UNCHANGED <<scenario, chosen, raised, outcome>>

Passes ==
    /\ pc = Final /\ outcome' = "passed" /\ sample' = 1 /\ open' = {}
    /\ UNCHANGED <<scenario, pc, chosen, raised>>

Handles(how) ==
    /\ pc \in 5..(Connected - 1) /\ pc' \in 5..Connected
    /\ sample' = 1 /\ open' = Slots(script[pc']) /\ raised' \in {"no", raised, how}
    /\ UNCHANGED <<scenario, chosen, outcome>>

Fails(how) ==
    /\ outcome' = how /\ sample' = 1 /\ open' = {}
    /\ UNCHANGED <<scenario, pc, chosen, raised>>

LEMMA GotoMoves ==
    ASSUME FlowInv, outcome = "running", Goto(Now.then)
    PROVE  Advances \/ Passes \/ Handles("no")
<1>1. scenario \in Scenarios /\ pc \in 1..Final
  BY DEF FlowInv
<1>2. Len(script) = Final /\ Final \in Nat /\ Connected \in {9, 16} /\ LastDrain > Connected
  BY <1>1, Bounds
<1>3. Now.then = script[pc].then
  BY <1>1, NowIs
<1>4. ASSUME NEW j, Enter(j), UNCHANGED raised
      PROVE  /\ pc' = j /\ sample' = 1 /\ open' = Slots(script[j])
             /\ UNCHANGED <<scenario, chosen, outcome, raised>>
  BY <1>4 DEF Enter, Slots, Commanding
<1>5. CASE pc < 5 \/ pc >= Connected
  <2>1. script[pc].then = "next"
    <3>1. CASE pc = Connected
      <4>1. Linear(script[Connected])
        BY <1>1, Places, LinearSteps
      <4> QED
        BY <3>1, <4>1 DEF Linear
    <3>2. CASE pc # Connected
      <4>1. pc < 5 \/ pc > Connected
        BY <1>1, <1>2, <1>5, <3>2
      <4> QED
        BY <1>1, <4>1, LabelsElsewhere DEF Linear
    <3> QED
      BY <3>1, <3>2
  <2>2. CASE pc = Final
    <3>1. End("passed")
      BY <1>2, <1>3, <2>1, <2>2 DEF Goto
    <3> QED
      BY <2>2, <3>1 DEF End, Passes
  <2>3. CASE pc # Final
    <3>1. Enter(pc + 1) /\ UNCHANGED raised
      BY <1>2, <1>3, <2>1, <2>3 DEF Goto
    <3>2. pc < Final
      BY <1>1, <1>2, <2>3
    <3> QED
      BY <1>4, <3>1, <3>2 DEF Advances
  <2> QED
    BY <2>2, <2>3
<1>6. CASE ~(pc < 5 \/ pc >= Connected)
  <2>1. pc \in 5..(Connected - 1) /\ pc + 1 \in 5..Connected /\ pc < Final
    BY <1>1, <1>2, <1>6, Bounds
  <2>2. HandlerStep(script[pc], Labels)
    BY <1>1, <2>1, Places
  <2>3. script[pc].then \in Labels \cup {"next"} /\ "end" \notin Labels /\ "next" \notin Labels
    BY <2>2 DEF HandlerStep, Labels, EnsureLabels, ConnectLabels
  <2>4. CASE script[pc].then = "next"
    <3>1. Enter(pc + 1) /\ UNCHANGED raised
      BY <1>2, <1>3, <2>1, <2>4 DEF Goto
    <3> QED
      BY <1>4, <2>1, <3>1 DEF Handles
  <2>5. CASE script[pc].then # "next"
    <3> DEFINE j == Jump(script[pc].then)
    <3>1. script[pc].then \in Labels
      BY <2>3, <2>5
    <3>2. Enter(j) /\ UNCHANGED raised
      BY <1>3, <2>3, <2>5 DEF Goto
    <3>3. j \in 5..Connected
      BY <1>1, <3>1, JumpIs
    <3> HIDE DEF j
    <3> QED
      BY <1>4, <2>1, <3>2, <3>3 DEF Handles
  <2> QED
    BY <2>4, <2>5
<1> QED
  BY <1>5, <1>6

LEMMA RaiseMoves ==
    ASSUME FlowInv, outcome = "running", NEW how \in {"failed", "crashed"}, Raise(how)
    PROVE  Fails(how) \/ Handles(how)
<1>1. scenario \in Scenarios /\ pc \in 1..Final
  BY DEF FlowInv
<1>2. Final \in Nat /\ Connected \in {9, 16}
  BY <1>1, Bounds
<1>3. Now.onFail = script[pc].onFail /\ Now.onCrash = script[pc].onCrash
  BY <1>1, NowIs
<1>4. ASSUME End(how) PROVE Fails(how)
  BY <1>4 DEF End, Fails
<1>5. CASE pc < 5 \/ pc >= Connected
  <2>1. script[pc].onFail = "end" /\ script[pc].onCrash = "end"
    <3>1. CASE pc = Connected
      <4>1. Linear(script[Connected])
        BY <1>1, Places, LinearSteps
      <4> QED
        BY <3>1, <4>1 DEF Linear
    <3>2. CASE pc # Connected
      <4>1. pc < 5 \/ pc > Connected
        BY <1>1, <1>2, <1>5, <3>2
      <4> QED
        BY <1>1, <4>1, LabelsElsewhere DEF Linear
    <3> QED
      BY <3>1, <3>2
  <2>2. End(how)
    BY <1>3, <2>1 DEF Raise
  <2> QED
    BY <1>4, <2>2
<1>6. CASE ~(pc < 5 \/ pc >= Connected)
  <2>1. pc \in 5..(Connected - 1)
    BY <1>1, <1>2, <1>6
  <2>2. HandlerStep(script[pc], Labels)
    BY <1>1, <2>1, Places
  <2>3. script[pc].onFail \in Labels \cup {"end"} /\ script[pc].onCrash = "end" /\ "end" \notin Labels
    BY <2>2 DEF HandlerStep, Labels, EnsureLabels, ConnectLabels
  <2>4. CASE how = "crashed" \/ script[pc].onFail = "end"
    <3>1. End(how)
      BY <1>3, <2>3, <2>4 DEF Raise
    <3> QED
      BY <1>4, <3>1
  <2>5. CASE ~(how = "crashed" \/ script[pc].onFail = "end")
    <3> DEFINE j == Jump(script[pc].onFail)
    <3>1. script[pc].onFail \in Labels
      BY <2>3, <2>5
    <3>2. Enter(j) /\ raised' \in {"no", raised, how}
      BY <1>3, <2>5 DEF Raise
    <3>3. j \in 5..Connected
      BY <1>1, <3>1, JumpIs
    <3> HIDE DEF j
    <3>4. /\ pc' = j /\ sample' = 1 /\ open' = Slots(script[j])
          /\ UNCHANGED <<scenario, chosen, outcome>>
      BY <3>2 DEF Enter, Slots, Commanding
    <3> QED
      BY <2>1, <3>2, <3>3, <3>4 DEF Handles
  <2> QED
    BY <2>4, <2>5
<1> QED
  BY <1>5, <1>6

(* One of the futures of a pair has its result, and the other does not.    *)
Waits(i, how) ==
    /\ script[pc].op = "pair" /\ open' = open \ {i} /\ open # {i}
    /\ raised' = IF how = "ok" \/ raised # "no" THEN raised ELSE how
    /\ UNCHANGED <<scenario, pc, sample, chosen, outcome>>

LEMMA SettleMoves ==
    ASSUME FlowInv, outcome = "running", script[pc].op \in Commanding,
           NEW i \in open, NEW how \in {"ok", "failed", "crashed"}, Settle(i, how)
    PROVE  \/ Waits(i, how)
           \/ /\ how = "ok" /\ open = {i} /\ (pc > Connected => raised = "no")
              /\ Advances \/ Passes \/ Handles("no")
           \/ \E h \in {how, raised} \ {"ok", "no"} : Fails(h) \/ Handles(h)
<1>1. scenario \in Scenarios /\ pc \in 1..Final /\ raised \in {"no", "failed", "crashed"}
  BY DEF FlowInv
<1>2. Now.op = script[pc].op
  BY <1>1, NowIs
<1>3. open \subseteq DOMAIN script[pc].what
  BY DEF FlowInv, Slots
<1>4. CASE open # {i}
  <2>1. script[pc].op # "cmd"
    <3>1. ASSUME script[pc].op = "cmd" PROVE FALSE
      <4>1. open \subseteq {1}
        BY <1>1, <1>3, <3>1, StepIs
      <4> QED
        BY <1>4, <4>1
    <3> QED
      BY <3>1
  <2>2. script[pc].op = "pair"
    BY <2>1 DEF Commanding
  <2> QED
    BY <1>4, <2>2 DEF Settle, Waits
<1>5. CASE open = {i}
  <2>1. CASE how # "ok"
    <3>1. Raise(how) /\ how \in {"failed", "crashed"}
      BY <1>5, <2>1 DEF Settle
    <3>2. Fails(how) \/ Handles(how)
      BY <3>1, RaiseMoves
    <3> QED
      BY <2>1, <3>1, <3>2
  <2>2. CASE how = "ok" /\ script[pc].op = "pair" /\ raised # "no"
    <3>1. Raise(raised) /\ raised \in {"failed", "crashed"}
      BY <1>1, <1>2, <1>5, <2>2 DEF Settle
    <3>2. Fails(raised) \/ Handles(raised)
      BY <3>1, RaiseMoves
    <3> QED
      BY <3>1, <3>2
  <2>3. CASE how = "ok" /\ ~(script[pc].op = "pair" /\ raised # "no")
    <3>1. Goto(Now.then)
      BY <1>2, <1>5, <2>3 DEF Settle
    <3>2. Advances \/ Passes \/ Handles("no")
      BY <3>1, GotoMoves
    <3>3. pc > Connected => raised = "no"
      BY <2>3 DEF FlowInv
    <3> QED
      BY <1>5, <2>3, <3>2, <3>3
  <2> QED
    BY <2>1, <2>2, <2>3
<1> QED
  BY <1>4, <1>5

(* The scenario being fixed, so is its script.                             *)
LEMMA Frozen ==
    ASSUME scenario' = scenario
    PROVE  /\ script' = script /\ Final' = Final /\ Connected' = Connected /\ LastDrain' = LastDrain
           /\ StartPlaces' = StartPlaces
BY DEF script, Final, Connected, LastDrain, StartPlaces, Phases

LEMMA SamplesFilled ==
    ASSUME scenario \in Scenarios, NEW i \in 1..Final, script[i].op \in Sampling
    PROVE  Len(script[i].what) \in Nat \ {0}
<1>1. PICK n \in Nat \ {0} : IsSeq(script[i].what, n)
  BY StepIs DEF Filled
<1> QED
  BY <1>1, SeqDomain

LEMMA FlowKept ==
    ASSUME FlowInv, Keeps, open' \subseteq open, sample' \in Nat,
           script[pc].op \in Sampling => sample' <= Len(script[pc].what),
           sample' = 0 => script[pc].op \in {"wait", "window"},
           faults' \in Nat, flaps' \in Nat
    PROVE  FlowInv'
<1>1. UNCHANGED <<scenario, pc, chosen, raised, outcome>>
  BY DEF Keeps
<1>2. script' = script /\ Final' = Final /\ Connected' = Connected
  BY <1>1, Frozen
<1> QED
  BY <1>1, <1>2 DEF FlowInv, Slots

(* A wait of a pair for its other future.                                  *)
LEMMA FlowWaits ==
    ASSUME FlowInv, outcome = "running", NEW i, NEW how \in {"ok", "failed", "crashed"},
           Waits(i, how), faults' \in Nat, flaps' \in Nat
    PROVE  FlowInv'
<1>1. UNCHANGED <<scenario, pc, sample, chosen, outcome>> /\ script[pc].op = "pair"
      /\ open' \subseteq open /\ raised' \in {"no", "failed", "crashed"}
  BY DEF Waits, FlowInv
<1>2. script' = script /\ Final' = Final /\ Connected' = Connected
  BY <1>1, Frozen
<1> QED
  BY <1>1, <1>2 DEF FlowInv, Slots

LEMMA FlowMoved ==
    ASSUME FlowInv, outcome = "running", NEW how \in {"failed", "crashed"}, NEW any \in {"no", "failed", "crashed"},
           \/ (Advances \/ Passes) /\ (pc >= Connected => raised = "no")
           \/ Handles(any) \/ Fails(how),
           faults' \in Nat, flaps' \in Nat
    PROVE  FlowInv'
<1>1. /\ scenario \in Scenarios /\ pc \in 1..Final
      /\ raised \in {"no", "failed", "crashed"}
  BY DEF FlowInv
<1>2. Connected \in {9, 16} /\ Final \in Nat /\ Final > Connected
  BY <1>1, Bounds
<1>3. scenario' = scenario
  BY DEF Advances, Passes, Handles, Fails
<1>4. script' = script /\ Final' = Final /\ Connected' = Connected
  BY <1>3, Frozen
<1>5. CASE Advances /\ (pc >= Connected => raised = "no")
  <2>1. /\ pc < Final /\ pc' = pc + 1 /\ sample' = 1 /\ open' = Slots(script[pc + 1])
        /\ UNCHANGED <<scenario, chosen, raised, outcome>>
    BY <1>5 DEF Advances
  <2>2. pc + 1 \in 1..Final
    BY <1>1, <1>2, <2>1
  <2>3. script[pc + 1].op \in Sampling => sample' <= Len(script[pc + 1].what)
    BY <1>1, <2>1, <2>2, SamplesFilled
  <2>4. pc + 1 > Connected => raised = "no"
    BY <1>1, <1>2, <1>5
  <2>5. open' \subseteq Slots(script'[pc'])
    BY <1>4, <2>1
  <2> QED
    BY <1>1, <1>3, <1>4, <2>1, <2>2, <2>3, <2>4, <2>5 DEF FlowInv, Slots
<1>6. CASE Passes /\ (pc >= Connected => raised = "no")
  <2>1. /\ pc = Final /\ outcome' = "passed" /\ sample' = 1 /\ open' = {}
        /\ UNCHANGED <<scenario, pc, chosen, raised>>
    BY <1>6 DEF Passes
  <2>2. raised = "no"
    BY <1>2, <1>6, <2>1
  <2>3. script[pc].op \in Sampling => sample' <= Len(script[pc].what)
    BY <1>1, <2>1, SamplesFilled
  <2> QED
    BY <1>1, <1>3, <1>4, <2>1, <2>2, <2>3 DEF FlowInv
<1>7. CASE Handles(any)
  <2>1. /\ pc' \in 5..Connected /\ sample' = 1 /\ open' = Slots(script[pc'])
        /\ raised' \in {"no", "failed", "crashed"} /\ UNCHANGED <<scenario, chosen, outcome>>
    BY <1>1, <1>7 DEF Handles
  <2>2. pc' \in 1..Final /\ ~(pc' > Connected)
    BY <1>2, <2>1
  <2>3. script[pc'].op \in Sampling => sample' <= Len(script[pc'].what)
    <3>1. PICK j : j = pc'
      OBVIOUS
    <3>2. script[j].op \in Sampling => 1 <= Len(script[j].what)
      BY <1>1, <2>2, <3>1, SamplesFilled
    <3> QED
      BY <2>1, <3>1, <3>2
  <2>4. open' \subseteq Slots(script'[pc'])
    BY <1>4, <2>1
  <2> QED
    BY <1>1, <1>3, <1>4, <2>1, <2>2, <2>3, <2>4 DEF FlowInv, Slots
<1>8. CASE Fails(how)
  <2>1. outcome' = how /\ sample' = 1 /\ open' = {} /\ UNCHANGED <<scenario, pc, chosen, raised>>
    BY <1>8 DEF Fails
  <2>2. script[pc].op \in Sampling => sample' <= Len(script[pc].what)
    BY <1>1, <2>1, SamplesFilled
  <2> QED
    BY <1>1, <1>3, <1>4, <2>1, <2>2 DEF FlowInv
<1> QED
  BY <1>5, <1>6, <1>7, <1>8

(* The step that is run lists as much as the script says.                  *)
LEMMA NowWhat ==
    ASSUME scenario \in Scenarios, pc \in 1..Final, NEW n, IsSeq(script[pc].what, n)
    PROVE  /\ n \in Nat /\ IsSeq(Now.what, n) /\ DOMAIN Now.what = 1..n
           /\ Len(Now.what) = n /\ Len(script[pc].what) = n
<1>1. n \in Nat /\ DOMAIN script[pc].what = 1..n /\ Len(script[pc].what) = n
  BY SeqDomain
<1>2. CASE Addressed(script[pc])
  <2>1. PICK op, what : script[pc] = AtChosen(Step(op, what))
    BY <1>2 DEF Addressed
  <2> DEFINE w == Now.what
  <2>2. w = [i \in DOMAIN what |-> [what[i] EXCEPT !.on = chosen]] /\ script[pc].what = what
    BY <2>1 DEF Now, Resolved, AtChosen, Step
  <2> HIDE DEF w
  <2>3. w = [i \in 1..n |-> w[i]]
    BY <1>1, <2>2
  <2>4. IsSeq(w, n)
    BY <1>1, <2>3, FunctionIsSeq
  <2>5. DOMAIN w = 1..n /\ Len(w) = n
    BY <2>4, SeqDomain
  <2> QED
    BY <1>1, <2>4, <2>5 DEF w
<1>3. CASE ~Addressed(script[pc])
  <2>1. Now = script[pc]
    BY <1>3, NowIs
  <2> QED
    BY <1>1, <2>1
<1> QED
  BY <1>2, <1>3

(* What a sample of a condition does.                                      *)
Verdicts == Verdict(Condition, Seen(Condition))
SampleReads == IF Condition.kind \in EventKinds THEN Reading(Condition) ELSE UNCHANGED feedVars

LEMMA SampleMoves ==
    ASSUME FlowInv, Sample(Seen(Condition), rest)
    PROVE  /\ outcome = "running" /\ script[pc].op \in {"wait", "check", "window"}
           /\ sample \in DOMAIN Now.what /\ sample \in 1..Len(script[pc].what)
           /\ SampleReads /\ UNCHANGED <<rest, faults, late>>
           /\ pc # Connected /\ (pc > Connected => raised = "no")
           /\ \/ /\ Verdicts = "yes" /\ sample < Len(script[pc].what)
                 /\ Keeps /\ sample' = sample + 1 /\ open' = open
              \/ Keeps /\ sample' = 0 /\ open' = open /\ script[pc].op \in {"wait", "window"}
              \/ /\ Verdicts = "yes" /\ sample = Len(script[pc].what)
                 /\ Advances \/ Passes \/ Handles("no")
              \/ Fails("failed") \/ Handles("failed")
<1>1. scenario \in Scenarios /\ pc \in 1..Final /\ sample \in Nat
  BY DEF FlowInv
<1>2. Now.op = script[pc].op
  BY <1>1, NowIs
<1>3. /\ outcome = "running" /\ script[pc].op \in {"wait", "check", "if", "window"} /\ sample > 0
      /\ SampleReads /\ UNCHANGED <<rest, faults, late>>
  BY <1>2 DEF Sample, Busy, SampleReads
<1>4. script[pc].op \in {"wait", "check", "window"} /\ script[pc].op \in Sampling
  BY <1>1, <1>3, StepIs DEF Sampling
<1>5. PICK n \in Nat \ {0} : IsSeq(script[pc].what, n)
  BY <1>1, <1>4, StepIs DEF Filled
<1>6. /\ DOMAIN Now.what = 1..n /\ Len(Now.what) = n /\ Len(script[pc].what) = n
  BY <1>1, <1>5, NowWhat
<1>7. sample <= n
  BY <1>4, <1>6 DEF FlowInv
<1>8. sample \in DOMAIN Now.what /\ sample \in 1..Len(script[pc].what)
  BY <1>1, <1>3, <1>6, <1>7
<1>9. pc # Connected /\ (pc > Connected => raised = "no")
  <2>1. script[Connected].op = "reraise"
    <3>1. script[Connected] = Ended(LastLabel)
      BY <1>1, Places
    <3> QED
      BY <3>1 DEF Ended, At, Step
  <2>2. pc # Connected
    BY <1>4, <2>1
  <2>3. script[pc].op # "pair"
    BY <1>4
  <2> QED
    BY <1>3, <2>2, <2>3 DEF FlowInv
<1>10. \/ /\ Verdicts = "yes" /\ sample < Len(script[pc].what)
          /\ Keeps /\ sample' = sample + 1 /\ open' = open
       \/ Keeps /\ sample' = 0 /\ open' = open /\ script[pc].op \in {"wait", "window"}
       \/ Verdicts = "yes" /\ sample = Len(script[pc].what) /\ Goto(Now.then)
       \/ Raise("failed")
  BY <1>2, <1>4, <1>6 DEF Sample, Verdicts, Keeps
<1>11. ASSUME Raise("failed") PROVE Fails("failed") \/ Handles("failed")
  <2>1. PICK how \in {"failed", "crashed"} : how = "failed"
    OBVIOUS
  <2>2. Raise(how)
    BY <1>11, <2>1
  <2>3. Fails(how) \/ Handles(how)
    BY <1>3, <2>2, RaiseMoves
  <2> QED
    BY <2>1, <2>3
<1>12. ASSUME Goto(Now.then) PROVE Advances \/ Passes \/ Handles("no")
  BY <1>3, <1>12, GotoMoves
<1> QED
  BY <1>3, <1>4, <1>8, <1>9, <1>10, <1>11, <1>12

-----------------------------------------------------------------------------
(* The other steps of the runner.                                          *)

FoundLeader == IF chosen = "none" /\ Seen(Condition) THEN Condition.on ELSE chosen

LEMMA PickMoves ==
    ASSUME FlowInv, Pick(Seen(Condition), rest)
    PROVE  /\ outcome = "running" /\ scenario = "IT-044" /\ pc = 13 /\ raised = "no"
           /\ UNCHANGED <<rest, feedVars, faults, late>>
           /\ sample \in {1, 2}
           /\ Condition = Shows("leads", IF sample = 1 THEN "a" ELSE "b")
           /\ \/ /\ sample = 1 /\ chosen' = FoundLeader /\ sample' = 2
                 /\ UNCHANGED <<scenario, pc, open, raised, outcome>>
              \/ sample = 2 /\ FoundLeader = "none" /\ Fails("crashed")
              \/ /\ sample = 2 /\ FoundLeader # "none" /\ chosen' = FoundLeader
                 /\ pc' = 14 /\ sample' = 1 /\ open' = {}
                 /\ UNCHANGED <<scenario, raised, outcome>>
<1>1. scenario \in Scenarios /\ pc \in 1..Final /\ sample \in Nat
  BY DEF FlowInv
<1>2. Now.op = script[pc].op
  BY <1>1, NowIs
<1>3. outcome = "running" /\ script[pc].op = "pick" /\ UNCHANGED <<rest, feedVars, faults, late>>
  BY <1>2 DEF Pick, Busy
<1>4. scenario = "IT-044" /\ pc = 13
  BY <1>1, <1>3, StepIs
<1>5. Connected = 9 /\ LastDrain = 18 /\ Final > 19
  BY <1>4, CheckpointPlaces DEF Connected, LastDrain
<1>6. script[13] = PickCoordinator /\ script[14] = DrainEvents
  BY <1>4, CheckpointPlaces, FormedIs
<1>7. Now = PickCoordinator
  <2>1. Plain(script[13])
    BY <1>6, PlainSteps
  <2>2. ~Addressed(script[pc])
    BY <1>4, <2>1, LinearSteps
  <2> QED
    BY <1>1, <1>4, <1>6, <2>2, NowIs
<1>8. /\ Len(Now.what) = 2 /\ Now.what[1] = Shows("leads", "a") /\ Now.what[2] = Shows("leads", "b")
  BY <1>7, PollForms, Pairwise
<1>9. sample \in {1, 2}
  <2>1. script[pc].what = Now.what
    BY <1>4, <1>6, <1>7
  <2>2. sample <= 2
    BY <1>3, <1>8, <2>1 DEF FlowInv, Sampling
  <2>3. sample # 0
    BY <1>3 DEF FlowInv
  <2> QED
    BY <1>1, <2>2, <2>3
<1>10. Condition = Shows("leads", IF sample = 1 THEN "a" ELSE "b")
  BY <1>8, <1>9 DEF Condition
<1>11. raised = "no"
  BY <1>3, <1>4, <1>5 DEF FlowInv
<1>12. CASE sample = 1
  <2>1. /\ chosen' = FoundLeader /\ sample' = sample + 1
        /\ UNCHANGED <<scenario, pc, open, raised, outcome>>
    BY <1>8, <1>12 DEF Pick, FoundLeader
  <2> QED
    BY <1>3, <1>4, <1>9, <1>10, <1>11, <1>12, <2>1
<1>13. CASE sample = 2 /\ FoundLeader = "none"
  <2>1. Raise("crashed")
    BY <1>8, <1>13 DEF Pick, FoundLeader
  <2>2. Now.onCrash = "end"
    BY <1>1, <1>4, <1>5, <1>7, PlainSteps, LinearSteps DEF Linear
  <2>3. Fails("crashed")
    BY <2>1, <2>2 DEF Raise, End, Fails
  <2> QED
    BY <1>3, <1>4, <1>9, <1>10, <1>11, <1>13, <2>3
<1>14. CASE sample = 2 /\ FoundLeader # "none"
  <2>1. /\ chosen' = FoundLeader /\ pc' = pc + 1 /\ sample' = 1
        /\ open' = IF script[pc + 1].op = "cmd" THEN {1} ELSE {}
        /\ UNCHANGED <<scenario, raised, outcome>>
    BY <1>8, <1>14 DEF Pick, FoundLeader
  <2>2. pc + 1 = 14 /\ script[14].op = "check"
    BY <1>4, <1>6, PollForms
  <2> QED
    BY <1>3, <1>4, <1>9, <1>10, <1>11, <1>14, <2>1, <2>2
<1> QED
  BY <1>9, <1>12, <1>13, <1>14

(* An exception that was caught or a window that is over.                  *)
LEMMA ReraiseMoves ==
    ASSUME FlowInv, Reraise(rest)
    PROVE  /\ outcome = "running" /\ pc \in 5..Connected
           /\ UNCHANGED <<rest, feedVars, faults, late>>
           /\ \/ raised = "no" /\ (Advances \/ Passes \/ Handles("no"))
              \/ raised # "no" /\ (Fails(raised) \/ Handles(raised))
<1>1. scenario \in Scenarios /\ pc \in 1..Final /\ raised \in {"no", "failed", "crashed"}
  BY DEF FlowInv
<1>2. Now.op = script[pc].op
  BY <1>1, NowIs
<1>3. outcome = "running" /\ script[pc].op = "reraise" /\ UNCHANGED <<rest, feedVars, faults, late>>
  BY <1>2 DEF Reraise, Busy
<1>4. pc \in 5..Connected
  <2> DEFINE s == script[pc]
  <2>1. Handling(pc) \/ Reraising(pc) => pc \in 5..Connected
    BY <1>1, Bounds DEF Handling, Reraising
  <2>2. ASSUME Resetting(pc) \/ Preflights(pc) \/ Selecting(pc) PROVE FALSE
    <3>1. s \in {PeerId(First, Second), PeerId(Second, First), DrainEvents, Step("wait", Links)}
          \/ s = ResetRuntime(Apis[pc])
          \/ s \in {Step("check", OnAll(Health)), Step("wait", OnAll(Presence))}
      BY <2>2 DEF Resetting, Preflights, Selecting
    <3>2. s.op \in {"check", "wait", "cmd"}
      BY <3>1, PollForms, CommandForms
    <3> QED
      BY <1>3, <3>2
  <2>3. ASSUME Forming(pc) PROVE FALSE
    <3>1. s = CreateGroup("a") \/ s = CreateGroup("b") \/ s = WaitGroup \/ s = PickCoordinator
      BY <2>3 DEF Forming
    <3>2. s.op \in {"wait", "cmd", "pick"}
      BY <3>1, PollForms, CommandForms
    <3> QED
      BY <1>3, <3>2
  <2>4. ASSUME Between(pc) PROVE FALSE
    <3>1. s \in {StabilityWindow, Watching1, AssertReady, Assess("bandwidth", 0), AssessDurable}
      BY <2>4 DEF Between
    <3>2. Assess("bandwidth", 0).op = "assess"
      BY AssessForms
    <3>3. s.op \in {"window", "check", "assess"}
      BY <3>1, <3>2, PollForms, AddressedForms
    <3> QED
      BY <1>3, <3>3
  <2>5. ASSUME Loading(pc) PROVE FALSE
    <3>1. (\E size \in Nat : s = Start(size) \/ s = Tally(size)) \/ s = Stop \/ s = StabilityWindow
      BY <2>5 DEF Loading
    <3>2. \A size : Tally(size).op = "assess"
      BY AssessForms DEF Tally
    <3>3. s.op \in {"window", "pair", "assess"}
      BY <3>1, <3>2, PollForms, CommandForms
    <3> QED
      BY <1>3, <3>3
  <2>6. ASSUME Publishing(pc) PROVE FALSE
    <3>1. (\E size \in Nat : s = StartPublishing(size)) \/ s \in {StopPublishing, AwaitDrained, CheckCounters}
      BY <2>6 DEF Publishing
    <3>2. s.op \in {"cmd", "wait", "check"}
      BY <3>1, AddressedForms
    <3> QED
      BY <1>3, <3>2
  <2> QED
    BY <1>1, <2>1, <2>2, <2>3, <2>4, <2>5, <2>6, Partition
<1>5. CASE raised = "no"
  <2>1. Goto(Now.then)
    BY <1>5 DEF Reraise
  <2>2. Advances \/ Passes \/ Handles("no")
    BY <1>3, <2>1, GotoMoves
  <2> QED
    BY <1>3, <1>4, <1>5, <2>2
<1>6. CASE raised # "no"
  <2>1. Raise(raised) /\ raised \in {"failed", "crashed"}
    BY <1>1, <1>6 DEF Reraise
  <2>2. Fails(raised) \/ Handles(raised)
    BY <1>3, <2>1, RaiseMoves
  <2> QED
    BY <1>3, <1>4, <1>6, <2>2
<1> QED
  BY <1>5, <1>6

(* A step that is not a pair has no exception waiting.                     *)
LEMMA NotWaiting ==
    ASSUME FlowInv, outcome = "running", script[pc].op \notin {"pair", "reraise"}
    PROVE  pc >= Connected => raised = "no"
<1>1. scenario \in Scenarios /\ pc \in 1..Final
  BY DEF FlowInv
<1>2. script[Connected].op = "reraise"
  <2>1. script[Connected] = Ended(LastLabel)
    BY <1>1, Places
  <2> QED
    BY <2>1 DEF Ended, At, Step
<1>3. pc # Connected
  BY <1>2
<1>4. pc > Connected => raised = "no"
  BY DEF FlowInv
<1> QED
  BY <1>1, <1>3, <1>4, Bounds

FailsOrHandles == \E how \in {"failed", "crashed"} : Fails(how) \/ Handles(how)

LEMMA ReadFailsMoves ==
    ASSUME FlowInv, ReadFails(EndpointReads, rest)
    PROVE  /\ outcome = "running" /\ faults' = faults + 1 /\ UNCHANGED <<rest, feedVars, late>>
           /\ FailsOrHandles
<1>1. /\ outcome = "running" /\ faults' = faults + 1 /\ UNCHANGED <<rest, feedVars, late>>
  BY DEF ReadFails, Busy, Fault
<1>2. PICK how \in {"failed", "crashed"} : Raise(how)
  BY DEF ReadFails
<1> QED
  BY <1>1, <1>2, RaiseMoves DEF FailsOrHandles

LEMMA DeadlineMoves ==
    ASSUME FlowInv, DeadlinePassed(rest)
    PROVE  /\ outcome = "running" /\ UNCHANGED <<rest, feedVars, faults, late>>
           /\ \E how \in {"failed"} : Fails(how) \/ Handles(how)
<1>1. outcome = "running" /\ UNCHANGED <<rest, feedVars, faults, late>> /\ Raise("failed")
  BY DEF DeadlinePassed, Busy
<1>2. PICK how \in {"failed", "crashed"} : how = "failed" /\ Raise(how)
  BY <1>1
<1>3. Fails(how) \/ Handles(how)
  BY <1>1, <1>2, RaiseMoves
<1> QED
  BY <1>1, <1>2, <1>3

LEMMA WindowMoves ==
    ASSUME FlowInv, WindowEnds(rest)
    PROVE  /\ outcome = "running" /\ script[pc].op = "window" /\ UNCHANGED <<rest, feedVars, faults, late>>
           /\ Advances \/ Passes \/ Handles("no")
           /\ pc >= Connected => raised = "no"
<1>1. scenario \in Scenarios /\ pc \in 1..Final
  BY DEF FlowInv
<1>2. Now.op = script[pc].op
  BY <1>1, NowIs
<1>3. /\ outcome = "running" /\ script[pc].op = "window" /\ Goto(Now.then)
      /\ UNCHANGED <<rest, feedVars, faults, late>>
  BY <1>2 DEF WindowEnds, Busy
<1>4. Advances \/ Passes \/ Handles("no")
  BY <1>3, GotoMoves
<1> QED
  BY <1>3, <1>4, NotWaiting

LEMMA PollAgainMoves ==
    ASSUME FlowInv, PollAgain(rest)
    PROVE  /\ outcome = "running" /\ script[pc].op \in {"wait", "window"}
           /\ Keeps /\ open' = open /\ sample' = 1 /\ UNCHANGED <<rest, feedVars, faults, late>>
<1>1. scenario \in Scenarios /\ pc \in 1..Final
  BY DEF FlowInv
<1>2. Now.op = script[pc].op
  BY <1>1, NowIs
<1> QED
  BY <1>2 DEF PollAgain, Busy, Keeps

(* An assessment that holds, or does not.                                  *)
LEMMA AssessMoves ==
    ASSUME FlowInv, Assesses
    PROVE  /\ outcome = "running" /\ script[pc].op = "assess"
           /\ UNCHANGED <<fixtureVars, producer, produced, feedVars, faults, late>>
           /\ pc >= Connected => raised = "no"
           /\ \/ /\ \A d \in {Now.what[i].on : i \in DOMAIN Now.what} :
                       Holds(Now.what[1].kind, Now.what[1].types, producer[d], totals[d])
                 /\ totals' = [d \in Devices |->
                        IF Now.what[1].kind = "accounted" THEN Added(totals[d], producer[d]) ELSE totals[d]]
                 /\ Advances \/ Passes \/ Handles("no")
              \/ /\ UNCHANGED totals
                 /\ \E how \in {"failed"} : Fails(how) \/ Handles(how)
<1>1. scenario \in Scenarios /\ pc \in 1..Final
  BY DEF FlowInv
<1>2. Now.op = script[pc].op
  BY <1>1, NowIs
<1>3. /\ outcome = "running" /\ script[pc].op = "assess"
      /\ UNCHANGED <<fixtureVars, producer, produced, feedVars, faults, late>>
  BY <1>2 DEF Assesses, Busy
<1>4. \/ /\ \A d \in {Now.what[i].on : i \in DOMAIN Now.what} :
               Holds(Now.what[1].kind, Now.what[1].types, producer[d], totals[d])
         /\ totals' = [d \in Devices |->
                IF Now.what[1].kind = "accounted" THEN Added(totals[d], producer[d]) ELSE totals[d]]
         /\ Goto(Now.then)
      \/ UNCHANGED totals /\ Raise("failed")
  BY DEF Assesses
<1>5. ASSUME Goto(Now.then) PROVE Advances \/ Passes \/ Handles("no")
  BY <1>3, <1>5, GotoMoves
<1>6. ASSUME Raise("failed") PROVE \E how \in {"failed"} : Fails(how) \/ Handles(how)
  <2>1. PICK how \in {"failed", "crashed"} : how = "failed" /\ Raise(how)
    BY <1>6
  <2>2. Fails(how) \/ Handles(how)
    BY <1>3, <2>1, RaiseMoves
  <2> QED
    BY <2>1, <2>2
<1>7. pc >= Connected => raised = "no"
  BY <1>3, NotWaiting
<1> QED
  BY <1>3, <1>4, <1>5, <1>6, <1>7

-----------------------------------------------------------------------------
(* Commands, and the moves of the devices.                                 *)

Settles(i, how) ==
    \/ Waits(i, how)
    \/ /\ how = "ok" /\ open = {i} /\ (pc > Connected => raised = "no")
       /\ Advances \/ Passes \/ Handles("no")
    \/ \E h \in {how, raised} \ {"ok", "no"} : Fails(h) \/ Handles(h)

(* What a command comes to: it succeeds, it loses its answer, it is        *)
(* refused, or it is left to run later.                                    *)
Comes(c, how) ==
    \/ how = "ok" /\ Accepts(c) /\ Effect(c) /\ UNCHANGED <<faults, late>>
    \/ how # "ok" /\ Accepts(c) /\ Effect(c) /\ faults' = faults + 1 /\ UNCHANGED late
    \/ /\ how = "failed" /\ UNCHANGED <<rest, feedVars, late>>
       /\ faults' = IF Accepts(c) THEN faults + 1 ELSE faults
    \/ /\ how = "failed" /\ UNCHANGED <<rest, feedVars>> /\ faults' = faults + 1
       /\ late' = late \cup {c}

LEMMA CommandMoves ==
    ASSUME FlowInv, Commands
    PROVE  /\ outcome = "running" /\ script[pc].op \in Commanding
           /\ \E i \in open, how \in {"ok", "failed", "crashed"} :
                 Settles(i, how) /\ Comes(Now.what[i], how)
<1>1. scenario \in Scenarios /\ pc \in 1..Final
  BY DEF FlowInv
<1>2. Now.op = script[pc].op
  BY <1>1, NowIs
<1>3. PICK i \in open :
         \/ CommandOk(i, Accepts(Now.what[i]), Effect(Now.what[i]))
         \/ CommandAnswerLost(i, Accepts(Now.what[i]), Effect(Now.what[i]))
         \/ CommandRefused(i, Accepts(Now.what[i]), rest) \/ CommandDelayed(i, rest)
  BY DEF Commands
<1> DEFINE c == Now.what[i]
<1>4. outcome = "running" /\ script[pc].op \in Commanding
  BY <1>2, <1>3 DEF CommandOk, CommandAnswerLost, CommandRefused, CommandDelayed, Busy, Commanding
<1>5. ASSUME NEW how \in {"ok", "failed", "crashed"}, Settle(i, how) PROVE Settles(i, how)
  BY <1>4, <1>5, SettleMoves DEF Settles
<1> HIDE DEF c
<1>6. CASE CommandOk(i, Accepts(c), Effect(c))
  <2>1. PICK how \in {"ok", "failed", "crashed"} : how = "ok" /\ Settle(i, how)
    BY <1>6 DEF CommandOk
  <2>2. Comes(c, how)
    BY <1>6, <2>1 DEF CommandOk, Comes
  <2> QED
    BY <1>4, <1>5, <2>1, <2>2 DEF c
<1>7. CASE CommandAnswerLost(i, Accepts(c), Effect(c))
  <2>1. PICK how \in {"ok", "failed", "crashed"} : how # "ok" /\ Settle(i, how)
    BY <1>7 DEF CommandAnswerLost
  <2>2. Comes(c, how)
    BY <1>7, <2>1 DEF CommandAnswerLost, Comes, Fault
  <2> QED
    BY <1>4, <1>5, <2>1, <2>2 DEF c
<1>8. CASE CommandRefused(i, Accepts(c), rest)
  <2>1. PICK how \in {"ok", "failed", "crashed"} : how = "failed" /\ Settle(i, how)
    BY <1>8 DEF CommandRefused
  <2>2. Comes(c, how)
    BY <1>8, <2>1 DEF CommandRefused, Comes, Fault
  <2> QED
    BY <1>4, <1>5, <2>1, <2>2 DEF c
<1>9. CASE CommandDelayed(i, rest)
  <2>1. PICK how \in {"ok", "failed", "crashed"} : how = "failed" /\ Settle(i, how)
    BY <1>9 DEF CommandDelayed
  <2>2. Comes(c, how)
    BY <1>9, <2>1 DEF CommandDelayed, Comes, Fault, c
  <2> QED
    BY <1>4, <1>5, <2>1, <2>2 DEF c
<1> QED
  BY <1>3, <1>6, <1>7, <1>8, <1>9 DEF c

LEMMA DevicesMoves ==
    ASSUME DevicesMove
    PROVE  /\ outcome = "running" /\ UNCHANGED <<controlVars, faults, late>>
           /\ flaps' = flaps \/ flaps' = flaps + 1
           /\ \/ UNCHANGED feedVars
              \/ \E d \in Devices, type \in {"unstable", "connectFailed", "other"} : Record(d, type)
           /\ \/ UNCHANGED <<group, leading>>
              \/ \E d \in Devices : GroupForms(d)
              \/ \E p \in Pairs : CoordinatorMoves(p[1], p[2])
<1>0. \A p \in Pairs : p[1] \in Devices /\ p[2] \in Devices
  BY DEF Pairs
<1>1. outcome = "running"
  BY DEF DevicesMove
<1>2. ASSUME NEW d \in Devices, PresenceStarts(d)
      PROVE  UNCHANGED <<controlVars, faults, late, flaps, feedVars, group, leading>>
  BY <1>2 DEF PresenceStarts, stepVars
<1>3. ASSUME NEW d \in Devices, GroupForms(d)
      PROVE  UNCHANGED <<controlVars, faults, late, flaps, feedVars>>
  BY <1>3 DEF GroupForms, stepVars
<1>4. ASSUME NEW p \in Pairs, Discovers(p)
      PROVE  UNCHANGED <<controlVars, faults, late, flaps, feedVars, group, leading>>
  BY <1>4 DEF Discovers, stepVars
<1>5. ASSUME NEW p \in Pairs, BecomesReady(p)
      PROVE  /\ UNCHANGED <<controlVars, faults, late, flaps, group, leading>>
             /\ \E d \in Devices, type \in {"unstable", "connectFailed", "other"} : Record(d, type)
  BY <1>0, <1>5 DEF BecomesReady
<1>6. ASSUME NEW p \in Pairs, AttemptFails(p)
      PROVE  /\ UNCHANGED <<controlVars, faults, late, group, leading>> /\ flaps' = flaps + 1
             /\ \E d \in Devices, type \in {"unstable", "connectFailed", "other"} : Record(d, type)
  BY <1>0, <1>6 DEF AttemptFails
<1>7. ASSUME NEW p \in Pairs, NEW to \in {"none", "reconnecting"}, Drops(p, to)
      PROVE  /\ UNCHANGED <<controlVars, faults, late, group, leading>>
             /\ flaps' = flaps \/ flaps' = flaps + 1
             /\ \E d \in Devices, type \in {"unstable", "connectFailed", "other"} : Record(d, type)
  BY <1>0, <1>7 DEF Drops
<1>8. ASSUME NEW p \in Pairs, CoordinatorMoves(p[1], p[2])
      PROVE  UNCHANGED <<controlVars, faults, late, feedVars>> /\ flaps' = flaps + 1
  BY <1>8 DEF CoordinatorMoves, stepVars
<1>9. \/ \E d \in Devices : PresenceStarts(d) \/ GroupForms(d)
      \/ \E p \in Pairs : Discovers(p) \/ BecomesReady(p) \/ AttemptFails(p)
      \/ \E p \in Pairs, to \in {"none", "reconnecting"} : Drops(p, to)
      \/ \E p \in Pairs : CoordinatorMoves(p[1], p[2])
  BY DEF DevicesMove
<1>10. UNCHANGED <<controlVars, faults, late>>
  BY <1>2, <1>3, <1>4, <1>5, <1>6, <1>7, <1>8, <1>9
<1>11. flaps' = flaps \/ flaps' = flaps + 1
  BY <1>2, <1>3, <1>4, <1>5, <1>6, <1>7, <1>8, <1>9
<1>12. \/ UNCHANGED feedVars
       \/ \E d \in Devices, type \in {"unstable", "connectFailed", "other"} : Record(d, type)
  BY <1>2, <1>3, <1>4, <1>5, <1>6, <1>7, <1>8, <1>9
<1>13. \/ UNCHANGED <<group, leading>>
       \/ \E d \in Devices : GroupForms(d)
       \/ \E p \in Pairs : CoordinatorMoves(p[1], p[2])
  BY <1>2, <1>4, <1>5, <1>6, <1>7, <1>9
<1> QED
  BY <1>1, <1>10, <1>11, <1>12, <1>13

-----------------------------------------------------------------------------
(* The invariant of the flow.                                              *)

LEMMA FlowStarts ==
    ASSUME TrafficInit
    PROVE  FlowInv /\ sample = 1 /\ open = {1} /\ pc = 1 /\ raised = "no" /\ outcome = "running"
<1>1. PICK s \in DOMAIN Scripts : ControlInit(s)
  BY DEF TrafficInit
<1>2. DOMAIN Scripts = Scenarios
  BY TrafficScenario DEF TrafficScripts, Scenarios
<1>3. /\ scenario = s /\ pc = 1 /\ sample = 1 /\ raised = "no" /\ outcome = "running" /\ faults = 0
      /\ open = IF script[1].op \in {"cmd", "pair"} THEN DOMAIN script[1].what ELSE {}
  BY <1>1 DEF ControlInit, script
<1>4. flaps = 0
  BY DEF TrafficInit, FixtureInit
<1>5. scenario \in Scenarios
  BY <1>2, <1>3
<1>6. Final \in Nat /\ Final >= 24 /\ Connected \in {9, 16}
  BY <1>5, Bounds
<1>7. 1 \in 1..Final
  BY <1>6
<1>8. \E d : script[1] = ResetRuntime(d)
  <2>1. 1 \in 1..22 /\ 1 \in 1..19
    OBVIOUS
  <2>2. CASE scenario = "IT-044"
    BY <2>1, <2>2, CheckpointPlaces, FormedIs, ResetIs
  <2>3. CASE scenario # "IT-044"
    <3>1. scenario \in {"IT-041", "IT-043"}
      BY <1>5, <2>3 DEF Scenarios
    <3> QED
      BY <2>1, <3>1, TrafficPlaces, PreambleIs, ResetIs
  <2> QED
    BY <2>2, <2>3
<1>9. script[1].op = "cmd"
  BY <1>8, CommandForms
<1>10. DOMAIN script[1].what = {1}
  BY <1>5, <1>7, <1>9, StepIs
<1>11. open = {1}
  BY <1>3, <1>9, <1>10
<1> QED
  BY <1>3, <1>4, <1>5, <1>6, <1>7, <1>9, <1>10, <1>11 DEF FlowInv, Slots, Commanding, Sampling

LEMMA FlowSteps ==
    ASSUME FlowInv, TrafficNext
    PROVE  FlowInv'
<1>1. /\ scenario \in Scenarios /\ pc \in 1..Final /\ sample \in Nat
      /\ raised \in {"no", "failed", "crashed"} /\ faults \in Nat /\ flaps \in Nat
  BY DEF FlowInv
<1>2. ASSUME UNCHANGED fixtureVars PROVE flaps' = flaps
  BY <1>2 DEF fixtureVars
<1>3. ASSUME UNCHANGED rest PROVE flaps' = flaps
  BY <1>2, <1>3 DEF rest
<1>4. ASSUME NEW any \in {"no", "failed", "crashed"}, Handles(any), faults' \in Nat, flaps' \in Nat,
             outcome = "running"
      PROVE  FlowInv'
  <2>1. PICK how \in {"failed", "crashed"} : TRUE
    OBVIOUS
  <2> QED
    BY <1>4, FlowMoved
<1>5. ASSUME NEW how \in {"failed", "crashed"}, Fails(how), faults' \in Nat, flaps' \in Nat,
             outcome = "running"
      PROVE  FlowInv'
  BY <1>5, FlowMoved
<1>6. ASSUME Advances \/ Passes \/ Handles("no"), pc >= Connected => raised = "no",
             faults' \in Nat, flaps' \in Nat, outcome = "running"
      PROVE  FlowInv'
  <2>1. PICK any \in {"no", "failed", "crashed"} : any = "no"
    OBVIOUS
  <2>2. PICK how \in {"failed", "crashed"} : TRUE
    OBVIOUS
  <2> QED
    BY <1>6, <2>1, FlowMoved
<1>7. CASE Sample(Seen(Condition), rest)
  <2>1. /\ outcome = "running" /\ script[pc].op \in {"wait", "check", "window"}
        /\ sample \in 1..Len(script[pc].what) /\ UNCHANGED <<rest, faults, late>>
        /\ pc # Connected /\ (pc > Connected => raised = "no")
    BY <1>7, SampleMoves
  <2>2. flaps' \in Nat /\ faults' \in Nat
    BY <1>1, <1>3, <2>1
  <2>3. pc >= Connected => raised = "no"
    BY <1>1, <2>1, Bounds
  <2>4. Len(script[pc].what) \in Nat
    BY <1>1, <2>1, SamplesFilled DEF Sampling
  <2>5. ASSUME Keeps, open' = open, sample' = sample + 1, sample < Len(script[pc].what) PROVE FlowInv'
    <3>1. sample' \in Nat /\ sample' <= Len(script[pc].what) /\ sample' # 0
      BY <1>1, <2>4, <2>5
    <3> QED
      BY <2>2, <2>5, <3>1, FlowKept
  <2>6. ASSUME Keeps, open' = open, sample' = 0, script[pc].op \in {"wait", "window"} PROVE FlowInv'
    <3>1. sample' \in Nat /\ sample' <= Len(script[pc].what)
      BY <2>4, <2>6
    <3> QED
      BY <2>2, <2>6, <3>1, FlowKept
  <2>7. \/ /\ Keeps /\ sample' = sample + 1 /\ open' = open /\ sample < Len(script[pc].what)
        \/ Keeps /\ sample' = 0 /\ open' = open /\ script[pc].op \in {"wait", "window"}
        \/ Advances \/ Passes \/ Handles("no")
        \/ Fails("failed") \/ Handles("failed")
    BY <1>7, SampleMoves
  <2> QED
    BY <1>4, <1>5, <1>6, <2>1, <2>2, <2>3, <2>5, <2>6, <2>7
<1>8. CASE Pick(Seen(Condition), rest)
  <2>1. /\ outcome = "running" /\ scenario = "IT-044" /\ pc = 13 /\ raised = "no"
        /\ UNCHANGED <<rest, faults>>
        /\ sample \in {1, 2}
        /\ \/ sample = 1 /\ sample' = 2 /\ UNCHANGED <<scenario, pc, open, raised, outcome>>
           \/ Fails("crashed")
           \/ pc' = 14 /\ sample' = 1 /\ open' = {} /\ UNCHANGED <<scenario, raised, outcome>>
    BY <1>8, PickMoves
  <2>2. flaps' \in Nat /\ faults' \in Nat
    BY <1>1, <1>3, <2>1
  <2>3. CASE Fails("crashed")
    BY <1>5, <2>1, <2>2, <2>3
  <2>4. script[13] = PickCoordinator /\ script[14] = DrainEvents
    BY <2>1, CheckpointPlaces, FormedIs
  <2>5. Len(PickCoordinator.what) = 2 /\ Len(DrainEvents.what) = 2 /\ DrainEvents.op = "check"
        /\ PickCoordinator.op = "pick"
    BY PollForms, Pairwise
  <2>6. scenario' = scenario
    BY <2>1 DEF Fails
  <2>7. script' = script /\ Final' = Final /\ Connected' = Connected
    BY <2>6, Frozen
  <2>8. CASE sample' = 2 /\ UNCHANGED <<scenario, pc, open, raised, outcome>>
    <3>1. script[pc].op = "pick" /\ Len(script[pc].what) = 2
      BY <2>1, <2>4, <2>5
    <3>2. script'[pc'] = script[pc]
      BY <2>7, <2>8
    <3>3. open' \subseteq Slots(script'[pc'])
      BY <2>8, <3>2 DEF FlowInv
    <3>4. /\ scenario' = scenario /\ pc' = pc /\ sample' = 2 /\ raised' = "no" /\ outcome' = "running"
      BY <2>1, <2>8
    <3>5. script'[pc'].op \in Sampling => sample' <= Len(script'[pc'].what)
      <4>1. Len(script'[pc'].what) = 2
        BY <3>1, <3>2
      <4> QED
        BY <3>4, <4>1
    <3> QED
      BY <1>1, <2>2, <2>7, <3>3, <3>4, <3>5 DEF FlowInv
  <2>9. CASE pc' = 14 /\ sample' = 1 /\ open' = {} /\ UNCHANGED <<scenario, raised, outcome>>
    <3>1. 14 \in 1..Final
      BY <1>1, Bounds
    <3>2. script'[pc'] = DrainEvents
      BY <2>4, <2>7, <2>9
    <3>3. script'[pc'].op \in Sampling => sample' <= Len(script'[pc'].what)
      <4>1. Len(script'[pc'].what) = 2
        BY <2>5, <3>2
      <4> QED
        BY <2>9, <4>1
    <3>4. scenario' = scenario /\ pc' = 14 /\ sample' = 1 /\ raised' = "no" /\ outcome' = "running"
      BY <2>1, <2>9
    <3> QED
      BY <1>1, <2>2, <2>7, <2>9, <3>1, <3>3, <3>4 DEF FlowInv
  <2> QED
    BY <2>1, <2>3, <2>8, <2>9
<1>9. CASE Assesses
  <2>1. /\ outcome = "running" /\ UNCHANGED <<fixtureVars, faults>>
        /\ pc >= Connected => raised = "no"
        /\ \/ Advances \/ Passes \/ Handles("no")
           \/ \E how \in {"failed"} : Fails(how) \/ Handles(how)
    BY <1>9, AssessMoves
  <2>2. flaps' \in Nat /\ faults' \in Nat
    BY <1>1, <1>2, <2>1
  <2> QED
    BY <1>4, <1>5, <1>6, <2>1, <2>2
<1>10. CASE Commands
  <2>1. outcome = "running" /\ script[pc].op \in Commanding
    BY <1>10, CommandMoves
  <2>2. PICK i \in open, how \in {"ok", "failed", "crashed"} :
           Settles(i, how) /\ Comes(Now.what[i], how)
    BY <1>10, CommandMoves
  <2>3. flaps' \in Nat /\ faults' \in Nat
    <3>1. flaps' = flaps /\ (faults' = faults \/ faults' = faults + 1)
      BY <1>3, <2>2 DEF Comes, Effect, BaseEffect
    <3> QED
      BY <1>1, <3>1
  <2>4. ASSUME Waits(i, how) PROVE FlowInv'
    BY <2>1, <2>3, <2>4, FlowWaits
  <2>5. pc # Connected
    <3>1. script[Connected].op = "reraise"
      <4>1. script[Connected] = Ended(LastLabel)
        BY <1>1, Places
      <4> QED
        BY <4>1 DEF Ended, At, Step
    <3> QED
      BY <2>1, <3>1 DEF Commanding
  <2>6. ASSUME Advances \/ Passes \/ Handles("no"), pc > Connected => raised = "no" PROVE FlowInv'
    <3>1. pc >= Connected => raised = "no"
      BY <1>1, <2>5, <2>6, Bounds
    <3> QED
      BY <1>6, <2>1, <2>3, <2>6, <3>1
  <2>7. ASSUME NEW h \in {how, raised} \ {"ok", "no"}, Fails(h) \/ Handles(h) PROVE FlowInv'
    <3>1. h \in {"failed", "crashed"}
      BY <1>1
    <3> QED
      BY <1>4, <1>5, <2>1, <2>3, <2>7, <3>1
  <2> QED
    BY <2>2, <2>4, <2>6, <2>7 DEF Settles
<1>11. CASE Reraise(rest)
  <2>1. /\ outcome = "running" /\ UNCHANGED <<rest, faults>>
        /\ \/ raised = "no" /\ (Advances \/ Passes \/ Handles("no"))
           \/ raised # "no" /\ (Fails(raised) \/ Handles(raised))
    BY <1>11, ReraiseMoves
  <2>2. flaps' \in Nat /\ faults' \in Nat
    BY <1>1, <1>3, <2>1
  <2> QED
    BY <1>1, <1>4, <1>5, <1>6, <2>1, <2>2
<1>12. CASE PollAgain(rest)
  <2>1. /\ outcome = "running" /\ script[pc].op \in {"wait", "window"}
        /\ Keeps /\ open' = open /\ sample' = 1 /\ UNCHANGED <<rest, faults>>
    BY <1>12, PollAgainMoves
  <2>2. flaps' \in Nat /\ faults' \in Nat
    BY <1>1, <1>3, <2>1
  <2>3. Len(script[pc].what) \in Nat \ {0}
    BY <1>1, <2>1, SamplesFilled DEF Sampling
  <2>4. sample' \in Nat /\ sample' <= Len(script[pc].what) /\ sample' # 0
    BY <2>1, <2>3
  <2> QED
    BY <2>1, <2>2, <2>4, FlowKept
<1>13. CASE DeadlinePassed(rest)
  <2>1. /\ outcome = "running" /\ UNCHANGED <<rest, faults>>
        /\ \E how \in {"failed"} : Fails(how) \/ Handles(how)
    BY <1>13, DeadlineMoves
  <2>2. flaps' \in Nat /\ faults' \in Nat
    BY <1>1, <1>3, <2>1
  <2> QED
    BY <1>4, <1>5, <2>1, <2>2
<1>14. CASE WindowEnds(rest)
  <2>1. /\ outcome = "running" /\ UNCHANGED <<rest, faults>>
        /\ Advances \/ Passes \/ Handles("no")
        /\ pc >= Connected => raised = "no"
    BY <1>14, WindowMoves
  <2>2. flaps' \in Nat /\ faults' \in Nat
    BY <1>1, <1>3, <2>1
  <2> QED
    BY <1>6, <2>1, <2>2
<1>15. CASE ReadFails(EndpointReads, rest)
  <2>1. /\ outcome = "running" /\ faults' = faults + 1 /\ UNCHANGED rest
        /\ \E how \in {"failed", "crashed"} : Fails(how) \/ Handles(how)
    BY <1>15, ReadFailsMoves DEF FailsOrHandles
  <2>2. flaps' \in Nat /\ faults' \in Nat
    BY <1>1, <1>3, <2>1
  <2> QED
    BY <1>4, <1>5, <2>1, <2>2
<1>16. ASSUME UNCHANGED <<controlVars, faults>>, flaps' \in Nat PROVE FlowInv'
  <2>1. UNCHANGED <<scenario, pc, sample, open, chosen, raised, outcome, faults>>
    BY <1>16 DEF controlVars
  <2>2. script' = script /\ Final' = Final /\ Connected' = Connected
    BY <2>1, Frozen
  <2> QED
    BY <1>16, <2>1, <2>2 DEF FlowInv, Slots
<1>17. CASE \E c \in late : LateCommand(c, Accepts(c), Effect(c))
  <2>1. PICK c \in late : LateCommand(c, Accepts(c), Effect(c))
    BY <1>17
  <2>2. UNCHANGED <<controlVars, faults>> /\ flaps' = flaps
    BY <2>1 DEF LateCommand, Effect, BaseEffect
  <2> QED
    BY <1>1, <1>16, <2>2
<1>18. CASE DevicesMove
  <2>1. UNCHANGED <<controlVars, faults>> /\ (flaps' = flaps \/ flaps' = flaps + 1)
    BY <1>18, DevicesMoves
  <2> QED
    BY <1>1, <1>16, <2>1
<1>19. CASE ProducersMove
  <2>1. UNCHANGED <<controlVars, faults>> /\ flaps' = flaps
    BY <1>2, <1>19 DEF ProducersMove, stepVars
  <2> QED
    BY <1>1, <1>16, <2>1
<1> QED
  BY <1>7, <1>8, <1>9, <1>10, <1>11, <1>12, <1>13, <1>14, <1>15, <1>17, <1>18, <1>19 DEF TrafficNext, Proceeds

-----------------------------------------------------------------------------
(* What the runner has read.                                               *)

(* The condition a poll looks at, from the formation of the group on.      *)
LEMMA Conditions ==
    ASSUME scenario \in Scenarios, pc \in 1..Final, script[pc].op \in Sampling,
           sample \in 1..Len(script[pc].what)
    PROVE  /\ pc = LastDrain =>
                 /\ sample \in {1, 2} /\ Len(script[pc].what) = 2 /\ script[pc].op = "check"
                 /\ Condition = Drain(IF sample = 1 THEN "a" ELSE "b")
           /\ pc > LastDrain =>
                 Condition.kind \notin EventKinds \/ \E d \in Devices : Condition = Quiet(d)
           /\ scenario = "IT-044" /\ pc = 12 =>
                 /\ sample \in {1, 2} /\ Len(script[pc].what) = 2
                 /\ Condition = Shows("group", IF sample = 1 THEN "a" ELSE "b")
           /\ scenario = "IT-044" /\ pc - 2 \in StartPlaces =>
                 sample = 1 /\ Condition = [Shows("drained", First) EXCEPT !.on = chosen]
<1>1. ASSUME NEW x, NEW y, IsPair(Now.what, x, y), Now = script[pc]
      PROVE  /\ Len(script[pc].what) = 2 /\ sample \in {1, 2}
             /\ Condition = IF sample = 1 THEN x ELSE y
  <2>1. Len(Now.what) = 2 /\ Now.what[1] = x /\ Now.what[2] = y
    BY <1>1, Pairwise
  <2>2. sample \in 1..2
    BY <1>1, <2>1
  <2> QED
    BY <1>1, <2>1, <2>2 DEF Condition
<1>2. ASSUME script[pc].toChosen = FALSE PROVE Now = script[pc]
  BY <1>2, LinearSteps, NowIs
<1>3. ASSUME pc = LastDrain
      PROVE  /\ sample \in {1, 2} /\ Len(script[pc].what) = 2 /\ script[pc].op = "check"
             /\ Condition = Drain(IF sample = 1 THEN "a" ELSE "b")
  <2>1. script[pc] = DrainEvents
    BY <1>3, Places
  <2>2. script[pc].toChosen = FALSE
    BY <2>1, PlainSteps, LinearSteps
  <2>3. Now = script[pc] /\ script[pc].op = "check" /\ IsPair(script[pc].what, Drain("a"), Drain("b"))
    BY <1>2, <2>1, <2>2, PollForms
  <2> QED
    BY <1>1, <2>3
<1>4. ASSUME scenario = "IT-044", pc = 12
      PROVE  /\ sample \in {1, 2} /\ Len(script[pc].what) = 2
             /\ Condition = Shows("group", IF sample = 1 THEN "a" ELSE "b")
  <2>1. script[12] = WaitGroup
    <3>1. 12 \in 1..19
      OBVIOUS
    <3> QED
      BY <1>4, <3>1, CheckpointPlaces, FormedIs
  <2>2. script[pc].toChosen = FALSE
    BY <1>4, <2>1, PlainSteps, LinearSteps
  <2>3. Now = script[pc] /\ IsPair(script[pc].what, Shows("group", "a"), Shows("group", "b"))
    BY <1>2, <1>4, <2>1, <2>2, PollForms
  <2> QED
    BY <1>1, <2>3
<1>5. ASSUME NEW x, script[pc].what = <<x>>, Addressed(script[pc])
      PROVE  sample = 1 /\ Condition = [x EXCEPT !.on = chosen]
  <2>1. Len(<<x>>) = 1
    OBVIOUS
  <2>2. sample = 1
    BY <1>5, <2>1
  <2>3. Now.what[1] = [x EXCEPT !.on = chosen]
    BY <1>5, AddressedNow
  <2> QED
    BY <2>2, <2>3 DEF Condition
<1>6. ASSUME scenario = "IT-044", pc - 2 \in StartPlaces
      PROVE  sample = 1 /\ Condition = [Shows("drained", First) EXCEPT !.on = chosen]
  <2>1. PICK m \in StartPlaces : m = pc - 2
    BY <1>6
  <2>2. m \in Nat /\ pc = m + 2
    BY <2>1, StartsApart
  <2>3. script[pc] = AwaitDrained
    BY <1>6, <2>1, <2>2, CheckpointPlaces
  <2>4. script[pc].what = <<Shows("drained", First)>> /\ Addressed(script[pc])
    BY <2>3, AddressedForms, AddressedSteps
  <2> QED
    BY <1>5, <2>4
<1>7. ASSUME pc > LastDrain
      PROVE  Condition.kind \notin EventKinds \/ \E d \in Devices : Condition = Quiet(d)
  <2>1. ASSUME script[pc].what = SelectedReady, script[pc].toChosen = FALSE
        PROVE  Condition.kind \notin EventKinds \/ \E d \in Devices : Condition = Quiet(d)
    <3>1. Condition = SelectedReady[sample] /\ Len(script[pc].what) = 4
      BY <1>2, <2>1, SelectedReadyIs, SeqDomain DEF Condition
    <3>2. sample = 1 \/ sample = 2 \/ sample = 3 \/ sample = 4
      <4>1. sample \in 1..4
        BY <3>1
      <4> QED
        BY <4>1
    <3>3. ASSUME NEW p PROVE Ready(p).kind \notin EventKinds
      BY DEF Ready, Shows, EventKinds
    <3> QED
      BY <3>1, <3>2, <3>3, SelectedReadyIs, DevicesAre
  <2>2. ASSUME NEW x, x.kind \notin EventKinds, x = Shows(x.kind, x.on),
               script[pc].what = <<x>>, Addressed(script[pc])
        PROVE  Condition.kind \notin EventKinds
    <3>1. Condition = [x EXCEPT !.on = chosen]
      BY <1>5, <2>2
    <3>2. [Shows(x.kind, x.on) EXCEPT !.on = chosen].kind = x.kind
      BY DEF Shows
    <3> QED
      BY <2>2, <3>1, <3>2
  <2>3. /\ StabilityWindow.toChosen = FALSE /\ Watching1.toChosen = FALSE /\ AssertReady.toChosen = FALSE
    BY PlainSteps, LinearSteps
  <2>4. CASE Between(pc)
    <3>1. CASE script[pc] \in {StabilityWindow, Watching1, AssertReady}
      BY <2>1, <2>3, <3>1, PollForms
    <3>2. CASE script[pc] = Assess("bandwidth", 0) \/ script[pc] = AssessDurable
      <4>1. Assess("bandwidth", 0).op = "assess" /\ AssessDurable.op = "assess"
        BY AssessForms, AddressedForms
      <4> QED
        BY <3>2, <4>1 DEF Sampling
    <3> QED
      BY <2>4, <3>1, <3>2 DEF Between
  <2>5. CASE Loading(pc)
    <3>1. CASE script[pc] = StabilityWindow
      BY <2>1, <2>3, <3>1, PollForms
    <3>2. CASE (\E size \in Nat : script[pc] = Start(size) \/ script[pc] = Tally(size)) \/ script[pc] = Stop
      <4>1. ASSUME NEW size PROVE Tally(size).op = "assess"
        <5>1. \A kind : Assess(kind, size).op = "assess"
          BY AssessForms
        <5> QED
          BY <5>1 DEF Tally
      <4>2. script[pc].op \in {"pair", "assess"}
        BY <3>2, <4>1, CommandForms
      <4> QED
        BY <4>2 DEF Sampling
    <3> QED
      BY <2>5, <3>1, <3>2 DEF Loading
  <2>6. CASE Publishing(pc)
    <3>1. CASE script[pc] = AwaitDrained \/ script[pc] = CheckCounters
      <4>1. PICK x \in {Shows("drained", First), Shows("counters", First)} : script[pc].what = <<x>>
        BY <3>1, AddressedForms
      <4>2. x.kind \notin EventKinds /\ x = Shows(x.kind, x.on)
        BY DEF Shows, EventKinds
      <4>3. Addressed(script[pc])
        BY <3>1, AddressedSteps
      <4> QED
        BY <2>2, <4>1, <4>2, <4>3
    <3>2. CASE (\E size \in Nat : script[pc] = StartPublishing(size)) \/ script[pc] = StopPublishing
      <4>1. script[pc].op = "cmd"
        BY <3>2, AddressedForms
      <4> QED
        BY <4>1 DEF Sampling
    <3> QED
      BY <2>6, <3>1, <3>2 DEF Publishing
  <2>7. Between(pc) \/ Loading(pc) \/ Publishing(pc)
    <3>1. pc > Connected /\ ~(pc < 5)
      BY <1>7, Bounds
    <3> QED
      BY <1>7, <3>1, Partition, Bounds DEF Resetting, Preflights, Handling, Reraising, Selecting, Forming, LastDrain
  <2> QED
    BY <2>4, <2>5, <2>6, <2>7
<1> QED
  BY <1>3, <1>4, <1>6, <1>7

(* From the last drain on, what a device has recorded since is unread, or  *)
(* was evicted.                                                            *)
EventTypes == {"unstable", "connectFailed", "other"}
Noticed(d) == d \notin since \/ d \in missed \/ Matching(d, Unstable) # {}

FeedInv ==
    /\ unread \in [Devices -> Seq(EventTypes)] /\ \A d \in Devices : Len(unread[d]) <= MaxHistory
    /\ outcome \in {"running", "passed"} =>
        /\ pc > LastDrain => \A d \in Devices : Noticed(d)
        /\ pc = LastDrain /\ sample > 1 => Noticed(First)

LEMMA FeedStarts == TrafficInit => FeedInv
<1> SUFFICES ASSUME TrafficInit PROVE FeedInv
  OBVIOUS
<1>1. unread = [d \in Devices |-> <<>>] /\ since = {}
  BY DEF TrafficInit, ControlInit
<1>2. <<>> \in Seq(EventTypes) /\ Len(<<>>) = 0
  OBVIOUS
<1>3. unread \in [Devices -> Seq(EventTypes)] /\ \A d \in Devices : Len(unread[d]) <= MaxHistory
  BY <1>1, <1>2, RunnerBounds
<1>4. \A d : Noticed(d)
  BY <1>1 DEF Noticed
<1> QED
  BY <1>3, <1>4 DEF FeedInv

(* The history of a device after it recorded an event.                     *)
LEMMA RetainedIs ==
    ASSUME NEW h \in Seq(EventTypes), Len(h) <= MaxHistory, NEW type \in EventTypes
    PROVE  LET r == Retained(Append(h, type)) IN
           /\ r \in Seq(EventTypes) /\ Len(r) <= MaxHistory
           /\ Len(r) > 0 /\ r[Len(r)] = type
           /\ \A i \in 1..Len(h) : \/ i = 1 /\ Len(h) = MaxHistory
                                   \/ \E j \in 1..Len(r) : r[j] = h[i]
<1> DEFINE a == Append(h, type)
           r == Retained(a)
           n == Len(h)
<1>1. n \in Nat /\ n <= MaxHistory /\ MaxHistory \in Nat \ {0}
  BY RunnerBounds
<1>2. /\ a \in Seq(EventTypes) /\ Len(a) = n + 1 /\ a[n + 1] = type
      /\ \A i \in 1..n : a[i] = h[i]
  BY AppendProperties
<1>3. r = IF Len(a) > MaxHistory THEN Tail(a) ELSE a
  BY DEF Retained
<1> HIDE DEF a, r
<1>4. CASE n = MaxHistory
  <2>1. r = Tail(a) /\ a # <<>>
    BY <1>1, <1>2, <1>3, <1>4
  <2>2. r \in Seq(EventTypes) /\ Len(r) = n /\ \A i \in 1..n : r[i] = a[i + 1]
    BY <1>1, <1>2, <2>1, HeadTailProperties
  <2>3. n \in 1..n
    BY <1>1, <1>4
  <2>4. r[n] = type
    BY <1>2, <2>2, <2>3
  <2>5. ASSUME NEW i \in 1..n, i # 1 PROVE \E j \in 1..n : r[j] = h[i]
    <3>1. i - 1 \in 1..n /\ (i - 1) + 1 = i
      BY <1>1, <2>5
    <3> QED
      BY <1>2, <2>2, <3>1
  <2> QED
    BY <1>1, <1>4, <2>2, <2>3, <2>4, <2>5 DEF a, r
<1>5. CASE n # MaxHistory
  <2>1. r = a
    BY <1>1, <1>2, <1>3, <1>5
  <2>2. n + 1 <= MaxHistory
    BY <1>1, <1>5
  <2>3. ASSUME NEW i \in 1..n PROVE \E j \in 1..(n + 1) : r[j] = h[i]
    BY <1>1, <1>2, <2>1
  <2> QED
    BY <1>1, <1>2, <2>1, <2>2, <2>3 DEF a, r
<1> QED
  BY <1>4, <1>5

LEMMA RecordNotices ==
    ASSUME unread \in [Devices -> Seq(EventTypes)], \A d \in Devices : Len(unread[d]) <= MaxHistory,
           NEW e \in Devices, NEW type \in EventTypes, Record(e, type)
    PROVE  /\ unread' \in [Devices -> Seq(EventTypes)]
           /\ \A d \in Devices : Len(unread'[d]) <= MaxHistory
           /\ \A d \in Devices : Noticed(d) => Noticed(d)'
<1> DEFINE h == unread[e]
           r == Retained(Append(h, type))
<1>1. /\ unread' = [unread EXCEPT ![e] = r]
      /\ since' = IF type \in Unstable THEN since \union {e} ELSE since
      /\ missed' = IF Len(h) = MaxHistory /\ h[1] \in Unstable THEN missed \union {e} ELSE missed
  BY TrafficScenario DEF Record
<1>2. h \in Seq(EventTypes) /\ Len(h) <= MaxHistory
  OBVIOUS
<1>3. /\ r \in Seq(EventTypes) /\ Len(r) <= MaxHistory
      /\ Len(r) > 0 /\ r[Len(r)] = type
      /\ \A i \in 1..Len(h) : \/ i = 1 /\ Len(h) = MaxHistory
                              \/ \E j \in 1..Len(r) : r[j] = h[i]
  BY <1>2, RetainedIs
<1> HIDE DEF r
<1>4. /\ unread' \in [Devices -> Seq(EventTypes)]
      /\ \A d \in Devices : Len(unread'[d]) <= MaxHistory
  BY <1>1, <1>3
<1>5. ASSUME NEW d \in Devices, Noticed(d), d # e PROVE Noticed(d)'
  <2>1. unread'[d] = unread[d] /\ (d \in since' => d \in since) /\ (d \in missed => d \in missed')
    BY <1>1, <1>5
  <2> QED
    BY <1>5, <2>1 DEF Noticed, Matching
<1>6. ASSUME Noticed(e) PROVE Noticed(e)'
  <2>1. unread'[e] = r /\ DOMAIN r = 1..Len(r) /\ DOMAIN h = 1..Len(h) /\ Len(r) \in Nat
    BY <1>1, <1>2, <1>3
  <2>2. CASE type \in Unstable
    <3>1. Len(r) \in DOMAIN unread'[e] /\ unread'[e][Len(r)] \in Unstable
      BY <1>3, <2>1, <2>2
    <3> QED
      BY <3>1 DEF Noticed, Matching
  <2>3. CASE type \notin Unstable /\ (e \notin since \/ e \in missed)
    <3>1. e \notin since' \/ e \in missed'
      BY <1>1, <2>3
    <3> QED
      BY <3>1 DEF Noticed
  <2>4. CASE Matching(e, Unstable) # {}
    <3>1. PICK i \in 1..Len(h) : h[i] \in Unstable
      BY <2>1, <2>4 DEF Matching
    <3>2. CASE i = 1 /\ Len(h) = MaxHistory
      <4>1. e \in missed'
        BY <1>1, <3>1, <3>2
      <4> QED
        BY <4>1 DEF Noticed
    <3>3. CASE ~(i = 1 /\ Len(h) = MaxHistory)
      <4>1. PICK j \in 1..Len(r) : r[j] = h[i]
        BY <1>3, <3>3
      <4>2. j \in DOMAIN unread'[e] /\ unread'[e][j] \in Unstable
        BY <2>1, <3>1, <4>1
      <4> QED
        BY <4>2 DEF Noticed, Matching
    <3> QED
      BY <3>2, <3>3
  <2> QED
    BY <1>6, <2>2, <2>3, <2>4 DEF Noticed
<1> QED
  BY <1>4, <1>5, <1>6

(* What a read takes off the feed.                                         *)
LEMMA ReadingIs ==
    ASSUME unread \in [Devices -> Seq(EventTypes)], \A d \in Devices : Len(unread[d]) <= MaxHistory,
           NEW c, Reading(c)
    PROVE  /\ unread' \in [Devices -> Seq(EventTypes)]
           /\ \A d \in Devices : Len(unread'[d]) <= MaxHistory
           /\ \A d \in Devices : Noticed(d) /\ d # c.on => Noticed(d)'
           /\ c.kind = "drain" => Noticed(c.on)'
           /\ c.kind = "quiet" /\ Matching(c.on, Unstable) = {} /\ Noticed(c.on) => Noticed(c.on)'
<1>1. unread' = [unread EXCEPT ![c.on] = <<>>]
  BY DEF Reading
<1>2. \/ since' = since \ {c.on} /\ missed' = missed \ {c.on} /\ c.kind # "quiet"
      \/ since' = since /\ missed' = missed /\ c.kind # "drain"
  BY DEF Reading
<1>3. <<>> \in Seq(EventTypes) /\ Len(<<>>) = 0 /\ 0 <= MaxHistory
  BY RunnerBounds
<1>4. /\ unread' \in [Devices -> Seq(EventTypes)]
      /\ \A d \in Devices : Len(unread'[d]) <= MaxHistory
  BY <1>1, <1>3
<1>5. ASSUME NEW d \in Devices, Noticed(d), d # c.on PROVE Noticed(d)'
  <2>1. unread'[d] = unread[d] /\ (d \in since' => d \in since) /\ (d \in missed => d \in missed')
    BY <1>1, <1>2, <1>5
  <2> QED
    BY <1>5, <2>1 DEF Noticed, Matching
<1>6. c.kind = "drain" => Noticed(c.on)'
  BY <1>2 DEF Noticed
<1>7. c.kind = "quiet" /\ Matching(c.on, Unstable) = {} /\ Noticed(c.on) => Noticed(c.on)'
  BY <1>2 DEF Noticed
<1> QED
  BY <1>4, <1>5, <1>6, <1>7

(* A move of the place that reads nothing.                                 *)
LEMMA FeedHeld ==
    ASSUME FlowInv, FeedInv, scenario' = scenario,
           outcome' \in {"running", "passed"} =>
              /\ outcome \in {"running", "passed"}
              /\ pc' > LastDrain => pc > LastDrain
              /\ pc' = LastDrain /\ sample' > 1 => pc = LastDrain /\ sample > 1,
           \/ UNCHANGED feedVars
           \/ \E d \in Devices, type \in EventTypes : Record(d, type)
    PROVE  FeedInv'
<1>1. LastDrain' = LastDrain
  BY Frozen
<1>2. unread \in [Devices -> Seq(EventTypes)] /\ \A d \in Devices : Len(unread[d]) <= MaxHistory
  BY DEF FeedInv
<1>3. /\ unread' \in [Devices -> Seq(EventTypes)]
      /\ \A d \in Devices : Len(unread'[d]) <= MaxHistory
      /\ \A d \in Devices : Noticed(d) => Noticed(d)'
  <2>1. CASE UNCHANGED feedVars
    <3>1. UNCHANGED <<unread, since, missed>>
      BY <2>1 DEF feedVars
    <3> QED
      BY <1>2, <3>1 DEF Noticed, Matching
  <2>2. CASE \E d \in Devices, type \in EventTypes : Record(d, type)
    BY <1>2, <2>2, RecordNotices
  <2> QED
    BY <2>1, <2>2
<1>4. First \in Devices
  BY DevicesAre
<1>5. ASSUME outcome' \in {"running", "passed"}, pc' > LastDrain, NEW d \in Devices PROVE Noticed(d)'
  BY <1>3, <1>5 DEF FeedInv
<1>6. ASSUME outcome' \in {"running", "passed"}, pc' = LastDrain, sample' > 1 PROVE Noticed(First)'
  BY <1>3, <1>4, <1>6 DEF FeedInv
<1> QED
  BY <1>1, <1>3, <1>5, <1>6 DEF FeedInv, First

LEMMA LastDrainChecks ==
    ASSUME scenario \in Scenarios, pc = LastDrain
    PROVE  script[pc].op = "check"
<1>1. script[pc] = DrainEvents
  BY Places
<1> QED
  BY <1>1, PollForms

(* Only the last drain leads past it.                                      *)
LEMMA MovesBefore ==
    ASSUME FlowInv, outcome = "running",
           \/ Advances /\ pc # LastDrain
           \/ Passes
           \/ \E any : Handles(any)
           \/ \E how \in {"failed", "crashed"} : Fails(how)
           \/ \E i, how : Waits(i, how)
    PROVE  /\ scenario' = scenario
           /\ outcome' \in {"running", "passed"} =>
                 /\ outcome \in {"running", "passed"}
                 /\ pc' > LastDrain => pc > LastDrain
                 /\ pc' = LastDrain /\ sample' > 1 => pc = LastDrain /\ sample > 1
<1>1. scenario \in Scenarios /\ pc \in 1..Final
  BY DEF FlowInv
<1>2. LastDrain \in Nat /\ LastDrain > Connected /\ Connected \in Nat
  BY <1>1, Bounds
<1>3. CASE Advances /\ pc # LastDrain
  <2>1. pc' = pc + 1 /\ sample' = 1 /\ UNCHANGED <<scenario, outcome>>
    BY <1>3 DEF Advances
  <2> QED
    BY <1>1, <1>2, <1>3, <2>1
<1>4. CASE Passes
  <2>1. pc' = pc /\ sample' = 1 /\ scenario' = scenario
    BY <1>4 DEF Passes
  <2> QED
    BY <1>1, <1>2, <2>1
<1>5. CASE \E any : Handles(any)
  <2>1. pc' \in 5..Connected /\ scenario' = scenario /\ sample' = 1
    BY <1>5 DEF Handles
  <2> QED
    BY <1>2, <2>1
<1>6. CASE \E how \in {"failed", "crashed"} : Fails(how)
  BY <1>6 DEF Fails
<1>7. CASE \E i, how : Waits(i, how)
  BY <1>7 DEF Waits
<1> QED
  BY <1>3, <1>4, <1>5, <1>6, <1>7

(* A poll of a step.                                                       *)
LEMMA FeedSampled ==
    ASSUME FlowInv, FeedInv, Sample(Seen(Condition), rest)
    PROVE  FeedInv'
<1>1. scenario \in Scenarios /\ pc \in 1..Final /\ sample \in Nat
  BY DEF FlowInv
<1>2. /\ outcome = "running" /\ script[pc].op \in {"wait", "check", "window"}
      /\ sample \in 1..Len(script[pc].what) /\ SampleReads
      /\ \/ /\ Verdicts = "yes" /\ sample < Len(script[pc].what)
            /\ Keeps /\ sample' = sample + 1
         \/ Keeps /\ sample' = 0 /\ script[pc].op \in {"wait", "window"}
         \/ /\ Verdicts = "yes" /\ sample = Len(script[pc].what)
            /\ Advances \/ Passes \/ Handles("no")
         \/ Fails("failed") \/ Handles("failed")
  BY SampleMoves
<1>3. script[pc].op \in Sampling
  BY <1>2 DEF Sampling
<1>4. Connected \in Nat /\ LastDrain \in Nat /\ LastDrain > Connected /\ First \in Devices /\ First = "a"
      /\ Devices = {"a", "b"}
  BY <1>1, Bounds, DevicesAre
<1>5. unread \in [Devices -> Seq(EventTypes)] /\ \A d \in Devices : Len(unread[d]) <= MaxHistory
  BY DEF FeedInv
<1>c. PICK c : c = Condition
  OBVIOUS
<1>6. /\ unread' \in [Devices -> Seq(EventTypes)]
      /\ \A d \in Devices : Len(unread'[d]) <= MaxHistory
      /\ c.kind \notin EventKinds => \A d \in Devices : Noticed(d) => Noticed(d)'
      /\ \A d \in Devices : Noticed(d) /\ d # c.on => Noticed(d)'
      /\ c.kind = "drain" => Noticed(c.on)'
      /\ c.kind = "quiet" /\ Matching(c.on, Unstable) = {} /\ Noticed(c.on) => Noticed(c.on)'
  <2>1. CASE c.kind \in EventKinds
    <3>1. Reading(c)
      BY <1>2, <1>c, <2>1 DEF SampleReads
    <3> QED
      BY <1>5, <2>1, <3>1, ReadingIs
  <2>2. CASE c.kind \notin EventKinds
    <3>1. UNCHANGED <<unread, since, missed>>
      BY <1>2, <1>c, <2>2 DEF SampleReads, feedVars
    <3>2. \A d \in Devices : Noticed(d) => Noticed(d)'
      BY <3>1 DEF Noticed, Matching
    <3>3. c.kind # "drain" /\ c.kind # "quiet"
      BY <2>2 DEF EventKinds
    <3> QED
      BY <1>5, <3>1, <3>2, <3>3
  <2> QED
    BY <2>1, <2>2
<1>7. ASSUME Verdicts # "raise", pc > LastDrain, NEW d \in Devices PROVE Noticed(d)'
  <2>1. Noticed(d)
    BY <1>2, <1>7 DEF FeedInv
  <2>2. c.kind \notin EventKinds \/ \E e \in Devices : c = Quiet(e)
    BY <1>1, <1>2, <1>3, <1>7, <1>c, Conditions
  <2>3. CASE \E e \in Devices : c = Quiet(e)
    <3>1. PICK e \in Devices : c = Quiet(e)
      BY <2>3
    <3>2. c.kind = "quiet" /\ c.on = e /\ c.types = Unstable
      BY <3>1 DEF Quiet, Events
    <3>3. Matching(c.on, Unstable) = {}
      BY <1>7, <1>c, <3>2 DEF Verdicts, Verdict
    <3> QED
      BY <1>6, <2>1, <3>2, <3>3
  <2> QED
    BY <1>6, <2>1, <2>2, <2>3
<1>8. ASSUME pc = LastDrain
      PROVE  /\ sample \in {1, 2} /\ Len(script[pc].what) = 2
             /\ \A d \in Devices : d = "a" \/ sample = 2 => Noticed(d)'
  <2>1. /\ sample \in {1, 2} /\ Len(script[pc].what) = 2
        /\ c = Drain(IF sample = 1 THEN "a" ELSE "b")
    BY <1>1, <1>2, <1>3, <1>8, <1>c, Conditions
  <2>2. c.kind = "drain" /\ c.on = IF sample = 1 THEN "a" ELSE "b"
    BY <2>1 DEF Drain, Events
  <2>3. PICK e \in Devices : e = c.on
    BY <1>4, <2>2
  <2>4. Noticed(e)'
    BY <1>6, <2>2, <2>3
  <2>5. ASSUME NEW d \in Devices, d = "a" \/ sample = 2, d # e PROVE Noticed(d)'
    <3>1. sample = 2 /\ d = "a"
      BY <1>4, <2>1, <2>2, <2>3, <2>5
    <3>2. Noticed(d)
      BY <1>2, <1>4, <1>8, <3>1 DEF FeedInv
    <3> QED
      BY <1>6, <2>3, <2>5, <3>2
  <2> QED
    BY <2>1, <2>4, <2>5
<1>9. LastDrain' = LastDrain
  <2>1. scenario' = scenario
    BY <1>2 DEF Keeps, Advances, Passes, Handles, Fails
  <2> QED
    BY <2>1, Frozen
<1>10. ASSUME outcome' \in {"running", "passed"}, pc' > LastDrain, NEW d \in Devices PROVE Noticed(d)'
  <2>1. CASE Keeps
    <3>1. pc > LastDrain
      BY <1>10, <2>1 DEF Keeps
    <3>2. CASE Verdicts = "raise"
      <4>1. Now.op = script[pc].op
        BY <1>1, NowIs
      <4>2. Raise("failed")
        BY <1>2, <2>1, <3>2 DEF Sample, Verdicts
      <4>3. PICK how \in {"failed", "crashed"} : how = "failed"
        OBVIOUS
      <4>4. Fails(how) \/ Handles(how)
        BY <1>2, <4>2, <4>3, RaiseMoves
      <4>5. ~Handles(how)
        BY <1>1, <1>4, <3>1 DEF Handles
      <4> QED
        BY <1>10, <4>3, <4>4, <4>5 DEF Fails
    <3> QED
      BY <1>7, <3>1, <3>2
  <2>2. CASE Verdicts = "yes" /\ sample = Len(script[pc].what) /\ (Advances \/ Passes \/ Handles("no"))
    <3>1. CASE Handles("no")
      <4>1. pc' \in 5..Connected
        BY <3>1 DEF Handles
      <4> QED
        BY <1>4, <1>10, <4>1
    <3>2. CASE (Advances \/ Passes) /\ pc > LastDrain
      BY <1>7, <2>2, <3>2
    <3>3. CASE (Advances \/ Passes) /\ ~(pc > LastDrain)
      <4>1. pc = LastDrain
        BY <1>1, <1>4, <1>10, <3>3 DEF Advances, Passes
      <4> QED
        BY <1>8, <2>2, <4>1
    <3> QED
      BY <2>2, <3>1, <3>2, <3>3
  <2>3. CASE Fails("failed")
    BY <1>10, <2>3 DEF Fails
  <2>4. CASE Handles("failed")
    <3>1. pc' \in 5..Connected
      BY <2>4 DEF Handles
    <3> QED
      BY <1>4, <1>10, <3>1
  <2> QED
    BY <1>2, <2>1, <2>2, <2>3, <2>4
<1>11. ASSUME outcome' \in {"running", "passed"}, pc' = LastDrain, sample' > 1,
              NEW d \in Devices, d = "a"
       PROVE  Noticed(d)'
  <2>1. Keeps
    <3>1. sample' # 1
      BY <1>11
    <3> QED
      BY <1>2, <3>1 DEF Advances, Passes, Handles, Fails
  <2>2. pc = LastDrain
    BY <1>11, <2>1 DEF Keeps
  <2> QED
    BY <1>8, <1>11, <2>2
<1> QED
  BY <1>4, <1>6, <1>9, <1>10, <1>11 DEF FeedInv, First

LEMMA FeedSteps ==
    ASSUME FlowInv, FeedInv, TrafficNext
    PROVE  FeedInv'
<1>1. scenario \in Scenarios /\ pc \in 1..Final
  BY DEF FlowInv
<1>2. pc = LastDrain => script[pc].op = "check"
  BY <1>1, LastDrainChecks
<1>3. LastDrain \in Nat /\ LastDrain > Connected + 4 /\ Connected \in Nat /\ LastDrain >= 18
  BY <1>1, Bounds
<1>4. ASSUME outcome = "running", UNCHANGED feedVars,
             \/ Advances /\ pc # LastDrain
             \/ Passes
             \/ \E any : Handles(any)
             \/ \E how \in {"failed", "crashed"} : Fails(how)
             \/ \E i, how : Waits(i, how)
      PROVE  FeedInv'
  BY <1>4, MovesBefore, FeedHeld
<1>5. ASSUME scenario' = scenario, pc' = pc, outcome' = outcome, sample' = sample \/ sample' = 1,
             \/ UNCHANGED feedVars
             \/ \E d \in Devices, type \in EventTypes : Record(d, type)
      PROVE  FeedInv'
  <2>1. /\ pc' > LastDrain => pc > LastDrain
        /\ pc' = LastDrain /\ sample' > 1 => pc = LastDrain /\ sample > 1
    BY <1>5
  <2> QED
    BY <1>5, <2>1, FeedHeld
<1>6. ASSUME UNCHANGED controlVars,
             \/ UNCHANGED feedVars
             \/ \E d \in Devices, type \in EventTypes : Record(d, type)
      PROVE  FeedInv'
  <2>1. UNCHANGED <<scenario, pc, outcome, sample>>
    BY <1>6 DEF controlVars
  <2> QED
    BY <1>5, <1>6, <2>1
<1>7. CASE Sample(Seen(Condition), rest)
  BY <1>7, FeedSampled
<1>8. CASE Pick(Seen(Condition), rest)
  <2>1. /\ scenario = "IT-044" /\ pc = 13 /\ outcome = "running" /\ UNCHANGED feedVars
        /\ \/ UNCHANGED <<scenario, pc, outcome>>
           \/ Fails("crashed")
           \/ pc' = 14 /\ UNCHANGED <<scenario, outcome>>
    BY <1>8, PickMoves
  <2>2. CASE Fails("crashed")
    BY <1>4, <2>1, <2>2
  <2>3. CASE UNCHANGED <<scenario, outcome>> /\ pc' \in {13, 14}
    <3>1. ~(pc' > LastDrain) /\ pc' # LastDrain
      BY <1>3, <2>3
    <3> QED
      BY <2>1, <2>3, <3>1, FeedHeld
  <2> QED
    BY <2>1, <2>2, <2>3
<1>9. CASE Assesses
  <2>1. /\ outcome = "running" /\ script[pc].op = "assess" /\ UNCHANGED feedVars
        /\ \/ Advances \/ Passes \/ Handles("no")
           \/ \E how \in {"failed"} : Fails(how) \/ Handles(how)
    BY <1>9, AssessMoves
  <2>2. pc # LastDrain
    BY <1>2, <2>1
  <2> QED
    BY <1>4, <2>1, <2>2
<1>10. CASE Commands
  <2>1. outcome = "running" /\ script[pc].op \in Commanding
    BY <1>10, CommandMoves
  <2>2. PICK i \in open, how \in {"ok", "failed", "crashed"} :
           Settles(i, how) /\ Comes(Now.what[i], how)
    BY <1>10, CommandMoves
  <2>3. pc # LastDrain
    BY <1>2, <2>1 DEF Commanding
  <2>4. UNCHANGED feedVars
    BY <2>2 DEF Comes, Effect
  <2>5. \A h \in {how, raised} \ {"ok", "no"} : h \in {"failed", "crashed"}
    BY DEF FlowInv
  <2> QED
    BY <1>4, <2>1, <2>2, <2>3, <2>4, <2>5 DEF Settles
<1>11. CASE Reraise(rest)
  <2>1. /\ outcome = "running" /\ pc \in 5..Connected /\ UNCHANGED feedVars
        /\ \/ Advances \/ Passes \/ Handles("no")
           \/ raised # "no" /\ (Fails(raised) \/ Handles(raised))
    BY <1>11, ReraiseMoves
  <2>2. pc # LastDrain
    BY <1>3, <2>1
  <2>3. raised # "no" => raised \in {"failed", "crashed"}
    BY DEF FlowInv
  <2> QED
    BY <1>4, <2>1, <2>2, <2>3
<1>12. CASE PollAgain(rest)
  <2>1. Keeps /\ sample' = 1 /\ UNCHANGED feedVars
    BY <1>12, PollAgainMoves
  <2> QED
    BY <1>5, <2>1 DEF Keeps
<1>13. CASE DeadlinePassed(rest)
  <2>1. /\ outcome = "running" /\ UNCHANGED feedVars
        /\ \E how \in {"failed"} : Fails(how) \/ Handles(how)
    BY <1>13, DeadlineMoves
  <2> QED
    BY <1>4, <2>1
<1>14. CASE WindowEnds(rest)
  <2>1. /\ outcome = "running" /\ UNCHANGED feedVars /\ script[pc].op = "window"
        /\ Advances \/ Passes \/ Handles("no")
    BY <1>14, WindowMoves
  <2>2. pc # LastDrain
    BY <1>2, <2>1
  <2> QED
    BY <1>4, <2>1, <2>2
<1>15. CASE ReadFails(EndpointReads, rest)
  <2>1. /\ outcome = "running" /\ UNCHANGED feedVars
        /\ \E how \in {"failed", "crashed"} : Fails(how) \/ Handles(how)
    BY <1>15, ReadFailsMoves DEF FailsOrHandles
  <2> QED
    BY <1>4, <2>1
<1>16. CASE \E c \in late : LateCommand(c, Accepts(c), Effect(c))
  <2>1. UNCHANGED controlVars /\ UNCHANGED feedVars
    BY <1>16 DEF LateCommand, Effect
  <2> QED
    BY <1>6, <2>1
<1>17. CASE DevicesMove
  <2>1. /\ UNCHANGED controlVars
        /\ \/ UNCHANGED feedVars
           \/ \E d \in Devices, type \in EventTypes : Record(d, type)
    BY <1>17, DevicesMoves DEF EventTypes
  <2> QED
    BY <1>6, <2>1
<1>18. CASE ProducersMove
  <2>1. UNCHANGED controlVars /\ UNCHANGED feedVars
    BY <1>18 DEF ProducersMove, stepVars
  <2> QED
    BY <1>6, <2>1
<1> QED
  BY <1>7, <1>8, <1>9, <1>10, <1>11, <1>12, <1>13, <1>14, <1>15, <1>16, <1>17, <1>18
     DEF TrafficNext, Proceeds

-----------------------------------------------------------------------------
(* The commands of the scenarios.                                          *)

CommandAt(i, c) ==
    \/ pc \in {1, 2} /\ c = Command("resetRuntime", Apis[pc], Apis[pc])
    \/ pc \in 5..(Connected - 1) /\ c.name \in Harmless
    \/ scenario = "IT-044" /\ pc \in {10, 11} /\ \E d \in Devices : c = Command("createGroup", d, d)
    \/ /\ scenario # "IT-044" /\ pc \in StartPlaces
       /\ \E size \in Nat : c = Command("startSendTest", Apis[i], size)
    \/ scenario # "IT-044" /\ pc - 2 \in StartPlaces /\ c = Command("stopSendTest", Apis[i], 0)
    \/ /\ scenario = "IT-044" /\ pc \in StartPlaces
       /\ \E size \in Nat : c = Command("startCheckpointTest", chosen, size)
    \/ /\ scenario = "IT-044" /\ pc - 1 \in StartPlaces
       /\ c = Command("stopCheckpointTest", chosen, 0)

LEMMA CommandsAre ==
    ASSUME scenario \in Scenarios, pc \in 1..Final, script[pc].op \in Commanding,
           NEW i \in DOMAIN script[pc].what
    PROVE  /\ CommandAt(i, Now.what[i])
           /\ script[pc].op = "cmd" => i = 1
           /\ script[pc].op = "pair" => i \in {1, 2} /\ scenario # "IT-044"
<1>1. ASSUME script[pc].toChosen = FALSE PROVE Now = script[pc]
  BY <1>1, LinearSteps, NowIs
<1>2. ASSUME NEW x, script[pc].what = <<x>>, Addressed(script[pc]) PROVE Now.what[i] = [x EXCEPT !.on = chosen]
  <2>1. i = 1
    BY <1>2
  <2> QED
    BY <1>2, <2>1, AddressedNow
<1>3. ASSUME NEW name, NEW size, NEW d
      PROVE  [Command(name, d, size) EXCEPT !.on = chosen] = Command(name, chosen, size)
  BY DEF Command
<1>4. /\ script[pc].op = "cmd" => i = 1
      /\ script[pc].op = "pair" => i \in {1, 2} /\ scenario # "IT-044"
  BY StepIs
<1>5. CASE Resetting(pc)
  <2>1. script[pc] = ResetRuntime(Apis[pc]) /\ pc \in {1, 2}
    BY <1>5 DEF Resetting
  <2>2. script[pc].toChosen = FALSE
    BY <2>1, PlainSteps, LinearSteps
  <2>3. Now.what = <<Command("resetRuntime", Apis[pc], Apis[pc])>> /\ i = 1
    BY <1>1, <1>4, <2>1, <2>2, CommandForms
  <2>4. Now.what[i] = Command("resetRuntime", Apis[pc], Apis[pc])
    BY <2>3
  <2> QED
    BY <1>4, <2>1, <2>4 DEF CommandAt
<1>6. CASE Preflights(pc)
  <2>1. script[pc].op \in {"check", "wait"}
    BY <1>6, PollForms DEF Preflights
  <2> QED
    BY <2>1 DEF Commanding
<1>7. CASE Handling(pc)
  <2>1. HandlerStep(script[pc], Labels) /\ pc \in 5..(Connected - 1)
    BY <1>7 DEF Handling
  <2>2. script[pc].op = "cmd" /\ script[pc].toChosen = FALSE
    BY <2>1 DEF HandlerStep, Commanding
  <2>3. PICK c : script[pc].what = <<c>> /\ c.name \in Harmless
    BY <2>1, <2>2 DEF HandlerStep
  <2>4. Now.what[i] = c
    <3>1. Now = script[pc] /\ i = 1
      BY <1>1, <1>4, <2>2
    <3>2. Now.what = <<c>>
      BY <2>3, <3>1
    <3> QED
      BY <3>1, <3>2
  <2> QED
    BY <1>4, <2>1, <2>3, <2>4 DEF CommandAt
<1>8. CASE Reraising(pc)
  <2>1. script[pc].op = "reraise"
    BY <1>8 DEF Reraising, Ended, At, Step
  <2> QED
    BY <2>1 DEF Commanding
<1>9. CASE Selecting(pc)
  <2>1. \A d, e : PeerId(d, e).op = "check"
    BY PollForms
  <2>2. script[pc].op \in {"check", "wait"}
    BY <1>9, <2>1, PollForms DEF Selecting
  <2> QED
    BY <2>2 DEF Commanding
<1>10. CASE Forming(pc)
  <2>1. CASE \E d \in Devices : script[pc] = CreateGroup(d) /\ pc \in {10, 11}
    <3>1. PICK d \in Devices : script[pc] = CreateGroup(d) /\ pc \in {10, 11}
      BY <2>1
    <3>2. script[pc].toChosen = FALSE
      BY <3>1, PlainSteps, LinearSteps
    <3>3. Now.what = <<Command("createGroup", d, d)>> /\ i = 1
      BY <1>1, <1>4, <3>1, <3>2, CommandForms
    <3>4. Now.what[i] = Command("createGroup", d, d)
      BY <3>3
    <3>5. scenario = "IT-044"
      BY <1>10 DEF Forming
    <3> QED
      BY <1>4, <3>1, <3>4, <3>5 DEF CommandAt
  <2>2. CASE script[pc] = WaitGroup \/ script[pc] = PickCoordinator
    <3>1. script[pc].op \in {"wait", "pick"}
      BY <2>2, PollForms
    <3> QED
      BY <3>1 DEF Commanding
  <2> QED
    BY <1>10, <2>1, <2>2, DevicesAre DEF Forming
<1>11. CASE Between(pc)
  <2>1. Assess("bandwidth", 0).op = "assess"
    BY AssessForms
  <2>2. script[pc].op \in {"window", "check", "assess"}
    BY <1>11, <2>1, PollForms, AddressedForms DEF Between
  <2> QED
    BY <2>2 DEF Commanding
<1>12. CASE Loading(pc)
  <2>1. ASSUME NEW x, NEW y, IsPair(script[pc].what, x, y), script[pc].op = "pair", script[pc].toChosen = FALSE
        PROVE  i \in {1, 2} /\ Now.what[i] = IF i = 1 THEN x ELSE y
    <3>1. i \in {1, 2} /\ Now = script[pc]
      BY <1>1, <1>4, <2>1
    <3>2. script[pc].what[1] = x /\ script[pc].what[2] = y
      BY <2>1, Pairwise
    <3> QED
      BY <3>1, <3>2
  <2>2. CASE pc \in StartPlaces /\ \E size \in Nat : script[pc] = Start(size)
    <3>1. PICK size \in Nat : script[pc] = Start(size)
      BY <2>2
    <3> DEFINE x == Command("startSendTest", "a", size)
               y == Command("startSendTest", "b", size)
    <3>2. script[pc].op = "pair" /\ IsPair(script[pc].what, x, y)
      BY <3>1, CommandForms
    <3>3. script[pc].toChosen = FALSE
      <4>1. Plain(Start(size))
        BY PlainSteps
      <4> QED
        BY <3>1, <4>1, LinearSteps
    <3> HIDE DEF x, y
    <3>4. i \in {1, 2} /\ Now.what[i] = IF i = 1 THEN x ELSE y
      BY <2>1, <3>2, <3>3
    <3>5. Now.what[i] = Command("startSendTest", Apis[i], size)
      BY <3>4, DevicesAre DEF x, y
    <3> QED
      BY <1>4, <1>12, <2>2, <3>5 DEF CommandAt, Loading
  <2>3. CASE pc - 2 \in StartPlaces /\ script[pc] = Stop
    <3> DEFINE x == Command("stopSendTest", "a", 0)
               y == Command("stopSendTest", "b", 0)
    <3>2. script[pc].op = "pair" /\ IsPair(script[pc].what, x, y)
      BY <2>3, CommandForms
    <3>3. script[pc].toChosen = FALSE
      BY <2>3, PlainSteps, LinearSteps
    <3> HIDE DEF x, y
    <3>4. i \in {1, 2} /\ Now.what[i] = IF i = 1 THEN x ELSE y
      BY <2>1, <3>2, <3>3
    <3>5. Now.what[i] = Command("stopSendTest", Apis[i], 0)
      BY <3>4, DevicesAre DEF x, y
    <3> QED
      BY <1>4, <1>12, <2>3, <3>5 DEF CommandAt, Loading
  <2>4. CASE script[pc] = StabilityWindow \/ \E size \in Nat : script[pc] = Tally(size)
    <3>1. ASSUME NEW size PROVE Tally(size).op = "assess"
      <4>1. \A kind : Assess(kind, size).op = "assess"
        BY AssessForms
      <4> QED
        BY <4>1 DEF Tally
    <3>2. script[pc].op \in {"window", "assess"}
      BY <2>4, <3>1, PollForms
    <3> QED
      BY <3>2 DEF Commanding
  <2> QED
    BY <1>12, <2>2, <2>3, <2>4 DEF Loading
<1>13. CASE Publishing(pc)
  <2>1. CASE pc \in StartPlaces /\ \E size \in Nat : script[pc] = StartPublishing(size)
    <3>1. PICK size \in Nat : script[pc] = StartPublishing(size)
      BY <2>1
    <3>2. Now.what[i] = [Command("startCheckpointTest", First, size) EXCEPT !.on = chosen]
      BY <1>2, <3>1, AddressedForms, AddressedSteps
    <3>3. Now.what[i] = Command("startCheckpointTest", chosen, size)
      BY <1>3, <3>2
    <3> QED
      BY <1>4, <1>13, <2>1, <3>3 DEF CommandAt, Publishing
  <2>2. CASE pc - 1 \in StartPlaces /\ script[pc] = StopPublishing
    <3>2. Now.what[i] = [Command("stopCheckpointTest", First, 0) EXCEPT !.on = chosen]
      BY <1>2, <2>2, AddressedForms, AddressedSteps
    <3>3. Now.what[i] = Command("stopCheckpointTest", chosen, 0)
      BY <1>3, <3>2
    <3> QED
      BY <1>4, <1>13, <2>2, <3>3 DEF CommandAt, Publishing
  <2>3. CASE script[pc] = AwaitDrained \/ script[pc] = CheckCounters
    <3>1. script[pc].op \in {"wait", "check"}
      BY <2>3, AddressedForms
    <3> QED
      BY <3>1 DEF Commanding
  <2> QED
    BY <1>13, <2>1, <2>2, <2>3 DEF Publishing
<1> QED
  BY <1>5, <1>6, <1>7, <1>8, <1>9, <1>10, <1>11, <1>12, <1>13, Partition

(* What such a command does to the group.                                  *)
LEMMA GroupCommanded ==
    ASSUME scenario = "IT-044", pc \in 1..Final, NEW i, NEW c, CommandAt(i, c), Accepts(c), Effect(c),
           group \in [Devices -> {"none", "joining", "ready"}]
    PROVE  /\ flaps' = flaps
           /\ \/ pc <= 2 /\ \E d \in Devices : group' = [group EXCEPT ![d] = "none"] /\ leading' = leading \ {d}
              \/ pc > 2 /\ UNCHANGED <<group, leading>>
              \/ /\ pc \in {10, 11} /\ UNCHANGED leading
                 /\ \E d \in Devices : group[d] = "none" /\ group' = [group EXCEPT ![d] = "joining"]
<1>1. Connected = 9 /\ (\A j \in StartPlaces : j \in Nat /\ j > 18) /\ pc \in Nat
  <2>1. scenario \in Scenarios
    BY DEF Scenarios
  <2>2. \A j \in StartPlaces : j \in Nat /\ j > 18
    BY <2>1, StartsApart DEF LastDrain
  <2>3. Final \in Nat
    BY <2>1, Bounds
  <2> QED
    BY <2>2, <2>3 DEF Connected
<1>2. /\ flaps' = flaps
      /\ group' = IF Resets(c) \/ c.name = "leaveGroup" THEN [group EXCEPT ![c.on] = "none"]
                  ELSE IF c.name = "createGroup" THEN [group EXCEPT ![c.on] = "joining"]
                  ELSE group
      /\ leading' = IF Resets(c) \/ c.name = "leaveGroup" THEN leading \ {c.on} ELSE leading
      /\ c.name = "createGroup" => group[c.on] = "none"
  BY DEF Effect, BaseEffect, Accepts, BaseAccepts
<1>3. ASSUME NEW name, NEW d, NEW arg, c = Command(name, d, arg) PROVE c.name = name /\ c.on = d
  BY <1>3 DEF Command
<1>4. CASE pc \in {1, 2} /\ c = Command("resetRuntime", Apis[pc], Apis[pc])
  <2>1. c.name = "resetRuntime" /\ c.on \in Devices
    <3>1. Apis[pc] \in Devices
      BY <1>4, DevicesAre
    <3> QED
      BY <1>3, <1>4, <3>1
  <2>2. group' = [group EXCEPT ![c.on] = "none"] /\ leading' = leading \ {c.on}
    BY <1>2, <2>1 DEF Resets
  <2>3. PICK d \in Devices : d = c.on
    BY <2>1
  <2>4. pc <= 2
    BY <1>4
  <2> QED
    BY <1>2, <2>2, <2>3, <2>4
<1>5. CASE pc \in {10, 11} /\ \E d \in Devices : c = Command("createGroup", d, d)
  <2>1. c.name = "createGroup" /\ c.on \in Devices
    BY <1>3, <1>5
  <2>2. ~Resets(c)
    BY <2>1 DEF Resets
  <2> QED
    BY <1>2, <1>5, <2>1, <2>2
<1>6. ASSUME c.name \in Harmless \cup {"startCheckpointTest", "stopCheckpointTest"}, pc > 2
      PROVE  pc > 2 /\ UNCHANGED <<group, leading>>
  BY <1>2, <1>6 DEF Harmless, Resets
<1>7. CASE pc \in 5..(Connected - 1) /\ c.name \in Harmless
  BY <1>1, <1>2, <1>6, <1>7
<1>8. CASE pc \in StartPlaces /\ \E size \in Nat : c = Command("startCheckpointTest", chosen, size)
  BY <1>1, <1>2, <1>3, <1>6, <1>8
<1>9. CASE pc - 1 \in StartPlaces /\ c = Command("stopCheckpointTest", chosen, 0)
  BY <1>1, <1>2, <1>3, <1>6, <1>9
<1> QED
  BY <1>4, <1>5, <1>7, <1>8, <1>9 DEF CommandAt

-----------------------------------------------------------------------------
(* What crashes a scenario.                                                *)

Cause == faults > 0 \/ (scenario = "IT-044" /\ flaps > 0)

(* The group on the way to the coordinator: once the first device is in    *)
(* it, somebody leads, and unless it moves the two snapshots find it.      *)
GroupInv ==
    /\ group \in [Devices -> {"none", "joining", "ready"}] /\ leading \subseteq Devices
    /\ pc <= 2 => group = [d \in Devices |-> "none"] /\ leading = {}
    /\ pc > 12 \/ (pc = 12 /\ sample = 2) => group[First] = "ready"
    /\ flaps = 0 /\ (\E d \in Devices : group[d] = "ready") => leading # {}
    /\ pc = 13 /\ sample = 2 /\ chosen = "none" /\ flaps = 0 => First \notin leading

CrashInv ==
    /\ outcome = "crashed" \/ raised = "crashed" => Cause
    /\ faults = 0 => late = {}
    /\ scenario = "IT-044" /\ faults = 0 => GroupInv

LEMMA CrashStarts == TrafficInit => CrashInv
<1> SUFFICES ASSUME TrafficInit PROVE CrashInv
  OBVIOUS
<1>1. pc = 1 /\ sample = 1 /\ raised = "no" /\ outcome = "running"
  BY FlowStarts
<1>2. late = {} /\ group = [d \in Devices |-> "none"] /\ leading = {}
  BY DEF TrafficInit, ControlInit, FixtureInit
<1> QED
  BY <1>1, <1>2 DEF CrashInv, GroupInv

(* Causes do not go away.                                                  *)
LEMMA CauseStays ==
    ASSUME FlowInv, TrafficNext
    PROVE  scenario' = scenario /\ faults' \in {faults, faults + 1} /\ flaps' \in {flaps, flaps + 1}
<1>1. FlowInv' /\ faults \in Nat /\ flaps \in Nat
  BY FlowSteps DEF FlowInv
<1>2. ASSUME UNCHANGED rest PROVE flaps' = flaps
  BY <1>2 DEF rest, fixtureVars
<1>3. ASSUME UNCHANGED controlVars PROVE scenario' = scenario
  BY <1>3 DEF controlVars
<1>4. CASE Sample(Seen(Condition), rest)
  <2>1. UNCHANGED <<rest, faults>>
    BY <1>4 DEF Sample
  <2>2. scenario' = scenario
    BY <1>4, SampleMoves DEF Keeps, Advances, Passes, Handles, Fails
  <2> QED
    BY <1>2, <2>1, <2>2
<1>5. CASE Pick(Seen(Condition), rest)
  <2>1. UNCHANGED <<rest, faults>>
    BY <1>5 DEF Pick
  <2>2. scenario' = scenario
    BY <1>5, PickMoves DEF Fails
  <2> QED
    BY <1>2, <2>1, <2>2
<1>6. CASE Assesses
  <2>1. UNCHANGED <<fixtureVars, faults>>
    BY <1>6 DEF Assesses
  <2>2. scenario' = scenario
    BY <1>6, AssessMoves DEF Advances, Passes, Handles, Fails
  <2>3. flaps' = flaps
    BY <2>1 DEF fixtureVars
  <2> QED
    BY <2>1, <2>2, <2>3
<1>7. CASE Commands
  <2>1. PICK i \in open, how \in {"ok", "failed", "crashed"} :
           Settles(i, how) /\ Comes(Now.what[i], how)
    BY <1>7, CommandMoves
  <2>2. scenario' = scenario
    BY <2>1 DEF Settles, Waits, Advances, Passes, Handles, Fails
  <2>3. flaps' = flaps /\ (faults' = faults \/ faults' = faults + 1)
    BY <1>2, <2>1 DEF Comes, Effect, BaseEffect
  <2> QED
    BY <2>2, <2>3
<1>8. CASE Reraise(rest)
  <2>1. UNCHANGED <<rest, faults>>
    BY <1>8 DEF Reraise
  <2>2. scenario' = scenario
    BY <1>8, ReraiseMoves DEF Advances, Passes, Handles, Fails
  <2> QED
    BY <1>2, <2>1, <2>2
<1>9. CASE PollAgain(rest)
  <2>1. UNCHANGED <<rest, faults, scenario>>
    BY <1>9 DEF PollAgain
  <2> QED
    BY <1>2, <2>1
<1>10. CASE DeadlinePassed(rest)
  <2>1. UNCHANGED <<rest, faults>>
    BY <1>10 DEF DeadlinePassed
  <2>2. scenario' = scenario
    BY <1>10, DeadlineMoves DEF Handles, Fails
  <2> QED
    BY <1>2, <2>1, <2>2
<1>11. CASE WindowEnds(rest)
  <2>1. UNCHANGED <<rest, faults>>
    BY <1>11 DEF WindowEnds
  <2>2. scenario' = scenario
    BY <1>11, WindowMoves DEF Advances, Passes, Handles
  <2> QED
    BY <1>2, <2>1, <2>2
<1>12. CASE ReadFails(EndpointReads, rest)
  <2>1. UNCHANGED rest /\ faults' = faults + 1
    BY <1>12 DEF ReadFails, Fault
  <2>2. scenario' = scenario
    BY <1>12, ReadFailsMoves DEF FailsOrHandles, Handles, Fails
  <2> QED
    BY <1>2, <2>1, <2>2
<1>13. CASE \E c \in late : LateCommand(c, Accepts(c), Effect(c))
  <2>1. UNCHANGED controlVars /\ faults' = faults /\ flaps' = flaps
    BY <1>13 DEF LateCommand, Effect, BaseEffect
  <2> QED
    BY <1>3, <2>1
<1>14. CASE DevicesMove
  <2>1. UNCHANGED controlVars /\ faults' = faults /\ (flaps' = flaps \/ flaps' = flaps + 1)
    BY <1>14, DevicesMoves
  <2> QED
    BY <1>3, <2>1
<1>15. CASE ProducersMove
  <2>1. UNCHANGED <<stepVars, fixtureVars>>
    BY <1>15 DEF ProducersMove
  <2>2. UNCHANGED controlVars /\ faults' = faults /\ flaps' = flaps
    BY <2>1 DEF stepVars, fixtureVars
  <2> QED
    BY <1>3, <2>2
<1> QED
  BY <1>4, <1>5, <1>6, <1>7, <1>8, <1>9, <1>10, <1>11, <1>12, <1>13, <1>14, <1>15
     DEF TrafficNext, Proceeds

(* A move of the place while the group stands still.                       *)
LEMMA GroupHeld ==
    ASSUME FlowInv, GroupInv, UNCHANGED <<group, leading, flaps>>,
           pc' <= 2 => pc <= 2,
           pc' > 12 \/ (pc' = 12 /\ sample' = 2) => pc > 12 \/ (pc = 12 /\ sample = 2),
           pc' = 13 /\ sample' = 2 => pc = 13 /\ sample = 2 /\ chosen' = chosen
    PROVE  GroupInv'
BY DEF GroupInv, First

(* The steps of the runner, but for a poll at the group and the pick.      *)
LEMMA GroupMoves ==
    ASSUME FlowInv, scenario = "IT-044", outcome = "running",
           \/ Advances /\ pc # 12
           \/ Passes
           \/ \E any : Handles(any)
           \/ \E how \in {"failed", "crashed"} : Fails(how)
           \/ \E i, how : Waits(i, how)
           \/ Keeps /\ pc # 12 /\ pc # 13
           \/ Keeps /\ sample' # 2
    PROVE  /\ pc' <= 2 => pc <= 2
           /\ pc' > 12 \/ (pc' = 12 /\ sample' = 2) => pc > 12 \/ (pc = 12 /\ sample = 2)
           /\ pc' = 13 /\ sample' = 2 => pc = 13 /\ sample = 2 /\ chosen' = chosen
<1>1. scenario \in Scenarios /\ pc \in 1..Final /\ Final \in Nat /\ Connected = 9
  BY Bounds DEF FlowInv, Connected
<1>2. CASE Advances /\ pc # 12
  <2>1. pc' = pc + 1 /\ sample' = 1
    BY <1>2 DEF Advances
  <2> QED
    BY <1>1, <1>2, <2>1
<1>3. CASE Passes
  <2>1. pc' = pc /\ sample' = 1 /\ pc = Final /\ Final >= 24
    BY <1>1, <1>3, Bounds DEF Passes
  <2> QED
    BY <1>1, <2>1
<1>4. CASE \E any : Handles(any)
  <2>1. pc' \in 5..9
    BY <1>1, <1>4 DEF Handles
  <2> QED
    BY <2>1
<1>5. CASE \E how \in {"failed", "crashed"} : Fails(how)
  <2>1. pc' = pc /\ sample' = 1
    BY <1>5 DEF Fails
  <2> QED
    BY <1>1, <2>1
<1>6. CASE \E i, how : Waits(i, how)
  <2>1. pc' = pc /\ sample' = sample /\ chosen' = chosen
    BY <1>6 DEF Waits
  <2> QED
    BY <2>1
<1>7. CASE Keeps /\ ((pc # 12 /\ pc # 13) \/ sample' # 2)
  <2>1. pc' = pc /\ chosen' = chosen
    BY <1>7 DEF Keeps
  <2> QED
    BY <1>1, <1>7, <2>1
<1> QED
  BY <1>2, <1>3, <1>4, <1>5, <1>6, <1>7

LEMMA GroupSampled ==
    ASSUME FlowInv, scenario = "IT-044", GroupInv, Sample(Seen(Condition), rest)
    PROVE  GroupInv'
<1>1. scenario \in Scenarios /\ pc \in 1..Final
  BY DEF FlowInv
<1>2. /\ outcome = "running" /\ script[pc].op \in {"wait", "check", "window"}
      /\ sample \in 1..Len(script[pc].what) /\ UNCHANGED rest
      /\ \/ /\ Verdicts = "yes" /\ sample < Len(script[pc].what)
            /\ Keeps /\ sample' = sample + 1
         \/ Keeps /\ sample' = 0
         \/ /\ Verdicts = "yes" /\ sample = Len(script[pc].what)
            /\ Advances \/ Passes \/ Handles("no")
         \/ Fails("failed") \/ Handles("failed")
  BY SampleMoves
<1>3. UNCHANGED <<group, leading, flaps>>
  BY <1>2 DEF rest, fixtureVars
<1>4. pc # 13
  <2>1. ASSUME pc = 13 PROVE script[pc].op = "pick"
    <3>1. 13 \in 1..19
      OBVIOUS
    <3> QED
      BY <2>1, <3>1, CheckpointPlaces, FormedIs, PollForms
  <2> QED
    BY <1>2, <2>1
<1>5. CASE pc # 12 \/ ~(Keeps \/ Advances) \/ (Keeps /\ sample' # 2)
  <2>1. \/ Advances /\ pc # 12
        \/ Passes
        \/ \E any : Handles(any)
        \/ \E how \in {"failed", "crashed"} : Fails(how)
        \/ Keeps /\ pc # 12 /\ pc # 13
        \/ Keeps /\ sample' # 2
    <3>1. Passes \/ Handles("no") \/ Fails("failed") \/ Handles("failed")
          \/ Keeps \/ Advances
      BY <1>2
    <3>2. ASSUME Keeps, Advances PROVE FALSE
      BY <1>1, <3>2, Bounds DEF Keeps, Advances
    <3> QED
      BY <1>4, <1>5, <3>1, <3>2
  <2>2. /\ pc' <= 2 => pc <= 2
        /\ pc' > 12 \/ (pc' = 12 /\ sample' = 2) => pc > 12 \/ (pc = 12 /\ sample = 2)
        /\ pc' = 13 /\ sample' = 2 => pc = 13 /\ sample = 2 /\ chosen' = chosen
    BY <1>2, <2>1, GroupMoves
  <2> QED
    BY <1>3, <2>2, GroupHeld
<1>6. CASE pc = 12 /\ (Keeps \/ Advances) /\ ~(Keeps /\ sample' # 2)
  <2>1. /\ sample \in {1, 2} /\ Len(script[pc].what) = 2
        /\ Condition = Shows("group", IF sample = 1 THEN "a" ELSE "b")
    BY <1>1, <1>2, <1>6, Conditions DEF Sampling
  <2>2. (Keeps /\ sample' = 2) \/ Advances
    BY <1>6
  <2>3. ~(Keeps /\ Advances)
    BY <1>1, Bounds DEF Keeps, Advances
  <2>4. CASE Keeps /\ sample' = 2
    <3>1. sample = 1 /\ Verdicts = "yes"
      <4>1. ~Passes /\ ~Fails("failed") /\ ~Handles("no") /\ ~Handles("failed")
        BY <1>1, <2>4 DEF Passes, Fails, Handles
      <4> QED
        BY <1>2, <2>1, <2>3, <2>4, <4>1
    <3>2. Condition.kind = "group" /\ Condition.on = "a"
      BY <2>1, <3>1 DEF Shows
    <3>3. Seen(Condition)
      BY <3>1, <3>2 DEF Verdicts, Verdict
    <3>4. group["a"] = "ready"
      BY <3>2, <3>3 DEF Seen, BaseSeen
    <3>5. pc' = 12 /\ First = "a"
      BY <1>6, <2>4, DevicesAre DEF Keeps
    <3> QED
      BY <1>3, <3>4, <3>5 DEF GroupInv, First
  <2>5. CASE Advances
    <3>1. pc' = 13 /\ sample' = 1
      BY <1>6, <2>5 DEF Advances
    <3>2. sample = 2
      <4>1. ~Passes /\ ~Fails("failed") /\ ~Keeps
        BY <1>1, <2>3, <2>5, Bounds DEF Passes, Advances, Fails
      <4>2. ~Handles("no") /\ ~Handles("failed")
        BY <1>6 DEF Handles, Connected
      <4> QED
        BY <1>2, <2>1, <4>1, <4>2
    <3>3. group[First] = "ready"
      BY <1>6, <3>2 DEF GroupInv
    <3> QED
      BY <1>3, <3>1, <3>3 DEF GroupInv, First
  <2> QED
    BY <2>2, <2>4, <2>5
<1> QED
  BY <1>5, <1>6

LEMMA GroupPicked ==
    ASSUME FlowInv, scenario = "IT-044", GroupInv, Pick(Seen(Condition), rest)
    PROVE  /\ GroupInv'
           /\ outcome' = "crashed" => flaps > 0
<1>1. /\ pc = 13 /\ sample \in {1, 2} /\ UNCHANGED rest
      /\ Condition = Shows("leads", IF sample = 1 THEN "a" ELSE "b")
      /\ \/ /\ sample = 1 /\ chosen' = FoundLeader /\ sample' = 2
            /\ UNCHANGED <<pc, outcome>>
         \/ sample = 2 /\ FoundLeader = "none" /\ Fails("crashed")
         \/ /\ sample = 2 /\ pc' = 14 /\ sample' = 1 /\ outcome' = outcome
  BY PickMoves
<1>2. UNCHANGED <<group, leading, flaps>> /\ outcome = "running" /\ flaps \in Nat
  BY <1>1, PickMoves DEF rest, fixtureVars, FlowInv
<1>3. First = "a" /\ Devices = {"a", "b"}
  BY DevicesAre
<1>4. Condition.kind = "leads" /\ Condition.on = IF sample = 1 THEN "a" ELSE "b"
  BY <1>1 DEF Shows
<1>5. Seen(Condition) <=> Condition.on \in leading
  BY <1>4 DEF Seen, BaseSeen
<1>6. CASE sample = 1
  <2>1. chosen' = FoundLeader /\ sample' = 2 /\ pc' = 13 /\ outcome' = "running"
    BY <1>1, <1>2, <1>6
  <2>2. chosen' = "none" => "a" \notin leading
    BY <1>4, <1>5, <1>6, <2>1 DEF FoundLeader
  <2> QED
    BY <1>1, <1>2, <1>3, <2>1, <2>2 DEF GroupInv, First
<1>7. CASE sample = 2 /\ FoundLeader = "none" /\ Fails("crashed")
  <2>1. pc' = 13 /\ sample' = 1
    BY <1>1, <1>7 DEF Fails
  <2>2. chosen = "none" /\ "b" \notin leading
    <3>1. "b" # "none"
      OBVIOUS
    <3> QED
      BY <1>4, <1>5, <1>7, <3>1 DEF FoundLeader
  <2>3. ASSUME flaps = 0 PROVE FALSE
    <3>1. "a" \notin leading /\ group["a"] = "ready"
      BY <1>1, <1>3, <1>7, <2>2, <2>3 DEF GroupInv
    <3>2. leading # {} /\ leading \subseteq {"a", "b"}
      BY <1>3, <2>3, <3>1 DEF GroupInv
    <3> QED
      BY <2>2, <3>1, <3>2
  <2>4. GroupInv'
    BY <1>1, <1>2, <2>1 DEF GroupInv, First
  <2> QED
    BY <1>2, <2>3, <2>4
<1>8. CASE sample = 2 /\ pc' = 14 /\ sample' = 1 /\ outcome' = outcome
  <2>1. GroupInv'
    BY <1>1, <1>2, <1>8 DEF GroupInv, First
  <2> QED
    BY <1>2, <1>8, <2>1
<1> QED
  BY <1>1, <1>6, <1>7, <1>8

(* The devices form the group, and the coordinator moves.                  *)
LEMMA GroupForming ==
    ASSUME FlowInv, scenario = "IT-044", GroupInv, DevicesMove
    PROVE  GroupInv'
<1>1. UNCHANGED <<pc, sample, chosen>> /\ (flaps' = flaps \/ flaps' = flaps + 1)
  BY DevicesMoves DEF controlVars
<1>2. flaps \in Nat /\ First \in Devices /\ (flaps' = 0 => flaps = 0)
  BY <1>1, DevicesAre DEF FlowInv
<1>3. CASE UNCHANGED <<group, leading>>
  BY <1>1, <1>2, <1>3 DEF GroupInv, First
<1>4. CASE \E d \in Devices : GroupForms(d)
  <2>1. PICK d \in Devices : GroupForms(d)
    BY <1>4
  <2>2. /\ group[d] = "joining" /\ group' = [group EXCEPT ![d] = "ready"] /\ flaps' = flaps
        /\ leading' = IF leading = {} THEN {d} ELSE leading
    BY <2>1 DEF GroupForms
  <2>3. group' \in [Devices -> {"none", "joining", "ready"}] /\ leading' \subseteq Devices
    BY <2>1, <2>2 DEF GroupInv
  <2>4. ~(pc <= 2)
    BY <2>1, <2>2 DEF GroupInv
  <2>5. group[First] = "ready" => group'[First] = "ready"
    BY <1>2, <2>2 DEF GroupInv
  <2>6. leading' # {}
    BY <2>2
  <2>7. pc = 13 /\ sample = 2 /\ chosen = "none" /\ flaps = 0 => First \notin leading'
    BY <1>2, <2>2 DEF GroupInv
  <2> QED
    BY <1>1, <2>2, <2>3, <2>4, <2>5, <2>6, <2>7 DEF GroupInv, First
<1>5. CASE \E p \in Pairs : CoordinatorMoves(p[1], p[2])
  <2>1. PICK p \in Pairs : CoordinatorMoves(p[1], p[2])
    BY <1>5
  <2>2. p[2] \in Devices
    BY DEF Pairs
  <2>3. /\ flaps' = flaps + 1 /\ p[1] \in leading /\ group' = group
        /\ leading' = (leading \ {p[1]}) \union {p[2]}
    BY <2>1 DEF CoordinatorMoves
  <2>4. flaps' # 0
    BY <1>2, <2>3
  <2>5. leading' \subseteq Devices /\ ~(pc <= 2)
    BY <2>2, <2>3 DEF GroupInv
  <2> QED
    BY <1>1, <2>3, <2>4, <2>5 DEF GroupInv, First
<1> QED
  BY <1>3, <1>4, <1>5, DevicesMoves

(* A command, while nothing goes wrong.                                    *)
LEMMA GroupSettled ==
    ASSUME FlowInv, scenario = "IT-044", GroupInv, Commands, faults' = 0
    PROVE  GroupInv'
<1>1. /\ scenario \in Scenarios /\ pc \in 1..Final /\ faults \in Nat /\ open \subseteq Slots(script[pc])
      /\ Connected = 9 /\ Final \in Nat
  BY Bounds DEF FlowInv, Connected
<1>2. outcome = "running" /\ script[pc].op \in Commanding
  BY CommandMoves
<1>3. PICK i \in open, how \in {"ok", "failed", "crashed"} :
         Settles(i, how) /\ Comes(Now.what[i], how)
  BY CommandMoves
<1>4. i \in DOMAIN script[pc].what
  BY <1>1, <1>3 DEF Slots
<1>5. PICK c : c = Now.what[i] /\ CommandAt(i, c)
  BY <1>1, <1>2, <1>4, CommandsAre
<1>6. pc # 12 /\ pc # 13
  <2>1. 12 \in 1..19 /\ 13 \in 1..19
    OBVIOUS
  <2>2. script[12] = WaitGroup /\ script[13] = PickCoordinator
    BY <2>1, CheckpointPlaces, FormedIs
  <2>3. script[12].op = "wait" /\ script[13].op = "pick"
    BY <2>2, PollForms
  <2> QED
    BY <1>2, <2>3 DEF Commanding
<1>7. /\ pc' <= 2 => pc <= 2
      /\ pc' > 12 \/ (pc' = 12 /\ sample' = 2) => pc > 12 \/ (pc = 12 /\ sample = 2)
      /\ pc' = 13 /\ sample' = 2 => pc = 13 /\ sample = 2 /\ chosen' = chosen
  <2>1. \A h \in {how, raised} \ {"ok", "no"} : h \in {"failed", "crashed"}
    BY DEF FlowInv
  <2> QED
    BY <1>2, <1>3, <1>6, <2>1, GroupMoves DEF Settles
<1>8. \/ Accepts(c) /\ Effect(c)
      \/ UNCHANGED rest
  BY <1>3, <1>5 DEF Comes
<1>9. CASE UNCHANGED rest
  <2>1. UNCHANGED <<group, leading, flaps>>
    BY <1>9 DEF rest, fixtureVars
  <2> QED
    BY <1>7, <2>1, GroupHeld
<1>10. CASE Accepts(c) /\ Effect(c)
  <2>1. /\ flaps' = flaps
        /\ \/ pc <= 2 /\ \E d \in Devices : group' = [group EXCEPT ![d] = "none"] /\ leading' = leading \ {d}
           \/ pc > 2 /\ UNCHANGED <<group, leading>>
           \/ /\ pc \in {10, 11} /\ UNCHANGED leading
              /\ \E d \in Devices : group[d] = "none" /\ group' = [group EXCEPT ![d] = "joining"]
    BY <1>1, <1>5, <1>10, GroupCommanded DEF GroupInv
  <2>2. CASE pc <= 2 /\ \E d \in Devices : group' = [group EXCEPT ![d] = "none"] /\ leading' = leading \ {d}
    <3>1. group' = group /\ leading' = leading
      BY <2>2 DEF GroupInv
    <3> QED
      BY <1>7, <2>1, <3>1, GroupHeld
  <2>3. CASE pc > 2 /\ UNCHANGED <<group, leading>>
    BY <1>7, <2>1, <2>3, GroupHeld
  <2>4. CASE /\ pc \in {10, 11} /\ UNCHANGED leading
             /\ \E d \in Devices : group[d] = "none" /\ group' = [group EXCEPT ![d] = "joining"]
    <3>1. PICK d \in Devices : group[d] = "none" /\ group' = [group EXCEPT ![d] = "joining"]
      BY <2>4
    <3>2. group' \in [Devices -> {"none", "joining", "ready"}]
      BY <3>1 DEF GroupInv
    <3>3. \A e \in Devices : group'[e] = "ready" => group[e] = "ready"
      BY <3>1 DEF GroupInv
    <3>4. ~(pc > 12 \/ (pc = 12 /\ sample = 2)) /\ ~(pc <= 2) /\ pc # 13
      BY <2>4
    <3>5. ~(pc' > 12 \/ (pc' = 12 /\ sample' = 2)) /\ ~(pc' <= 2) /\ ~(pc' = 13 /\ sample' = 2)
      BY <1>7, <3>4
    <3> QED
      BY <2>1, <2>4, <3>2, <3>3, <3>5 DEF GroupInv
  <2> QED
    BY <2>1, <2>2, <2>3, <2>4
<1> QED
  BY <1>8, <1>9, <1>10

LEMMA CrashSteps ==
    ASSUME FlowInv, CrashInv, TrafficNext
    PROVE  CrashInv'
<1>1. /\ scenario \in Scenarios /\ pc \in 1..Final /\ faults \in Nat /\ flaps \in Nat
      /\ raised \in {"no", "failed", "crashed"}
  BY DEF FlowInv
<1>2. scenario' = scenario /\ faults' \in {faults, faults + 1} /\ flaps' \in {flaps, flaps + 1}
  BY CauseStays
<1>3. (Cause => Cause') /\ (faults' > faults => Cause') /\ (faults' = 0 => faults = 0)
  BY <1>1, <1>2 DEF Cause
<1>4. ASSUME outcome' = "crashed" => outcome = "crashed" \/ raised = "crashed" \/ Cause',
             raised' = "crashed" => raised = "crashed" \/ Cause',
             faults' = 0 => late' = late,
             scenario = "IT-044" /\ GroupInv /\ faults' = 0 => GroupInv'
      PROVE  CrashInv'
  BY <1>2, <1>3, <1>4 DEF CrashInv
<1>5. ASSUME NEW how \in {"failed", "crashed"}, how = "crashed" => raised = "crashed" \/ Cause',
             Fails(how) \/ Handles(how)
      PROVE  /\ outcome' = "crashed" => outcome = "crashed" \/ raised = "crashed" \/ Cause'
             /\ raised' = "crashed" => raised = "crashed" \/ Cause'
  BY <1>5 DEF Fails, Handles
<1>6. ASSUME \/ Keeps \/ Advances \/ Passes \/ Handles("no")
             \/ \E how \in {"failed"} : Fails(how) \/ Handles(how)
      PROVE  /\ outcome' = "crashed" => outcome = "crashed" \/ raised = "crashed" \/ Cause'
             /\ raised' = "crashed" => raised = "crashed" \/ Cause'
  BY <1>6 DEF Keeps, Advances, Passes, Handles, Fails
<1>7. ASSUME UNCHANGED rest, outcome = "running",
             \/ Advances /\ pc # 12
             \/ Passes
             \/ \E any : Handles(any)
             \/ \E how \in {"failed", "crashed"} : Fails(how)
             \/ Keeps /\ sample' # 2
      PROVE  scenario = "IT-044" /\ GroupInv /\ faults' = 0 => GroupInv'
  <2> SUFFICES ASSUME scenario = "IT-044", GroupInv PROVE GroupInv'
    OBVIOUS
  <2>1. /\ pc' <= 2 => pc <= 2
        /\ pc' > 12 \/ (pc' = 12 /\ sample' = 2) => pc > 12 \/ (pc = 12 /\ sample = 2)
        /\ pc' = 13 /\ sample' = 2 => pc = 13 /\ sample = 2 /\ chosen' = chosen
    BY <1>7, GroupMoves
  <2>2. UNCHANGED <<group, leading, flaps>>
    BY <1>7 DEF rest, fixtureVars
  <2> QED
    BY <2>1, <2>2, GroupHeld
<1>8. ASSUME UNCHANGED <<group, leading, flaps, controlVars>>
      PROVE  scenario = "IT-044" /\ GroupInv /\ faults' = 0 => GroupInv'
  <2>1. pc' = pc /\ sample' = sample /\ chosen' = chosen
    BY <1>8 DEF controlVars
  <2> QED
    BY <1>8, <2>1, GroupHeld
<1>9. scenario = "IT-044" => 12 \in 1..19 /\ script[12] = WaitGroup /\ WaitGroup.op = "wait"
  <2>1. 12 \in 1..19
    OBVIOUS
  <2> QED
    BY <2>1, CheckpointPlaces, FormedIs, PollForms
<1>10. CASE Sample(Seen(Condition), rest)
  <2>1. /\ UNCHANGED late
        /\ \/ Keeps \/ Advances \/ Passes \/ Handles("no")
           \/ Fails("failed") \/ Handles("failed")
    BY <1>10, SampleMoves
  <2> QED
    BY <1>4, <1>6, <1>10, <2>1, GroupSampled
<1>11. CASE Pick(Seen(Condition), rest)
  <2>1. /\ scenario = "IT-044" /\ UNCHANGED <<faults, late>> /\ raised' = raised
    BY <1>11, PickMoves DEF Fails
  <2>2. UNCHANGED <<group, leading, flaps>>
    BY <1>11 DEF Pick, rest, fixtureVars
  <2>3. GroupInv => GroupInv' /\ (outcome' = "crashed" => flaps > 0)
    BY <1>11, <2>1, GroupPicked
  <2>4. outcome' = "crashed" => Cause'
    <3>1. ASSUME outcome' = "crashed", faults = 0 PROVE flaps > 0
      BY <2>1, <2>3, <3>1 DEF CrashInv
    <3>2. ASSUME outcome' = "crashed", faults # 0 PROVE faults' > 0
      BY <1>1, <1>2, <3>2
    <3> QED
      BY <1>1, <1>2, <2>1, <2>2, <3>1, <3>2 DEF Cause
  <2> QED
    BY <1>4, <2>1, <2>3, <2>4
<1>12. CASE Assesses
  <2>1. /\ UNCHANGED <<fixtureVars, faults, late>> /\ outcome = "running" /\ script[pc].op = "assess"
        /\ \/ Advances \/ Passes \/ Handles("no")
           \/ \E how \in {"failed"} : Fails(how) \/ Handles(how)
    BY <1>12, AssessMoves
  <2>2. scenario = "IT-044" => pc # 12
    BY <1>9, <2>1
  <2>3. scenario = "IT-044" /\ GroupInv /\ faults' = 0 => GroupInv'
    <3> SUFFICES ASSUME scenario = "IT-044", GroupInv PROVE GroupInv'
      OBVIOUS
    <3>1. /\ pc' <= 2 => pc <= 2
          /\ pc' > 12 \/ (pc' = 12 /\ sample' = 2) => pc > 12 \/ (pc = 12 /\ sample = 2)
          /\ pc' = 13 /\ sample' = 2 => pc = 13 /\ sample = 2 /\ chosen' = chosen
      BY <2>1, <2>2, GroupMoves
    <3>2. UNCHANGED <<group, leading, flaps>>
      BY <2>1 DEF fixtureVars
    <3> QED
      BY <3>1, <3>2, GroupHeld
  <2> QED
    BY <1>4, <1>6, <2>1, <2>3
<1>13. CASE Commands
  <2>1. PICK i \in open, how \in {"ok", "failed", "crashed"} :
           Settles(i, how) /\ Comes(Now.what[i], how)
    BY <1>13, CommandMoves
  <2>2. how = "crashed" => Cause'
    BY <1>1, <1>3, <2>1 DEF Comes
  <2>3. faults' = 0 => late' = late
    BY <1>1, <2>1 DEF Comes
  <2>4. scenario = "IT-044" /\ GroupInv /\ faults' = 0 => GroupInv'
    BY <1>13, GroupSettled
  <2>5. /\ outcome' = "crashed" => outcome = "crashed" \/ raised = "crashed" \/ Cause'
        /\ raised' = "crashed" => raised = "crashed" \/ Cause'
    <3>1. CASE Waits(i, how)
      BY <2>2, <3>1 DEF Waits
    <3>2. CASE Advances \/ Passes \/ Handles("no")
      BY <1>6, <3>2
    <3>3. CASE \E h \in {how, raised} \ {"ok", "no"} : Fails(h) \/ Handles(h)
      <4>1. PICK h \in {how, raised} \ {"ok", "no"} : Fails(h) \/ Handles(h)
        BY <3>3
      <4>2. h \in {"failed", "crashed"} /\ (h = "crashed" => raised = "crashed" \/ Cause')
        BY <1>1, <2>2, <4>1
      <4> QED
        BY <1>5, <4>1, <4>2
    <3> QED
      BY <2>1, <3>1, <3>2, <3>3 DEF Settles
  <2> QED
    BY <1>4, <2>3, <2>4, <2>5
<1>14. CASE Reraise(rest)
  <2>1. /\ outcome = "running" /\ pc \in 5..Connected /\ UNCHANGED <<rest, late>>
        /\ \/ Advances \/ Passes \/ Handles("no")
           \/ raised # "no" /\ (Fails(raised) \/ Handles(raised))
    BY <1>14, ReraiseMoves
  <2>2. scenario = "IT-044" => pc # 12
    BY <2>1 DEF Connected
  <2>3. raised # "no" => raised \in {"failed", "crashed"}
    BY <1>1
  <2>4. scenario = "IT-044" /\ GroupInv /\ faults' = 0 => GroupInv'
    <3> SUFFICES ASSUME scenario = "IT-044" PROVE GroupInv /\ faults' = 0 => GroupInv'
      OBVIOUS
    <3> QED
      BY <1>7, <2>1, <2>2, <2>3
  <2> QED
    BY <1>4, <1>5, <1>6, <2>1, <2>3, <2>4
<1>15. CASE PollAgain(rest)
  <2>1. outcome = "running" /\ Keeps /\ sample' = 1 /\ UNCHANGED <<rest, late>>
    BY <1>15, PollAgainMoves
  <2>2. scenario = "IT-044" /\ GroupInv /\ faults' = 0 => GroupInv'
    BY <1>7, <2>1
  <2> QED
    BY <1>4, <1>6, <2>1, <2>2
<1>16. CASE DeadlinePassed(rest)
  <2>1. /\ outcome = "running" /\ UNCHANGED <<rest, late>>
        /\ \E how \in {"failed"} : Fails(how) \/ Handles(how)
    BY <1>16, DeadlineMoves
  <2>2. scenario = "IT-044" /\ GroupInv /\ faults' = 0 => GroupInv'
    BY <1>7, <2>1
  <2> QED
    BY <1>4, <1>6, <2>1, <2>2
<1>17. CASE WindowEnds(rest)
  <2>1. /\ outcome = "running" /\ UNCHANGED <<rest, late>> /\ script[pc].op = "window"
        /\ Advances \/ Passes \/ Handles("no")
    BY <1>17, WindowMoves
  <2>2. scenario = "IT-044" => pc # 12
    BY <1>9, <2>1
  <2>3. scenario = "IT-044" /\ GroupInv /\ faults' = 0 => GroupInv'
    <3> SUFFICES ASSUME scenario = "IT-044" PROVE GroupInv /\ faults' = 0 => GroupInv'
      OBVIOUS
    <3> QED
      BY <1>7, <2>1, <2>2
  <2> QED
    BY <1>4, <1>6, <2>1, <2>3
<1>18. CASE ReadFails(EndpointReads, rest)
  <2>1. /\ outcome = "running" /\ UNCHANGED late /\ faults' = faults + 1
        /\ \E how \in {"failed", "crashed"} : Fails(how) \/ Handles(how)
    BY <1>18, ReadFailsMoves DEF FailsOrHandles
  <2>2. Cause' /\ faults' # 0
    BY <1>1, <1>3, <2>1
  <2> QED
    BY <1>4, <2>1, <2>2
<1>19. CASE \E c \in late : LateCommand(c, Accepts(c), Effect(c))
  <2>1. UNCHANGED controlVars /\ faults' = faults /\ late # {}
    BY <1>19 DEF LateCommand
  <2>2. faults' # 0
    BY <2>1 DEF CrashInv
  <2>3. UNCHANGED <<outcome, raised>>
    BY <2>1 DEF controlVars
  <2> QED
    BY <1>4, <2>2, <2>3
<1>20. CASE DevicesMove
  <2>1. UNCHANGED controlVars /\ UNCHANGED <<faults, late>>
    BY <1>20, DevicesMoves
  <2>2. UNCHANGED <<outcome, raised>>
    BY <2>1 DEF controlVars
  <2>3. scenario = "IT-044" /\ GroupInv => GroupInv'
    BY <1>20, GroupForming
  <2> QED
    BY <1>4, <2>1, <2>2, <2>3
<1>21. CASE ProducersMove
  <2>1. UNCHANGED <<stepVars, fixtureVars>>
    BY <1>21 DEF ProducersMove
  <2>2. UNCHANGED <<group, leading, flaps, controlVars>> /\ UNCHANGED <<faults, late>>
    BY <2>1 DEF stepVars, fixtureVars
  <2>3. UNCHANGED <<outcome, raised>>
    BY <2>2 DEF controlVars
  <2> QED
    BY <1>4, <1>8, <2>2, <2>3
<1> QED
  BY <1>10, <1>11, <1>12, <1>13, <1>14, <1>15, <1>16, <1>17, <1>18, <1>19, <1>20, <1>21
     DEF TrafficNext, Proceeds

-----------------------------------------------------------------------------
(* What can still pass.                                                    *)

(* The scenario has not failed, and nothing is going to fail it.           *)
Live == outcome \in {"running", "passed"} /\ (pc > Connected => raised = "no")

(* Once an exception waits in a pair, the scenario does not pass.          *)
LEMMA LiveBefore ==
    ASSUME FlowInv, TrafficNext, Live'
    PROVE  Live
<1>1. scenario \in Scenarios /\ pc \in 1..Final /\ Connected \in Nat /\ Final \in Nat
  BY Bounds DEF FlowInv
<1>2. scenario' = scenario
  BY CauseStays
<1>3. Connected' = Connected
  BY <1>2, Frozen
<1>4. ASSUME UNCHANGED controlVars PROVE Live
  <2>1. UNCHANGED <<pc, raised, outcome>>
    BY <1>4 DEF controlVars
  <2> QED
    BY <1>3, <2>1 DEF Live
<1>5. ASSUME outcome = "running", script[pc].op # "pair" PROVE Live
  BY <1>5 DEF Live, FlowInv
<1>6. CASE Sample(Seen(Condition), rest)
  BY <1>5, <1>6, SampleMoves
<1>7. CASE Pick(Seen(Condition), rest)
  BY <1>7, PickMoves DEF Live
<1>8. CASE Assesses
  BY <1>5, <1>8, AssessMoves
<1>9. CASE Commands
  <2>1. outcome = "running" /\ script[pc].op \in Commanding
    BY <1>9, CommandMoves
  <2>2. PICK i \in open, how \in {"ok", "failed", "crashed"} :
           Settles(i, how) /\ Comes(Now.what[i], how)
    BY <1>9, CommandMoves
  <2>3. ASSUME pc > Connected, raised # "no" PROVE FALSE
    <3>1. CASE Waits(i, how)
      <4>1. pc' = pc /\ raised' = raised
        BY <2>3, <3>1 DEF Waits
      <4> QED
        BY <1>3, <2>3, <4>1 DEF Live
    <3>2. CASE \E h \in {how, raised} \ {"ok", "no"} : Fails(h) \/ Handles(h)
      <4>1. PICK h \in {how, raised} \ {"ok", "no"} : Fails(h) \/ Handles(h)
        BY <3>2
      <4>2. h \in {"failed", "crashed"}
        BY <4>1 DEF FlowInv
      <4>3. ~Handles(h)
        BY <1>1, <2>3 DEF Handles
      <4>4. outcome' = h
        BY <4>1, <4>3 DEF Fails
      <4> QED
        BY <4>2, <4>4 DEF Live
    <3> QED
      BY <2>2, <2>3, <3>1, <3>2 DEF Settles
  <2> QED
    BY <2>1, <2>3 DEF Live
<1>10. CASE Reraise(rest)
  <2>1. outcome = "running" /\ pc \in 5..Connected
    BY <1>10, ReraiseMoves
  <2>2. ~(pc > Connected)
    BY <1>1, <2>1
  <2> QED
    BY <2>1, <2>2 DEF Live
<1>11. CASE PollAgain(rest)
  BY <1>5, <1>11, PollAgainMoves
<1>12. CASE DeadlinePassed(rest)
  <2>1. outcome = "running" /\ Now.op = "wait"
    BY <1>12 DEF DeadlinePassed, Busy
  <2>2. script[pc].op = "wait"
    BY <1>1, <2>1, NowIs
  <2> QED
    BY <1>5, <2>1, <2>2
<1>13. CASE WindowEnds(rest)
  BY <1>5, <1>13, WindowMoves
<1>14. CASE ReadFails(EndpointReads, rest)
  <2>1. outcome = "running" /\ Now.op \in {"wait", "check", "if", "window", "note", "pick"}
    BY <1>14 DEF ReadFails, Busy
  <2>2. script[pc].op # "pair"
    BY <1>1, <2>1, NowIs
  <2> QED
    BY <1>5, <2>1, <2>2
<1>15. CASE \E c \in late : LateCommand(c, Accepts(c), Effect(c))
  BY <1>4, <1>15 DEF LateCommand
<1>16. CASE DevicesMove
  BY <1>4, <1>16, DevicesMoves
<1>17. CASE ProducersMove
  BY <1>4, <1>17 DEF ProducersMove, stepVars
<1> QED
  BY <1>6, <1>7, <1>8, <1>9, <1>10, <1>11, <1>12, <1>13, <1>14, <1>15, <1>16, <1>17
     DEF TrafficNext, Proceeds

(* A command of a scenario that can still pass: it succeeded, or it was    *)
(* one of those whose failure a handler takes.                             *)
Succeeds(i, c) ==
    /\ Accepts(c) /\ Effect(c) /\ UNCHANGED late
    /\ \/ script[pc].op = "pair" /\ open' = open \ {i} /\ open # {i} /\ pc' = pc /\ UNCHANGED <<chosen, outcome>>
       \/ open = {i} /\ (Advances \/ Passes)
Tolerated(c) ==
    /\ pc \in 5..(Connected - 1) /\ pc' \in 5..Connected /\ c.name \in Harmless /\ outcome' = "running"
    /\ Effect(c) \/ UNCHANGED rest
    /\ late' \subseteq late \cup {c}

LEMMA LiveCommands ==
    ASSUME FlowInv, Commands, Live'
    PROVE  \E i \in open : \E c : CommandAt(i, c) /\ (Succeeds(i, c) \/ Tolerated(c))
<1>1. scenario \in Scenarios /\ pc \in 1..Final /\ Connected \in Nat /\ Connected >= 9 /\ open \subseteq Slots(script[pc])
      /\ raised \in {"no", "failed", "crashed"} /\ LastDrain > Connected + 4 /\ LastDrain \in Nat
      /\ (scenario = "IT-044" => Connected = 9)
  BY Bounds DEF FlowInv, Connected
<1>2. outcome = "running" /\ script[pc].op \in Commanding
  BY CommandMoves
<1>3. PICK i \in open, how \in {"ok", "failed", "crashed"} :
         Settles(i, how) /\ Comes(Now.what[i], how)
  BY CommandMoves
<1>4. i \in DOMAIN script[pc].what
  BY <1>1, <1>3 DEF Slots
<1>5. PICK c : c = Now.what[i] /\ CommandAt(i, c)
  BY <1>1, <1>2, <1>4, CommandsAre
<1>6. Comes(c, how)
  BY <1>3, <1>5
<1>7. ASSUME NEW any, Handles(any) PROVE Tolerated(c)
  <2>1. pc \in 5..(Connected - 1) /\ pc' \in 5..Connected /\ outcome' = "running"
    BY <1>2, <1>7 DEF Handles
  <2>2. \A j \in StartPlaces : j \in Nat /\ j > Connected
    BY <1>1, StartsApart
  <2>3. pc \notin StartPlaces /\ pc - 1 \notin StartPlaces /\ pc - 2 \notin StartPlaces
    <3>1. ~(pc > Connected) /\ ~(pc - 1 > Connected) /\ ~(pc - 2 > Connected)
      BY <1>1, <2>1
    <3> QED
      BY <2>2, <3>1
  <2>4. pc \notin {1, 2} /\ (scenario = "IT-044" => pc \notin {10, 11})
    BY <1>1, <2>1
  <2>5. c.name \in Harmless
    BY <1>5, <2>3, <2>4 DEF CommandAt
  <2>6. Effect(c) \/ UNCHANGED rest
    BY <1>6 DEF Comes
  <2>7. late' \subseteq late \cup {c}
    BY <1>6 DEF Comes
  <2> QED
    BY <2>1, <2>5, <2>6, <2>7 DEF Tolerated
<1>8. Connected' = Connected
  <2>1. scenario' = scenario
    BY <1>3 DEF Settles, Waits, Advances, Passes, Handles, Fails
  <2> QED
    BY <2>1, Frozen
<1>9. ASSUME ~(\E any : Handles(any)) PROVE Succeeds(i, c)
  <2>1. ~\E h \in {how, raised} \ {"ok", "no"} : Fails(h)
    <3>1. ASSUME NEW h \in {how, raised} \ {"ok", "no"}, Fails(h) PROVE FALSE
      <4>1. outcome' = h /\ h \in {"failed", "crashed"}
        BY <1>1, <3>1 DEF Fails
      <4> QED
        BY <4>1 DEF Live
    <3> QED
      BY <3>1
  <2>2. Waits(i, how) \/ (how = "ok" /\ open = {i} /\ (Advances \/ Passes))
    BY <1>3, <1>9, <2>1 DEF Settles
  <2>3. how = "ok"
    <3>1. ASSUME Waits(i, how), how # "ok" PROVE FALSE
      <4>1. pc' = pc /\ raised' # "no" /\ script[pc].op = "pair"
        BY <3>1 DEF Waits
      <4>2. pc > Connected
        <5>1. pc \in StartPlaces \/ pc - 2 \in StartPlaces
          BY <1>1, <4>1, StepIs
        <5>2. \A j \in StartPlaces : j \in Nat /\ j > Connected
          BY <1>1, StartsApart
        <5> QED
          BY <1>1, <5>1, <5>2
      <4> QED
        BY <1>8, <4>1, <4>2 DEF Live
    <3> QED
      BY <2>2, <3>1
  <2>4. Accepts(c) /\ Effect(c) /\ UNCHANGED late
    BY <1>6, <2>3 DEF Comes
  <2>5. Waits(i, how) => script[pc].op = "pair" /\ open' = open \ {i} /\ open # {i} /\ pc' = pc /\ UNCHANGED <<chosen, outcome>>
    BY DEF Waits
  <2> QED
    BY <2>2, <2>4, <2>5 DEF Succeeds
<1> QED
  BY <1>5, <1>7, <1>9

(* A command that runs late does not touch a producer.                     *)
LateInv == Live => \A c \in late : c.name \in Harmless

LEMMA LateStarts == TrafficInit => LateInv
BY DEF TrafficInit, ControlInit, LateInv

LEMMA LateSteps ==
    ASSUME FlowInv, LateInv, TrafficNext
    PROVE  LateInv'
<1> SUFFICES ASSUME Live' PROVE \A c \in late' : c.name \in Harmless
  BY DEF LateInv
<1>1. \A c \in late : c.name \in Harmless
  BY LiveBefore DEF LateInv
<1>2. CASE Commands
  <2>0. PICK i \in open : \E c : CommandAt(i, c) /\ (Succeeds(i, c) \/ Tolerated(c))
    BY <1>2, LiveCommands
  <2>1. PICK c : CommandAt(i, c) /\ (Succeeds(i, c) \/ Tolerated(c))
    BY <2>0
  <2>2. late' = late \/ (late' \subseteq late \cup {c} /\ c.name \in Harmless)
    BY <2>1 DEF Succeeds, Tolerated
  <2> QED
    BY <1>1, <2>2
<1>3. CASE ~Commands
  <2>1. late' \subseteq late
    BY <1>3, DevicesMoves
       DEF TrafficNext, Proceeds, Sample, Pick, Assesses, Reraise, PollAgain, DeadlinePassed, WindowEnds,
           ReadFails, LateCommand, ProducersMove, stepVars
  <2> QED
    BY <1>1, <2>1
<1> QED
  BY <1>2, <1>3

-----------------------------------------------------------------------------
(* The producers.                                                          *)

Counts == [on : BOOLEAN, size : Nat, sent : Nat, acked : Nat, lost : Nat, pending : Nat, refused : Nat]
Runs == {r \in Counts : r.sent = r.acked + r.lost + r.pending}

Still(d) == ~producer[d].on /\ producer[d].pending = 0
Loaded(d) == produced[d] = totals[d].sent + producer[d].sent
Carried(d) == produced[d] = totals[d].sent

RunsInv ==
    /\ producer \in [Devices -> Runs] /\ produced \in [Devices -> Nat]
    /\ \A d \in Devices : totals[d].sent \in Nat

Started(size) == [Idle EXCEPT !.on = TRUE, !.size = size]

LEMMA RunsMove ==
    /\ Idle \in Runs /\ ~Idle.on /\ Idle.pending = 0 /\ Idle.sent = 0
    /\ \A size \in Nat : Started(size) \in Runs /\ Started(size).sent = 0
    /\ \A r \in Runs : \A name :
          /\ Stopped(r, name) \in Runs /\ Stopped(r, name).sent = r.sent /\ ~Stopped(r, name).on
          /\ name # "stopCheckpointTest" => Stopped(r, name).pending = 0
<1>1. Idle \in Runs /\ ~Idle.on /\ Idle.pending = 0 /\ Idle.sent = 0
  BY DEF Idle, Runs, Counts
<1>2. ASSUME NEW size \in Nat PROVE Started(size) \in Runs /\ Started(size).sent = 0
  <2>1. PICK r \in Counts : r = Idle
    BY DEF Idle, Counts
  <2>2. Started(size) = [r EXCEPT !.on = TRUE, !.size = size] /\ r.sent = 0 /\ r.acked = 0
        /\ r.lost = 0 /\ r.pending = 0
    BY <2>1 DEF Started, Idle
  <2> DEFINE s == [r EXCEPT !.on = TRUE, !.size = size]
  <2>3. s \in Counts /\ s.sent = r.sent /\ s.acked = r.acked /\ s.lost = r.lost /\ s.pending = r.pending
    BY DEF Counts
  <2>4. Started(size) = s
    BY <2>2
  <2>5. s \in Counts /\ s.sent = 0 /\ s.acked = 0 /\ s.lost = 0 /\ s.pending = 0
    BY <2>2, <2>3
  <2> HIDE DEF s
  <2>6. s \in Runs
    BY <2>5 DEF Runs
  <2> QED
    BY <2>4, <2>5, <2>6
<1>3. ASSUME NEW r \in Runs, NEW name
      PROVE  /\ Stopped(r, name) \in Runs /\ Stopped(r, name).sent = r.sent /\ ~Stopped(r, name).on
             /\ name # "stopCheckpointTest" => Stopped(r, name).pending = 0
  <2>1. r \in Counts /\ r.sent = r.acked + r.lost + r.pending
    BY DEF Runs
  <2>2. CASE name = "stopCheckpointTest"
    <3>1. Stopped(r, name) = [r EXCEPT !.on = FALSE]
      BY <2>2 DEF Stopped
    <3> QED
      BY <2>1, <2>2, <3>1 DEF Runs, Counts
  <2>3. CASE name # "stopCheckpointTest"
    <3>0. PICK l \in Nat : l = r.lost + r.pending
      BY <2>1 DEF Counts
    <3> DEFINE s == [r EXCEPT !.on = FALSE, !.lost = l, !.pending = 0]
    <3>1. Stopped(r, name) = s
      BY <2>3, <3>0 DEF Stopped
    <3>3. s \in Counts /\ s.sent = r.sent /\ s.acked = r.acked /\ s.lost = l /\ s.pending = 0 /\ ~s.on
      BY <2>1 DEF Counts
    <3> HIDE DEF s
    <3>4. s.sent = s.acked + s.lost + s.pending
      BY <2>1, <3>0, <3>3 DEF Counts
    <3> QED
      BY <3>1, <3>3, <3>4 DEF Runs
  <2> QED
    BY <2>2, <2>3
<1> QED
  BY <1>1, <1>2, <1>3

(* What a producer does by itself.                                         *)
LEMMA RunsProduce ==
    ASSUME RunsInv, NEW e \in Devices, Produce(e) \/ Refuse(e) \/ Complete(e)
    PROVE  /\ RunsInv' /\ totals' = totals /\ ~Still(e)
           /\ \A d \in Devices : d # e => producer'[d] = producer[d] /\ produced'[d] = produced[d]
           /\ Loaded(e) => Loaded(e)'
<1> DEFINE r == producer[e]
<1>1. r \in Counts /\ r.sent = r.acked + r.lost + r.pending /\ produced[e] \in Nat /\ totals[e].sent \in Nat
  BY DEF RunsInv, Runs
<1>b. /\ r.sent \in Nat /\ r.acked \in Nat /\ r.lost \in Nat /\ r.pending \in Nat
      /\ r.sent + 1 \in Nat /\ r.pending + 1 \in Nat /\ r.acked + 1 \in Nat /\ r.lost + 1 \in Nat
      /\ r.pending > 0 => r.pending - 1 \in Nat
  <2>1. ASSUME NEW q \in Counts
        PROVE  q.sent \in Nat /\ q.acked \in Nat /\ q.lost \in Nat /\ q.pending \in Nat
    BY DEF Counts
  <2>2. r.sent \in Nat /\ r.acked \in Nat /\ r.lost \in Nat /\ r.pending \in Nat
    BY <1>1, <2>1
  <2> HIDE DEF r
  <2> QED
    BY <2>2
<1>2. CASE Produce(e)
  <2>a. PICK n \in Nat, p \in Nat : n = r.sent + 1 /\ p = r.pending + 1
    BY <1>b
  <2> DEFINE s == [r EXCEPT !.sent = n, !.pending = p]
  <2>1. /\ producer' = [producer EXCEPT ![e] = s] /\ produced' = [produced EXCEPT ![e] = @ + 1]
        /\ totals' = totals /\ r.on
    BY <1>2, <2>a DEF Produce
  <2>2. s \in Counts /\ s.sent = n /\ s.pending = p /\ s.acked = r.acked /\ s.lost = r.lost
    BY <1>1 DEF Counts
  <2> HIDE DEF s
  <2>3. s \in Runs
    BY <1>1, <2>a, <2>2 DEF Runs, Counts
  <2>4. producer'[e] = s /\ produced'[e] = produced[e] + 1
    BY <2>1 DEF RunsInv
  <2>5. Loaded(e) => Loaded(e)'
    BY <1>1, <2>a, <2>1, <2>2, <2>4 DEF Loaded, Counts
  <2> QED
    BY <2>1, <2>3, <2>5 DEF RunsInv, Still
<1>3. CASE Refuse(e)
  <2> DEFINE s == [r EXCEPT !.refused = 1]
  <2>1. producer' = [producer EXCEPT ![e] = s] /\ produced' = produced /\ totals' = totals /\ r.on
    BY <1>3 DEF Refuse
  <2>2. s \in Counts /\ s.sent = r.sent /\ s.pending = r.pending /\ s.acked = r.acked /\ s.lost = r.lost
    BY <1>1 DEF Counts
  <2> HIDE DEF s
  <2>3. s \in Runs
    BY <1>1, <2>2 DEF Runs
  <2>4. producer'[e] = s
    BY <2>1 DEF RunsInv
  <2>5. Loaded(e) => Loaded(e)'
    BY <2>1, <2>2, <2>4 DEF Loaded
  <2> QED
    BY <2>1, <2>3, <2>5 DEF RunsInv, Still
<1>4. CASE Complete(e)
  <2>1. r.pending > 0 /\ produced' = produced /\ totals' = totals
    BY <1>4 DEF Complete
  <2>2. PICK s \in Runs : producer' = [producer EXCEPT ![e] = s] /\ s.sent = r.sent
    <3>a. PICK p \in Nat, k \in Nat, l \in Nat : p = r.pending - 1 /\ k = r.acked + 1 /\ l = r.lost + 1
      BY <1>b, <2>1
    <3> DEFINE a == [r EXCEPT !.pending = p, !.acked = k]
               b == [r EXCEPT !.pending = p, !.lost = l]
    <3>1. producer' = [producer EXCEPT ![e] = a] \/ producer' = [producer EXCEPT ![e] = b]
      BY <1>4, <3>a DEF Complete
    <3>2. a \in Counts /\ a.sent = r.sent /\ a.pending = p /\ a.acked = k /\ a.lost = r.lost
      BY <1>1, <2>1 DEF Counts
    <3>3. b \in Counts /\ b.sent = r.sent /\ b.pending = p /\ b.acked = r.acked /\ b.lost = l
      BY <1>1, <2>1 DEF Counts
    <3> HIDE DEF a, b
    <3>4. a \in Runs
      BY <1>1, <2>1, <3>a, <3>2 DEF Runs, Counts
    <3>5. b \in Runs
      BY <1>1, <2>1, <3>a, <3>3 DEF Runs, Counts
    <3> QED
      BY <3>1, <3>2, <3>3, <3>4, <3>5
  <2>4. producer'[e] = s
    BY <2>2 DEF RunsInv
  <2>5. Loaded(e) => Loaded(e)'
    BY <2>1, <2>2, <2>4 DEF Loaded
  <2>6. ~Still(e)
    BY <2>1 DEF Still
  <2> QED
    BY <2>1, <2>2, <2>5, <2>6 DEF RunsInv
<1> QED
  BY <1>2, <1>3, <1>4

(* What a command does to the producers.                                   *)
LEMMA RunsCommanded ==
    ASSUME scenario \in Scenarios, pc \in 1..Final, RunsInv, NEW i \in {1, 2}, NEW c, CommandAt(i, c), Effect(c)
    PROVE  /\ RunsInv' /\ totals' = totals
           /\ \/ /\ pc \in {1, 2}
                 /\ producer' = [producer EXCEPT ![Apis[pc]] = Idle]
                 /\ produced' = [produced EXCEPT ![Apis[pc]] = 0]
              \/ (pc \in 5..(Connected - 1) \/ (scenario = "IT-044" /\ pc \in {10, 11}))
                 /\ producer' = producer /\ produced' = produced
              \/ /\ scenario # "IT-044" /\ pc \in StartPlaces /\ produced' = produced
                 /\ \E size \in Nat : producer' = [producer EXCEPT ![Apis[i]] = Started(size)]
              \/ /\ scenario # "IT-044" /\ pc - 2 \in StartPlaces /\ produced' = produced
                 /\ producer' = [producer EXCEPT ![Apis[i]] = Stopped(@, "stopSendTest")]
              \/ /\ scenario = "IT-044" /\ pc \in StartPlaces /\ produced' = produced
                 /\ \E size \in Nat : producer' = [producer EXCEPT ![chosen] = Started(size)]
              \/ /\ scenario = "IT-044" /\ pc - 1 \in StartPlaces /\ produced' = produced
                 /\ producer' = [producer EXCEPT ![chosen] = Stopped(@, "stopCheckpointTest")]
<1>1. /\ producer' = [producer EXCEPT ![c.on] =
               IF Resets(c) THEN Idle
               ELSE IF c.name \in {"startSendTest", "startCheckpointTest"} THEN Started(c.arg)
               ELSE IF c.name \in {"stopSendTest", "stopCheckpointTest"} THEN Stopped(@, c.name)
               ELSE @]
      /\ produced' = IF Resets(c) THEN [produced EXCEPT ![c.on] = 0] ELSE produced
      /\ totals' = totals
  BY DEF Effect, Started
<1>2. ASSUME NEW name, NEW d, NEW arg, c = Command(name, d, arg)
      PROVE  c.name = name /\ c.on = d /\ c.arg = arg
  BY <1>2 DEF Command
<1>3. ASSUME c.name # "resetRuntime", c.name # "provisionKnownPeer" PROVE ~Resets(c)
  BY <1>3 DEF Resets
<1>4. producer \in [Devices -> Runs] /\ produced \in [Devices -> Nat] /\ \A d \in Devices : totals[d].sent \in Nat
  BY DEF RunsInv
<1>5. ASSUME NEW d, NEW f, NEW r, f \in [Devices -> Runs], d \in Devices => r \in Runs
      PROVE  [f EXCEPT ![d] = r] \in [Devices -> Runs]
  BY <1>5
<1>6. CASE pc \in {1, 2} /\ c = Command("resetRuntime", Apis[pc], Apis[pc])
  <2>1. c.name = "resetRuntime" /\ c.on = Apis[pc]
    BY <1>2, <1>6
  <2>2. Resets(c)
    BY <2>1 DEF Resets
  <2>3. producer' = [producer EXCEPT ![Apis[pc]] = Idle] /\ produced' = [produced EXCEPT ![Apis[pc]] = 0]
    BY <1>1, <2>1, <2>2
  <2>4. producer' \in [Devices -> Runs] /\ produced' \in [Devices -> Nat]
    BY <1>4, <2>3, RunsMove
  <2> QED
    BY <1>1, <1>4, <1>6, <2>3, <2>4 DEF RunsInv
<1>7. ASSUME c.name \in {"connect", "cancelConnect", "createGroup"}
      PROVE  producer' = producer /\ produced' = produced /\ RunsInv'
  <2>1. ~Resets(c)
    BY <1>3, <1>7
  <2>2. producer' = [producer EXCEPT ![c.on] = @] /\ produced' = produced
    BY <1>1, <1>7, <2>1
  <2>3. producer' = producer
    BY <1>4, <2>2
  <2> QED
    BY <1>1, <1>4, <2>2, <2>3 DEF RunsInv
<1>8. CASE pc \in 5..(Connected - 1) /\ c.name \in Harmless
  BY <1>1, <1>7, <1>8 DEF Harmless
<1>9. CASE scenario = "IT-044" /\ pc \in {10, 11} /\ \E d \in Devices : c = Command("createGroup", d, d)
  BY <1>1, <1>2, <1>7, <1>9
<1>10. ASSUME NEW name \in {"startSendTest", "startCheckpointTest"}, NEW d, NEW size \in Nat,
              c = Command(name, d, size)
       PROVE  producer' = [producer EXCEPT ![d] = Started(size)] /\ produced' = produced /\ RunsInv'
  <2>1. c.name = name /\ c.on = d /\ c.arg = size
    BY <1>2, <1>10
  <2>2. ~Resets(c)
    BY <1>3, <2>1
  <2>3. producer' = [producer EXCEPT ![d] = Started(size)] /\ produced' = produced
    BY <1>1, <2>1, <2>2
  <2>4. producer' \in [Devices -> Runs]
    BY <1>4, <1>5, <2>3, RunsMove
  <2> QED
    BY <1>1, <1>4, <2>3, <2>4 DEF RunsInv
<1>11. ASSUME NEW name \in {"stopSendTest", "stopCheckpointTest"}, NEW d, c = Command(name, d, 0)
       PROVE  producer' = [producer EXCEPT ![d] = Stopped(@, name)] /\ produced' = produced /\ RunsInv'
  <2>1. c.name = name /\ c.on = d
    BY <1>2, <1>11
  <2>2. ~Resets(c)
    BY <1>3, <2>1
  <2>3. producer' = [producer EXCEPT ![d] = Stopped(@, name)] /\ produced' = produced
    BY <1>1, <2>1, <2>2
  <2>4. d \in Devices => Stopped(producer[d], name) \in Runs
    BY <1>4, RunsMove
  <2>5. producer' = [producer EXCEPT ![d] = Stopped(producer[d], name)]
    BY <2>3
  <2>6. producer' \in [Devices -> Runs]
    BY <1>4, <1>5, <2>4, <2>5
  <2> QED
    BY <1>1, <1>4, <2>3, <2>6 DEF RunsInv
<1>12. CASE scenario # "IT-044" /\ pc \in StartPlaces /\ \E size \in Nat : c = Command("startSendTest", Apis[i], size)
  <2>1. PICK size \in Nat : c = Command("startSendTest", Apis[i], size)
    BY <1>12
  <2>2. PICK name \in {"startSendTest", "startCheckpointTest"} : name = "startSendTest"
    OBVIOUS
  <2>3. producer' = [producer EXCEPT ![Apis[i]] = Started(size)] /\ produced' = produced /\ RunsInv'
    BY <1>10, <2>1, <2>2
  <2> QED
    BY <1>1, <1>12, <2>3
<1>13. CASE scenario # "IT-044" /\ pc - 2 \in StartPlaces /\ c = Command("stopSendTest", Apis[i], 0)
  <2>2. PICK name \in {"stopSendTest", "stopCheckpointTest"} : name = "stopSendTest"
    OBVIOUS
  <2>3. producer' = [producer EXCEPT ![Apis[i]] = Stopped(@, name)] /\ produced' = produced /\ RunsInv'
    BY <1>11, <1>13, <2>2
  <2> QED
    BY <1>1, <1>13, <2>2, <2>3
<1>14. CASE scenario = "IT-044" /\ pc \in StartPlaces /\ \E size \in Nat : c = Command("startCheckpointTest", chosen, size)
  <2>1. PICK size \in Nat : c = Command("startCheckpointTest", chosen, size)
    BY <1>14
  <2>2. PICK name \in {"startSendTest", "startCheckpointTest"} : name = "startCheckpointTest"
    OBVIOUS
  <2>3. producer' = [producer EXCEPT ![chosen] = Started(size)] /\ produced' = produced /\ RunsInv'
    BY <1>10, <2>1, <2>2
  <2> QED
    BY <1>1, <1>14, <2>3
<1>15. CASE scenario = "IT-044" /\ pc - 1 \in StartPlaces /\ c = Command("stopCheckpointTest", chosen, 0)
  <2>2. PICK name \in {"stopSendTest", "stopCheckpointTest"} : name = "stopCheckpointTest"
    OBVIOUS
  <2>3. producer' = [producer EXCEPT ![chosen] = Stopped(@, name)] /\ produced' = produced /\ RunsInv'
    BY <1>11, <1>15, <2>2
  <2> QED
    BY <1>1, <1>15, <2>2, <2>3
<1> QED
  BY <1>6, <1>8, <1>9, <1>12, <1>13, <1>14, <1>15 DEF CommandAt

-----------------------------------------------------------------------------
(* Direct traffic, phase by phase.                                         *)

(* Device Apis[k] has a run that the runner has not added up, and its last *)
(* run is over: of a pair, what counts is its own command.                 *)
HasRun(k) ==
    \/ pc \in StartPlaces /\ k \notin open
    \/ pc - 1 \in StartPlaces \/ pc - 2 \in StartPlaces \/ pc - 3 \in StartPlaces
    \/ scenario = "IT-041" /\ pc - 4 \in StartPlaces
Quieted(k) ==
    /\ pc \in StartPlaces => k \in open
    /\ pc - 1 \notin StartPlaces
    /\ pc - 2 \in StartPlaces => k \notin open

Tallied(k) ==
    /\ Quieted(k) => Still(Apis[k])
    /\ HasRun(k) => Loaded(Apis[k])
    /\ ~HasRun(k) => Carried(Apis[k])
    /\ scenario = "IT-041" \/ pc <= Connected => totals[Apis[k]].sent = 0
    /\ scenario = "IT-041" /\ pc = 27 => producer[Apis[k]].acked = producer[Apis[k]].sent

LoadInv == scenario # "IT-044" => Tallied(1) /\ Tallied(2)

(* What the steps of a phase follow.                                       *)
LEMMA PhasePlaces ==
    ASSUME scenario \in Scenarios, pc \in 1..Final
    PROVE  /\ pc <= LastDrain => pc \notin StartPlaces /\ pc - 1 \notin StartPlaces
                                 /\ pc - 2 \notin StartPlaces /\ pc - 3 \notin StartPlaces /\ pc - 4 \notin StartPlaces
           /\ pc \in StartPlaces =>
                 /\ pc < Final /\ pc + 1 \notin StartPlaces
                 /\ pc - 1 \notin StartPlaces /\ pc - 2 \notin StartPlaces /\ pc - 3 \notin StartPlaces
                 /\ pc - 4 \notin StartPlaces
           /\ pc - 1 \in StartPlaces =>
                 /\ pc < Final /\ pc + 1 \notin StartPlaces /\ pc - 2 \notin StartPlaces /\ pc - 3 \notin StartPlaces
           /\ pc - 2 \in StartPlaces =>
                 /\ pc < Final /\ pc + 1 \notin StartPlaces /\ pc - 3 \notin StartPlaces
           /\ pc - 3 \in StartPlaces => pc < Final /\ pc + 1 \notin StartPlaces
           /\ scenario = "IT-041" => Final = 27 /\ (pc - 4 \in StartPlaces <=> pc = 27)
           /\ pc = Final => ~InPhase(pc)
<1>1. ASSUME NEW i \in StartPlaces
      PROVE  /\ i \in Nat /\ i > LastDrain + 1 /\ i + 4 <= Final
             /\ i + 1 \notin StartPlaces /\ i + 2 \notin StartPlaces /\ i + 3 \notin StartPlaces
             /\ i + 4 \notin StartPlaces
  BY <1>1, StartsApart
<1>2. Final \in Nat /\ LastDrain \in Nat /\ pc \in Nat
  BY Bounds
<1>3. ASSUME pc <= LastDrain
      PROVE  pc \notin StartPlaces /\ pc - 1 \notin StartPlaces
             /\ pc - 2 \notin StartPlaces /\ pc - 3 \notin StartPlaces /\ pc - 4 \notin StartPlaces
  <2>1. ASSUME NEW i \in StartPlaces, i \in {pc, pc - 1, pc - 2, pc - 3, pc - 4} PROVE FALSE
    BY <1>1, <1>2, <1>3, <2>1
  <2> QED
    BY <2>1
<1>4. ASSUME pc \in StartPlaces
      PROVE  /\ pc < Final /\ pc + 1 \notin StartPlaces
             /\ pc - 1 \notin StartPlaces /\ pc - 2 \notin StartPlaces /\ pc - 3 \notin StartPlaces
             /\ pc - 4 \notin StartPlaces
  <2>1. pc < Final /\ pc + 1 \notin StartPlaces
    BY <1>1, <1>2, <1>4
  <2>2. ASSUME NEW i \in StartPlaces, i \in {pc - 1, pc - 2, pc - 3, pc - 4} PROVE FALSE
    <3>1. pc = i + 1 \/ pc = i + 2 \/ pc = i + 3 \/ pc = i + 4
      BY <1>1, <1>2, <2>2
    <3> QED
      BY <1>1, <1>4, <3>1
  <2> QED
    BY <2>1, <2>2
<1>5. ASSUME pc - 1 \in StartPlaces
      PROVE  pc < Final /\ pc + 1 \notin StartPlaces /\ pc - 2 \notin StartPlaces /\ pc - 3 \notin StartPlaces
  <2> DEFINE i == pc - 1
  <2>1. /\ i \in Nat /\ i + 4 <= Final /\ i + 2 \notin StartPlaces
    BY <1>1, <1>5
  <2>2. pc < Final /\ pc + 1 = i + 2
    BY <1>2, <2>1
  <2>3. ASSUME NEW j \in StartPlaces, j \in {pc - 2, pc - 3} PROVE FALSE
    <3>1. i = j + 1 \/ i = j + 2
      BY <1>1, <1>2, <2>3
    <3> HIDE DEF i
    <3>2. i \in StartPlaces
      BY <1>5 DEF i
    <3> QED
      BY <1>1, <3>1, <3>2
  <2> HIDE DEF i
  <2> QED
    BY <2>1, <2>2, <2>3
<1>6. ASSUME pc - 2 \in StartPlaces
      PROVE  pc < Final /\ pc + 1 \notin StartPlaces /\ pc - 3 \notin StartPlaces
  <2> DEFINE i == pc - 2
  <2>1. /\ i \in Nat /\ i + 4 <= Final /\ i + 3 \notin StartPlaces
    BY <1>1, <1>6
  <2>2. pc < Final /\ pc + 1 = i + 3
    BY <1>2, <2>1
  <2>3. ASSUME NEW j \in StartPlaces, j = pc - 3 PROVE FALSE
    <3>1. i = j + 1
      BY <1>1, <1>2, <2>3
    <3> HIDE DEF i
    <3>2. i \in StartPlaces
      BY <1>6 DEF i
    <3> QED
      BY <1>1, <3>1, <3>2
  <2> HIDE DEF i
  <2> QED
    BY <2>1, <2>2, <2>3
<1>7. ASSUME pc - 3 \in StartPlaces PROVE pc < Final /\ pc + 1 \notin StartPlaces
  <2> DEFINE i == pc - 3
  <2>1. /\ i \in Nat /\ i + 4 <= Final /\ i + 4 \notin StartPlaces
    BY <1>1, <1>7
  <2>2. pc < Final /\ pc + 1 = i + 4
    BY <1>2, <2>1
  <2> HIDE DEF i
  <2> QED
    BY <2>1, <2>2
<1>8. ASSUME scenario = "IT-041" PROVE Final = 27 /\ (pc - 4 \in StartPlaces <=> pc = 27)
  BY <1>2, <1>8 DEF Final, StartPlaces
<1>9. ASSUME pc = Final, InPhase(pc) PROVE FALSE
  <2>1. ~(pc < Final)
    BY <1>2, <1>9
  <2> QED
    BY <1>4, <1>5, <1>6, <1>7, <1>9, <2>1 DEF InPhase
<1> QED
  BY <1>3, <1>4, <1>5, <1>6, <1>7, <1>8, <1>9

(* Where the devices stand when the runner moves on, but for the commands  *)
(* of a phase and its assessment.                                          *)
LEMMA PhaseKept ==
    ASSUME FlowInv, scenario # "IT-044", scenario' = scenario,
           \/ Keeps /\ open' = open
           \/ UNCHANGED controlVars
           \/ Passes
           \/ pc <= Connected /\ pc' <= Connected /\ pc' \in 1..Final
           \/ Advances /\ pc \notin StartPlaces /\ pc - 2 \notin StartPlaces /\ pc - 3 \notin StartPlaces
    PROVE  /\ \A k \in {1, 2} : /\ HasRun(k)' => HasRun(k)
                                /\ HasRun(k) => HasRun(k)'
                                /\ Quieted(k)' => Quieted(k)
           /\ scenario' = "IT-041" /\ pc' = 27 => pc = 27
           /\ pc' <= Connected => pc <= Connected
<1>1. scenario \in Scenarios /\ pc \in 1..Final /\ Final \in Nat /\ Connected \in Nat /\ LastDrain \in Nat
      /\ Connected < LastDrain /\ Final > LastDrain
  BY Bounds DEF FlowInv
<1>2. StartPlaces' = StartPlaces /\ Connected' = Connected /\ Final' = Final /\ LastDrain' = LastDrain
  BY Frozen
<1>3. CASE pc' = pc /\ open' = open
  BY <1>2, <1>3 DEF HasRun, Quieted
<1>4. CASE Passes
  <2>1. pc' = pc /\ ~InPhase(pc)
    BY <1>1, <1>4, PhasePlaces DEF Passes
  <2> QED
    BY <1>2, <2>1 DEF HasRun, Quieted, InPhase
<1>5. CASE pc <= Connected /\ pc' <= Connected /\ pc' \in 1..Final
  <2>1. pc <= LastDrain /\ pc' <= LastDrain
    BY <1>1, <1>5
  <2>2. ASSUME NEW i \in StartPlaces PROVE i \in Nat /\ i > LastDrain + 1
    BY <1>1, StartsApart
  <2>3. ASSUME NEW q \in Nat, q <= LastDrain
        PROVE  q \notin StartPlaces /\ q - 1 \notin StartPlaces /\ q - 2 \notin StartPlaces
               /\ q - 3 \notin StartPlaces /\ q - 4 \notin StartPlaces
    <3>1. ASSUME NEW i \in StartPlaces, i \in {q, q - 1, q - 2, q - 3, q - 4} PROVE FALSE
      BY <1>1, <2>2, <2>3, <3>1
    <3> QED
      BY <3>1
  <2>4. PICK q \in Nat : q = pc'
    BY <1>1, <1>5
  <2>5. ~HasRun(1) /\ ~HasRun(2) /\ Quieted(1) /\ Quieted(2)
    BY <1>1, <2>1, <2>3 DEF HasRun, Quieted
  <2>6. q <= LastDrain
    BY <2>1, <2>4
  <2>7. ~HasRun(1)' /\ ~HasRun(2)'
    BY <1>2, <2>3, <2>4, <2>6 DEF HasRun
  <2>8. pc' = 27 => scenario' # "IT-041"
    BY <1>2, <2>1, <1>1 DEF LastDrain
  <2> QED
    BY <1>5, <2>5, <2>7, <2>8
<1>6. CASE Advances /\ pc \notin StartPlaces /\ pc - 2 \notin StartPlaces /\ pc - 3 \notin StartPlaces
  <2>1. pc < Final /\ pc' = pc + 1 /\ open' = Slots(script[pc + 1])
    BY <1>6 DEF Advances
  <2>2. pc' - 1 = pc /\ pc' - 2 = pc - 1 /\ pc' - 3 = pc - 2 /\ pc' - 4 = pc - 3
    BY <1>1, <2>1
  <2>3. pc + 1 \in StartPlaces => open' = {1, 2}
    <3> SUFFICES ASSUME pc + 1 \in StartPlaces PROVE open' = {1, 2}
      OBVIOUS
    <3>1. PICK size \in Nat : script[pc + 1] = Start(size)
      BY <1>1, TrafficPlaces DEF Scenarios
    <3>2. Start(size).op = "pair" /\ DOMAIN Start(size).what = 1..2
      BY CommandForms, Pairwise
    <3>3. open' = 1..2
      BY <2>1, <3>1, <3>2 DEF Slots, Commanding
    <3> QED
      BY <3>3
  <2>4. ASSUME NEW k \in {1, 2} PROVE HasRun(k)' <=> pc - 1 \in StartPlaces
    BY <1>2, <1>6, <2>1, <2>2, <2>3 DEF HasRun
  <2>5. ASSUME NEW k \in {1, 2} PROVE HasRun(k) <=> pc - 1 \in StartPlaces
    <3>1. ~(scenario = "IT-041" /\ pc - 4 \in StartPlaces)
      BY <1>1, <2>1, PhasePlaces
    <3> QED
      BY <1>6, <3>1 DEF HasRun
  <2>6. ASSUME NEW k \in {1, 2}, Quieted(k)' PROVE Quieted(k)
    <3>1. pc - 1 \in StartPlaces => open' = {1, 2}
      <4> SUFFICES ASSUME pc - 1 \in StartPlaces PROVE open' = {1, 2}
        OBVIOUS
      <4>1. PICK i \in StartPlaces : i = pc - 1
        OBVIOUS
      <4>2. script[i + 2] = Stop /\ i + 2 = pc + 1
        BY <1>1, <4>1, TrafficPlaces DEF Scenarios
      <4>3. Stop.op = "pair" /\ DOMAIN Stop.what = 1..2
        BY CommandForms, Pairwise
      <4>4. open' = 1..2
        BY <2>1, <4>2, <4>3 DEF Slots, Commanding
      <4> QED
        BY <4>4
    <3>2. pc - 1 \in StartPlaces => FALSE
      BY <1>2, <2>2, <2>6, <3>1 DEF Quieted
    <3> QED
      BY <1>6, <3>2 DEF Quieted
  <2>7. scenario' = "IT-041" /\ pc' = 27 => FALSE
    <3>1. scenario = "IT-041" => pc # 26
      BY <1>6 DEF StartPlaces
    <3> QED
      BY <1>1, <2>1, <3>1
  <2> QED
    BY <1>1, <2>1, <2>4, <2>5, <2>6, <2>7
<1> QED
  BY <1>3, <1>4, <1>5, <1>6 DEF Keeps, controlVars

(* Where direct traffic is assessed.                                       *)
LEMMA AssessPlaces ==
    ASSUME scenario \in Scenarios, pc \in 1..Final, scenario # "IT-044", script[pc].op = "assess"
    PROVE  /\ pc > LastDrain
           /\ \/ pc - 3 \in StartPlaces /\ \E size \in Nat : script[pc] = Tally(size)
              \/ ~InPhase(pc) /\ script[pc] = Assess("bandwidth", 0)
<1>0. LastDrain \in Nat /\ Connected \in Nat /\ pc \in Nat
  BY Bounds
<1>1. CASE Resetting(pc)
  BY <1>1, CommandForms DEF Resetting
<1>2. CASE Preflights(pc)
  BY <1>2, PollForms DEF Preflights
<1>3. CASE Handling(pc)
  BY <1>3 DEF Handling, HandlerStep
<1>4. CASE Reraising(pc)
  BY <1>4 DEF Reraising, Ended, At, Step
<1>5. CASE Selecting(pc)
  <2>1. \A d, e : PeerId(d, e).op = "check"
    BY PollForms
  <2>2. script[pc].op \in {"check", "wait"}
    BY <1>5, <2>1, PollForms DEF Selecting
  <2> QED
    BY <2>2
<1>6. CASE Forming(pc)
  BY <1>6 DEF Forming
<1>7. CASE Between(pc)
  <2>1. script[pc] \notin {StabilityWindow, Watching1, AssertReady}
    BY PollForms
  <2>2. script[pc] # AssessDurable
    <3>1. pc \in 23..Final \/ pc = 22
      BY <1>0, <1>7 DEF Between, LastDrain
    <3>2. CASE pc = 22
      <4>1. script[LastDrain + 1] = Watching1 /\ LastDrain + 1 = 22
        BY Places DEF LastDrain
      <4> QED
        BY <2>1, <3>2, <4>1
    <3>3. CASE pc \in 23..Final
      <4>1. script[pc] \in {StabilityWindow, AssertReady, Assess("bandwidth", 0)}
        BY <1>7, <3>3, TrafficPlaces DEF Scenarios, Between
      <4>2. Addressed(AssessDurable) /\ Plain(Assess("bandwidth", 0))
        BY AddressedSteps, PlainSteps
      <4>3. AssessDurable.toChosen # Assess("bandwidth", 0).toChosen
        BY <4>2, LinearSteps
      <4> QED
        BY <2>1, <4>1, <4>3
    <3> QED
      BY <3>1, <3>2, <3>3
  <2> QED
    BY <1>7, <2>1, <2>2 DEF Between
<1>8. CASE Loading(pc)
  <2>1. CASE pc - 3 \in StartPlaces /\ \E size \in Nat : script[pc] = Tally(size)
    <3>1. pc > LastDrain
      <4>1. pc - 3 \in Nat /\ pc - 3 > LastDrain + 1
        BY <2>1, StartsApart
      <4> QED
        BY <1>0, <4>1
    <3> QED
      BY <2>1, <3>1
  <2>2. \A size : Start(size).op = "pair"
    BY CommandForms
  <2>3. script[pc] # StabilityWindow /\ script[pc] # Stop /\ \A size : script[pc] # Start(size)
    BY <2>2, PollForms, CommandForms
  <2> QED
    BY <1>8, <2>1, <2>3 DEF Loading
<1>9. CASE Publishing(pc)
  BY <1>9 DEF Publishing
<1> QED
  BY <1>1, <1>2, <1>3, <1>4, <1>5, <1>6, <1>7, <1>8, <1>9, Partition

(* What an assessment adds up, when the scenario survives it.              *)
LEMMA AssessTallies ==
    ASSUME FlowInv, scenario # "IT-044", Assesses, Live'
    PROVE  /\ UNCHANGED <<producer, produced>>
           /\ \/ /\ pc - 3 \in StartPlaces /\ Advances
                 /\ scenario = "IT-041" => totals' = [d \in Devices |-> totals[d]]
                                           /\ \A d \in Devices : producer[d].acked = producer[d].sent
                 /\ scenario = "IT-043" => totals' = [d \in Devices |-> Added(totals[d], producer[d])]
              \/ ~InPhase(pc) /\ (Advances \/ Passes) /\ totals' = [d \in Devices |-> totals[d]]
<1>1. scenario \in Scenarios /\ pc \in 1..Final /\ Connected \in Nat /\ LastDrain \in Nat /\ Connected < LastDrain
  BY Bounds DEF FlowInv
<1>2. /\ outcome = "running" /\ script[pc].op = "assess" /\ UNCHANGED <<producer, produced>>
  BY AssessMoves
<1>3. /\ pc > LastDrain
      /\ \/ pc - 3 \in StartPlaces /\ \E size \in Nat : script[pc] = Tally(size)
         \/ ~InPhase(pc) /\ script[pc] = Assess("bandwidth", 0)
  BY <1>1, <1>2, AssessPlaces
<1>4. ~\E how : Handles(how)
  <2>1. pc \notin 5..(Connected - 1)
    BY <1>1, <1>3
  <2> QED
    BY <2>1 DEF Handles
<1>5. ~\E how \in {"failed"} : Fails(how)
  BY DEF Fails, Live
<1>6. /\ \A d \in {Now.what[i].on : i \in DOMAIN Now.what} :
            Holds(Now.what[1].kind, Now.what[1].types, producer[d], totals[d])
      /\ totals' = [d \in Devices |->
             IF Now.what[1].kind = "accounted" THEN Added(totals[d], producer[d]) ELSE totals[d]]
      /\ Advances \/ Passes
  <2>1. ~(\E how \in {"failed"} : Fails(how) \/ Handles(how)) /\ ~Handles("no")
    BY <1>4, <1>5
  <2> QED
    BY <2>1, AssessMoves
<1>7. ASSUME NEW kind, NEW size, script[pc] = Assess(kind, size)
      PROVE  /\ Now.what[1].kind = kind /\ {Now.what[i].on : i \in DOMAIN Now.what} = Devices
  <2> DEFINE x == Events(kind, "a", {size})
             y == Events(kind, "b", {size})
  <2>1. IsPair(Assess(kind, size).what, x, y)
    BY AssessForms
  <2>2. Plain(Assess(kind, size))
    BY PlainSteps
  <2>3. Now = script[pc]
    <3>1. Plain(script[pc])
      BY <1>7, <2>2
    <3>2. ~Addressed(script[pc])
      BY <3>1, LinearSteps
    <3> QED
      BY <1>1, <3>2, NowIs
  <2>4. x.kind = kind /\ x.on = "a" /\ y.on = "b"
    BY DEF Events
  <2> HIDE DEF x, y
  <2>5. DOMAIN Now.what = 1..2 /\ Now.what[1] = x /\ Now.what[2] = y
    BY <1>7, <2>1, <2>3, Pairwise
  <2>6. 1..2 = {1, 2}
    OBVIOUS
  <2>7. {Now.what[i].on : i \in DOMAIN Now.what} = {"a", "b"}
    BY <2>4, <2>5, <2>6
  <2> QED
    BY <2>4, <2>5, <2>7, DevicesAre
<1>8. CASE pc - 3 \in StartPlaces /\ \E size \in Nat : script[pc] = Tally(size)
  <2>1. PICK size \in Nat : script[pc] = Tally(size)
    BY <1>8
  <2>2. ~Passes
    <3>1. pc < Final
      BY <1>1, <1>8, PhasePlaces
    <3>2. pc # Final
      BY <1>1, <3>1, Bounds
    <3> QED
      BY <3>2 DEF Passes
  <2>3. CASE scenario = "IT-041"
    <3>1. PICK kind : kind = "lossless" /\ script[pc] = Assess(kind, size)
      BY <2>1, <2>3 DEF Tally
    <3>2. Now.what[1].kind = "lossless" /\ {Now.what[i].on : i \in DOMAIN Now.what} = Devices
      BY <1>7, <3>1
    <3>3. \A d \in Devices : producer[d].acked = producer[d].sent
      BY <1>6, <3>2 DEF Holds
    <3>4. totals' = [d \in Devices |-> totals[d]]
      BY <1>6, <3>2
    <3> QED
      BY <1>2, <1>6, <1>8, <2>2, <2>3, <3>3, <3>4
  <2>4. CASE scenario = "IT-043"
    <3>1. PICK kind : kind = "accounted" /\ script[pc] = Assess(kind, size)
      BY <2>1, <2>4 DEF Tally
    <3>2. Now.what[1].kind = "accounted"
      BY <1>7, <3>1
    <3>4. totals' = [d \in Devices |-> Added(totals[d], producer[d])]
      BY <1>6, <3>2
    <3> QED
      BY <1>2, <1>6, <1>8, <2>2, <2>4, <3>4
  <2> QED
    BY <1>1, <2>3, <2>4 DEF Scenarios
<1>9. CASE ~InPhase(pc) /\ script[pc] = Assess("bandwidth", 0)
  <2>1. PICK kind, size : kind = "bandwidth" /\ script[pc] = Assess(kind, size)
    BY <1>9
  <2>2. Now.what[1].kind = "bandwidth"
    BY <1>7, <2>1
  <2>3. totals' = [d \in Devices |-> totals[d]]
    BY <1>6, <2>2
  <2> QED
    BY <1>2, <1>6, <1>9, <2>3
<1> QED
  BY <1>3, <1>8, <1>9

(* A step that leaves the producer of a device alone.                      *)
LEMMA TalliedHeld ==
    ASSUME NEW k \in {1, 2}, Tallied(k), scenario' = scenario, scenario \in Scenarios,
           producer'[Apis[k]] = producer[Apis[k]], produced'[Apis[k]] = produced[Apis[k]],
           totals'[Apis[k]].sent = totals[Apis[k]].sent,
           HasRun(k)' => HasRun(k), HasRun(k) => HasRun(k)', Quieted(k)' => Quieted(k),
           scenario' = "IT-041" /\ pc' = 27 => pc = 27, pc' <= Connected => pc <= Connected
    PROVE  Tallied(k)'
<1>1. Connected' = Connected
  BY Frozen
<1> QED
  BY <1>1 DEF Tallied, Still, Loaded, Carried

LEMMA RunsStay ==
    ASSUME RunsInv, UNCHANGED trafficVars
    PROVE  RunsInv'
BY DEF RunsInv, trafficVars

LEMMA LoadKept ==
    ASSUME FlowInv, RunsInv, LoadInv, scenario # "IT-044", scenario' = scenario, UNCHANGED trafficVars,
           \/ Keeps /\ open' = open
           \/ UNCHANGED controlVars
           \/ Passes
           \/ pc <= Connected /\ pc' <= Connected /\ pc' \in 1..Final
           \/ Advances /\ pc \notin StartPlaces /\ pc - 2 \notin StartPlaces /\ pc - 3 \notin StartPlaces
    PROVE  RunsInv' /\ LoadInv'
<1>1. /\ \A k \in {1, 2} : /\ HasRun(k)' => HasRun(k)
                           /\ HasRun(k) => HasRun(k)'
                           /\ Quieted(k)' => Quieted(k)
      /\ scenario' = "IT-041" /\ pc' = 27 => pc = 27
      /\ pc' <= Connected => pc <= Connected
  BY PhaseKept
<1>2. producer' = producer /\ produced' = produced /\ totals' = totals /\ scenario \in Scenarios
  BY DEF trafficVars, FlowInv
<1>3. ASSUME NEW k \in {1, 2} PROVE Tallied(k)'
  <2>1. Tallied(k)
    BY DEF LoadInv
  <2>2. /\ HasRun(k)' => HasRun(k)
        /\ HasRun(k) => HasRun(k)'
        /\ Quieted(k)' => Quieted(k)
    BY <1>1
  <2> QED
    BY <1>1, <1>2, <2>1, <2>2, TalliedHeld
<1>4. Tallied(1)' /\ Tallied(2)'
  BY <1>3
<1> QED
  BY <1>4, RunsStay DEF LoadInv

(* The steps of a phase that are not polls.                                *)
LEMMA PhaseOps ==
    ASSUME scenario \in Scenarios, scenario # "IT-044", pc \in 1..Final
    PROVE  /\ pc \in StartPlaces => script[pc].op = "pair"
           /\ pc - 2 \in StartPlaces => script[pc].op = "pair"
           /\ pc - 3 \in StartPlaces => script[pc].op = "assess"
<1>1. \A i \in StartPlaces :
         \E size \in Nat : /\ script[i] = Start(size) /\ script[i + 2] = Stop /\ script[i + 3] = Tally(size)
  BY TrafficPlaces DEF Scenarios
<1>2. CASE pc \in StartPlaces
  <2>1. PICK size \in Nat : script[pc] = Start(size)
    BY <1>1, <1>2
  <2>2. script[pc].op = "pair"
    BY <2>1, CommandForms
  <2>3. pc - 2 \notin StartPlaces /\ pc - 3 \notin StartPlaces
    BY <1>2, PhasePlaces
  <2> QED
    BY <2>2, <2>3
<1>3. CASE pc - 2 \in StartPlaces
  <2>1. script[pc - 2 + 2] = Stop /\ pc - 2 + 2 = pc
    BY <1>1, <1>3, Bounds
  <2>2. script[pc].op = "pair"
    BY <2>1, CommandForms
  <2>3. pc - 3 \notin StartPlaces
    BY <1>3, PhasePlaces
  <2> QED
    BY <2>2, <2>3
<1>4. CASE pc - 3 \in StartPlaces
  <2>1. PICK size \in Nat : script[pc - 3 + 3] = Tally(size)
    BY <1>1, <1>4
  <2>2. script[pc] = Tally(size)
    <3>1. pc - 3 + 3 = pc
      BY Bounds
    <3> QED
      BY <2>1, <3>1
  <2>3. \A kind : Assess(kind, size).op = "assess"
    BY AssessForms
  <2>4. script[pc].op = "assess"
    BY <2>2, <2>3 DEF Tally
  <2>5. pc \notin StartPlaces /\ pc - 2 \notin StartPlaces
    BY <1>4, PhasePlaces
  <2> QED
    BY <2>4, <2>5
<1> QED
  BY <1>2, <1>3, <1>4

(* Commands that do not concern the producers.                             *)
LEMMA HarmlessEffect ==
    ASSUME RunsInv, NEW c, c.name \in Harmless, Effect(c)
    PROVE  UNCHANGED trafficVars
<1>1. ~Resets(c)
  BY DEF Resets, Harmless
<1>2. producer' = [producer EXCEPT ![c.on] = @] /\ produced' = produced /\ totals' = totals
  BY <1>1 DEF Effect, Harmless
<1>3. producer' = producer
  BY <1>2 DEF RunsInv
<1> QED
  BY <1>2, <1>3 DEF trafficVars

(* The producers by themselves: only one that runs, or that still waits    *)
(* for an answer, moves, and it is one the runner has not added up.        *)
LEMMA LoadProduced ==
    ASSUME FlowInv, RunsInv, LoadInv, scenario # "IT-044", UNCHANGED controlVars,
           NEW e \in Devices, Produce(e) \/ Refuse(e) \/ Complete(e)
    PROVE  RunsInv' /\ LoadInv'
<1>1. /\ RunsInv' /\ totals' = totals /\ ~Still(e)
      /\ \A d \in Devices : d # e => producer'[d] = producer[d] /\ produced'[d] = produced[d]
      /\ Loaded(e) => Loaded(e)'
  BY RunsProduce
<1>2. scenario' = scenario /\ pc' = pc /\ open' = open /\ scenario \in Scenarios /\ pc \in 1..Final
  BY DEF controlVars, FlowInv
<1>3. StartPlaces' = StartPlaces /\ Connected' = Connected
  BY <1>2, Frozen
<1>4. ASSUME NEW k \in {1, 2} PROVE Tallied(k)'
  <2>1. Tallied(k) /\ Apis[k] \in Devices
    BY DevicesAre DEF LoadInv
  <2>2. HasRun(k)' = HasRun(k) /\ Quieted(k)' = Quieted(k)
    BY <1>2, <1>3 DEF HasRun, Quieted
  <2>3. CASE Apis[k] # e
    <3>1. producer'[Apis[k]] = producer[Apis[k]] /\ produced'[Apis[k]] = produced[Apis[k]]
      BY <1>1, <2>1, <2>3
    <3> QED
      BY <1>1, <1>2, <2>1, <2>2, <3>1, TalliedHeld
  <2>4. CASE Apis[k] = e
    <3>1. ~Quieted(k)
      BY <1>1, <2>1, <2>4 DEF Tallied
    <3>2. HasRun(k)
      BY <3>1 DEF Quieted, HasRun
    <3>3. Loaded(Apis[k])
      BY <2>1, <3>2 DEF Tallied
    <3>4. Loaded(Apis[k])'
      BY <1>1, <2>4, <3>3
    <3>5. scenario = "IT-041" => pc # 27
      <4>1. ASSUME scenario = "IT-041", pc = 27 PROVE FALSE
        <5>1. Final = 27
          BY <4>1 DEF Final
        <5>2. ~InPhase(pc)
          BY <1>2, <4>1, <5>1, PhasePlaces
        <5> QED
          BY <3>1, <5>2 DEF InPhase, Quieted
      <4> QED
        BY <4>1
    <3>6. scenario = "IT-041" \/ pc <= Connected => totals[Apis[k]].sent = 0
      BY <2>1 DEF Tallied
    <3> QED
      BY <1>1, <1>2, <1>3, <2>2, <3>1, <3>2, <3>4, <3>5, <3>6 DEF Tallied
  <2> QED
    BY <2>3, <2>4
<1>5. Tallied(1)' /\ Tallied(2)'
  BY <1>4
<1> QED
  BY <1>1, <1>5 DEF LoadInv

(* An assessment.                                                          *)
LEMMA LoadAssessed ==
    ASSUME FlowInv, RunsInv, LoadInv, scenario # "IT-044", scenario' = scenario, Assesses, Live'
    PROVE  RunsInv' /\ LoadInv'
<1>1. scenario \in Scenarios /\ pc \in 1..Final /\ Connected \in Nat /\ LastDrain \in Nat /\ Connected < LastDrain
  BY Bounds DEF FlowInv
<1>2. producer' = producer /\ produced' = produced
  BY AssessTallies
<1>3. Connected' = Connected /\ StartPlaces' = StartPlaces
  BY Frozen
<1>4. producer \in [Devices -> Runs] /\ produced \in [Devices -> Nat] /\ \A d \in Devices : totals[d].sent \in Nat
  BY DEF RunsInv
<1>5. CASE ~InPhase(pc) /\ (Advances \/ Passes) /\ totals' = [d \in Devices |-> totals[d]]
  <2>1. \A d \in Devices : totals'[d].sent = totals[d].sent
    BY <1>5
  <2>2. RunsInv'
    BY <1>2, <1>4, <2>1 DEF RunsInv
  <2>3. Passes \/ (Advances /\ pc \notin StartPlaces /\ pc - 2 \notin StartPlaces /\ pc - 3 \notin StartPlaces)
    BY <1>5 DEF InPhase
  <2>4. /\ \A k \in {1, 2} : /\ HasRun(k)' => HasRun(k)
                             /\ HasRun(k) => HasRun(k)'
                             /\ Quieted(k)' => Quieted(k)
        /\ scenario' = "IT-041" /\ pc' = 27 => pc = 27
        /\ pc' <= Connected => pc <= Connected
    BY <2>3, PhaseKept
  <2>5. ASSUME NEW k \in {1, 2} PROVE Tallied(k)'
    <3>1. Tallied(k) /\ Apis[k] \in Devices
      BY DevicesAre DEF LoadInv
    <3>2. /\ HasRun(k)' => HasRun(k)
          /\ HasRun(k) => HasRun(k)'
          /\ Quieted(k)' => Quieted(k)
      BY <2>4
    <3>3. totals'[Apis[k]].sent = totals[Apis[k]].sent
      BY <2>1, <3>1
    <3> QED
      BY <1>1, <1>2, <2>4, <3>1, <3>2, <3>3, TalliedHeld
  <2>6. Tallied(1)' /\ Tallied(2)'
    BY <2>5
  <2> QED
    BY <2>2, <2>6 DEF LoadInv
<1>6. CASE /\ pc - 3 \in StartPlaces /\ Advances
           /\ scenario = "IT-041" => totals' = [d \in Devices |-> totals[d]]
                                     /\ \A d \in Devices : producer[d].acked = producer[d].sent
           /\ scenario = "IT-043" => totals' = [d \in Devices |-> Added(totals[d], producer[d])]
  <2>1. /\ pc' = pc + 1 /\ pc \notin StartPlaces /\ pc - 1 \notin StartPlaces /\ pc - 2 \notin StartPlaces
        /\ pc + 1 \notin StartPlaces /\ pc > LastDrain
    BY <1>1, <1>6, PhasePlaces DEF Advances
  <2>2. pc' - 1 = pc /\ pc' - 2 = pc - 1 /\ pc' - 3 = pc - 2 /\ pc' - 4 = pc - 3
    BY <1>1, <2>1
  <2>3. ASSUME NEW k \in {1, 2}
        PROVE  HasRun(k) /\ Quieted(k) /\ (HasRun(k)' <=> scenario = "IT-041")
    BY <1>3, <1>6, <2>1, <2>2 DEF HasRun, Quieted
  <2>4. ~(pc' <= Connected)
    BY <1>1, <2>1
  <2>5. ASSUME NEW k \in {1, 2}
        PROVE  Still(Apis[k]) /\ Loaded(Apis[k]) /\ (scenario = "IT-041" => totals[Apis[k]].sent = 0)
               /\ Apis[k] \in Devices
    BY <2>3, DevicesAre DEF LoadInv, Tallied
  <2>6. CASE scenario = "IT-041"
    <3>1. \A d \in Devices : totals'[d].sent = totals[d].sent /\ producer[d].acked = producer[d].sent
      BY <1>6, <2>6
    <3>2. RunsInv'
      BY <1>2, <1>4, <3>1 DEF RunsInv
    <3>3. ASSUME NEW k \in {1, 2} PROVE Tallied(k)'
      <4>1. HasRun(k)'
        BY <2>3, <2>6
      <4>2. Still(Apis[k]) /\ Loaded(Apis[k]) /\ totals[Apis[k]].sent = 0
            /\ totals'[Apis[k]].sent = totals[Apis[k]].sent
            /\ producer[Apis[k]].acked = producer[Apis[k]].sent
        BY <2>5, <2>6, <3>1
      <4>3. Still(Apis[k])' /\ Loaded(Apis[k])'
        BY <1>2, <4>2 DEF Still, Loaded
      <4> QED
        BY <1>2, <4>1, <4>2, <4>3 DEF Tallied
    <3>4. Tallied(1)' /\ Tallied(2)'
      BY <3>3
    <3> QED
      BY <3>2, <3>4 DEF LoadInv
  <2>7. CASE scenario = "IT-043"
    <3>1. ASSUME NEW d \in Devices PROVE totals'[d].sent = totals[d].sent + producer[d].sent
      <4>1. totals'[d] = Added(totals[d], producer[d])
        BY <1>6, <2>7
      <4> QED
        BY <4>1 DEF Added
    <3>2. RunsInv'
      <4>1. ASSUME NEW d \in Devices PROVE totals'[d].sent \in Nat
        <5>1. producer[d].sent \in Nat
          BY <1>4 DEF Runs, Counts
        <5> QED
          BY <1>4, <3>1, <5>1
      <4> QED
        BY <1>2, <1>4, <4>1 DEF RunsInv
    <3>3. ASSUME NEW k \in {1, 2} PROVE Tallied(k)'
      <4>1. ~HasRun(k)'
        BY <2>3, <2>7
      <4>2. Still(Apis[k])' /\ Carried(Apis[k])'
        BY <1>2, <2>5, <3>1 DEF Still, Loaded, Carried
      <4>3. scenario' # "IT-041" /\ ~(pc' <= Connected')
        BY <1>3, <2>4, <2>7
      <4> QED
        BY <4>1, <4>2, <4>3 DEF Tallied
    <3>4. Tallied(1)' /\ Tallied(2)'
      BY <3>3
    <3> QED
      BY <3>2, <3>4 DEF LoadInv
  <2> QED
    BY <1>1, <2>6, <2>7 DEF Scenarios
<1> QED
  BY <1>5, <1>6, AssessTallies

(* A command of direct traffic that succeeded: of a pair, the other one    *)
(* may still be awaited.                                                   *)
LEMMA LoadOrdered ==
    ASSUME FlowInv, RunsInv, LoadInv, scenario # "IT-044", scenario' = scenario,
           NEW i \in {1, 2}, i \in open, NEW c, CommandAt(i, c), Succeeds(i, c)
    PROVE  RunsInv' /\ LoadInv'
<1>1. /\ scenario \in Scenarios /\ pc \in 1..Final /\ Connected \in Nat /\ LastDrain \in Nat /\ Connected < LastDrain
      /\ Final \in Nat
  BY Bounds DEF FlowInv
<1>2. /\ RunsInv' /\ totals' = totals
      /\ \/ /\ pc \in {1, 2}
            /\ producer' = [producer EXCEPT ![Apis[pc]] = Idle]
            /\ produced' = [produced EXCEPT ![Apis[pc]] = 0]
         \/ (pc \in 5..(Connected - 1) \/ (scenario = "IT-044" /\ pc \in {10, 11}))
            /\ producer' = producer /\ produced' = produced
         \/ /\ scenario # "IT-044" /\ pc \in StartPlaces /\ produced' = produced
            /\ \E size \in Nat : producer' = [producer EXCEPT ![Apis[i]] = Started(size)]
         \/ /\ scenario # "IT-044" /\ pc - 2 \in StartPlaces /\ produced' = produced
            /\ producer' = [producer EXCEPT ![Apis[i]] = Stopped(@, "stopSendTest")]
         \/ /\ scenario = "IT-044" /\ pc \in StartPlaces /\ produced' = produced
            /\ \E size \in Nat : producer' = [producer EXCEPT ![chosen] = Started(size)]
         \/ /\ scenario = "IT-044" /\ pc - 1 \in StartPlaces /\ produced' = produced
            /\ producer' = [producer EXCEPT ![chosen] = Stopped(@, "stopCheckpointTest")]
  BY <1>1, RunsCommanded DEF Succeeds
<1>3. \/ script[pc].op = "pair" /\ open' = open \ {i} /\ open # {i} /\ pc' = pc
      \/ open = {i} /\ (Advances \/ Passes)
  BY DEF Succeeds
<1>4. StartPlaces' = StartPlaces /\ Connected' = Connected
  BY Frozen
<1>5. producer \in [Devices -> Runs] /\ produced \in [Devices -> Nat] /\ \A d \in Devices : totals[d].sent \in Nat
  BY DEF RunsInv
<1>6. \A k \in {1, 2} : Tallied(k) /\ Apis[k] \in Devices /\ (k # i => Apis[k] # Apis[i])
  BY DevicesAre DEF LoadInv
<1>7. ASSUME pc < Connected
      PROVE  /\ open = {i} /\ (Advances \/ Passes)
             /\ pc \notin StartPlaces /\ pc - 2 \notin StartPlaces /\ pc - 3 \notin StartPlaces
             /\ \A k \in {1, 2} : ~HasRun(k) /\ Quieted(k)
  <2>0. pc <= LastDrain
    BY <1>1, <1>7
  <2>1. pc \notin StartPlaces /\ pc - 1 \notin StartPlaces
        /\ pc - 2 \notin StartPlaces /\ pc - 3 \notin StartPlaces /\ pc - 4 \notin StartPlaces
    BY <1>1, <2>0, PhasePlaces
  <2>2. script[pc].op # "pair"
    BY <1>1, <2>1, StepIs
  <2> QED
    BY <1>3, <2>1, <2>2 DEF HasRun, Quieted
<1>8. CASE /\ pc \in {1, 2}
           /\ producer' = [producer EXCEPT ![Apis[pc]] = Idle]
           /\ produced' = [produced EXCEPT ![Apis[pc]] = 0]
  <2>0. pc < Connected /\ pc <= Connected
    BY <1>1, <1>8, Bounds
  <2>1. /\ \A k \in {1, 2} : /\ HasRun(k)' => HasRun(k)
                             /\ HasRun(k) => HasRun(k)'
                             /\ Quieted(k)' => Quieted(k)
        /\ scenario' = "IT-041" /\ pc' = 27 => pc = 27
        /\ pc' <= Connected => pc <= Connected
    BY <1>7, <2>0, PhaseKept
  <2>2. ASSUME NEW k \in {1, 2} PROVE Tallied(k)'
    <3>1. Tallied(k) /\ Apis[k] \in Devices /\ ~HasRun(k) /\ ~HasRun(k)'
      BY <1>6, <1>7, <2>0, <2>1
    <3>2. CASE Apis[k] = Apis[pc]
      <4>1. producer'[Apis[k]] = Idle /\ produced'[Apis[k]] = 0
        BY <1>5, <1>8, <3>1, <3>2
      <4>2. totals'[Apis[k]].sent = 0
        BY <1>2, <2>0, <3>1 DEF Tallied
      <4>3. Still(Apis[k])' /\ Carried(Apis[k])'
        BY <4>1, <4>2, RunsMove DEF Still, Carried
      <4>4. ~(scenario' = "IT-041" /\ pc' = 27)
        BY <1>8, <2>1
      <4> QED
        BY <3>1, <4>2, <4>3, <4>4 DEF Tallied
    <3>3. CASE Apis[k] # Apis[pc]
      <4>1. producer'[Apis[k]] = producer[Apis[k]] /\ produced'[Apis[k]] = produced[Apis[k]]
        BY <1>5, <1>8, <3>1, <3>3
      <4> QED
        BY <1>1, <1>2, <2>1, <3>1, <4>1, TalliedHeld
    <3> QED
      BY <3>2, <3>3
  <2>3. Tallied(1)' /\ Tallied(2)'
    BY <2>2
  <2> QED
    BY <1>2, <2>3 DEF LoadInv
<1>9. CASE pc \in 5..(Connected - 1) /\ producer' = producer /\ produced' = produced
  <2>1. pc < Connected
    BY <1>1, <1>9
  <2>2. UNCHANGED trafficVars
    BY <1>2, <1>9 DEF trafficVars
  <2> QED
    BY <1>7, <2>1, <2>2, LoadKept
<1>10. ASSUME pc \in StartPlaces \/ pc - 2 \in StartPlaces
       PROVE  /\ \/ pc' = pc /\ open' = open \ {i}
                 \/ open = {i} /\ pc' = pc + 1 /\ pc' - 1 = pc /\ pc' - 2 = pc - 1 /\ pc' - 3 = pc - 2
              /\ pc' - 1 = pc \/ pc' = pc
              /\ ~(scenario' = "IT-041" /\ pc' = 27) /\ ~(pc' <= Connected)
  <2>1. pc < Final /\ pc > LastDrain
    <3>1. pc < Final
      BY <1>1, <1>10, PhasePlaces
    <3>2. ~(pc <= LastDrain)
      BY <1>1, <1>10, PhasePlaces
    <3> QED
      BY <1>1, <3>1, <3>2
  <2>2. ~Passes
    BY <1>1, <2>1 DEF Passes
  <2>3. \/ pc' = pc /\ open' = open \ {i}
        \/ open = {i} /\ pc' = pc + 1
    BY <1>3, <2>2 DEF Advances
  <2>4. scenario = "IT-041" => pc \in {23, 25}
    BY <1>1, <1>10 DEF StartPlaces
  <2> QED
    BY <1>1, <2>1, <2>3, <2>4
<1>11. CASE /\ pc \in StartPlaces /\ produced' = produced
            /\ \E size \in Nat : producer' = [producer EXCEPT ![Apis[i]] = Started(size)]
  <2>1. pc - 1 \notin StartPlaces /\ pc - 2 \notin StartPlaces /\ pc - 3 \notin StartPlaces
        /\ pc - 4 \notin StartPlaces
    BY <1>1, <1>11, PhasePlaces
  <2>2. ASSUME NEW k \in {1, 2} PROVE Tallied(k)'
    <3>1. Tallied(k) /\ Apis[k] \in Devices
      BY <1>6
    <3>2. CASE k = i
      <4>1. ~HasRun(k)
        BY <1>11, <2>1, <3>2 DEF HasRun
      <4>2. HasRun(k)' /\ ~Quieted(k)'
        BY <1>4, <1>10, <1>11, <3>2 DEF HasRun, Quieted
      <4>3. producer'[Apis[k]].sent = 0
        BY <1>5, <1>11, <3>1, <3>2, RunsMove
      <4>4. produced[Apis[k]] = totals[Apis[k]].sent /\ totals[Apis[k]].sent \in Nat
        BY <1>5, <3>1, <4>1 DEF Tallied, Carried
      <4>5. Loaded(Apis[k])'
        BY <1>2, <1>11, <4>3, <4>4 DEF Loaded
      <4>6. scenario' = "IT-041" => totals'[Apis[k]].sent = 0
        BY <1>2, <3>1 DEF Tallied
      <4> QED
        BY <1>4, <1>10, <1>11, <4>2, <4>5, <4>6 DEF Tallied
    <3>3. CASE k # i
      <4>1. producer'[Apis[k]] = producer[Apis[k]] /\ produced'[Apis[k]] = produced[Apis[k]]
        BY <1>5, <1>6, <1>11, <3>1, <3>3
      <4>2. CASE pc' = pc /\ open' = open \ {i}
        <5>1. /\ HasRun(k)' => HasRun(k)
              /\ HasRun(k) => HasRun(k)'
              /\ Quieted(k)' => Quieted(k)
          BY <1>4, <3>3, <4>2 DEF HasRun, Quieted
        <5> QED
          BY <1>1, <1>2, <1>10, <1>11, <3>1, <4>1, <5>1, TalliedHeld
      <4>3. CASE open = {i} /\ pc' = pc + 1 /\ pc' - 1 = pc /\ pc' - 2 = pc - 1 /\ pc' - 3 = pc - 2
        <5>1. HasRun(k) /\ HasRun(k)' /\ ~Quieted(k)'
          BY <1>4, <1>11, <3>3, <4>3 DEF HasRun, Quieted
        <5> QED
          BY <1>1, <1>2, <1>10, <1>11, <3>1, <4>1, <5>1, TalliedHeld
      <4> QED
        BY <1>10, <1>11, <4>2, <4>3
    <3> QED
      BY <3>2, <3>3
  <2>3. Tallied(1)' /\ Tallied(2)'
    BY <2>2
  <2> QED
    BY <1>2, <2>3 DEF LoadInv
<1>12. CASE /\ pc - 2 \in StartPlaces /\ produced' = produced
            /\ producer' = [producer EXCEPT ![Apis[i]] = Stopped(@, "stopSendTest")]
  <2>1. pc \notin StartPlaces /\ pc - 1 \notin StartPlaces /\ pc - 3 \notin StartPlaces /\ pc + 1 \notin StartPlaces
    BY <1>1, <1>12, PhasePlaces
  <2>2. ASSUME NEW k \in {1, 2} PROVE Tallied(k)'
    <3>1. Tallied(k) /\ Apis[k] \in Devices
      BY <1>6
    <3>0. HasRun(k) /\ HasRun(k)'
      BY <1>4, <1>10, <1>12 DEF HasRun
    <3>2. CASE k = i
      <4>1. PICK name : name = "stopSendTest"
        OBVIOUS
      <4>2. producer'[Apis[k]] = Stopped(producer[Apis[k]], name) /\ producer[Apis[k]] \in Runs
        BY <1>5, <1>12, <3>1, <3>2, <4>1
      <4>3. /\ producer'[Apis[k]].sent = producer[Apis[k]].sent /\ ~producer'[Apis[k]].on
            /\ producer'[Apis[k]].pending = 0
        <5>1. \A r \in Runs : Stopped(r, name).sent = r.sent /\ ~Stopped(r, name).on
                              /\ Stopped(r, name).pending = 0
          BY <4>1, RunsMove
        <5> QED
          BY <4>2, <5>1
      <4>4. Loaded(Apis[k])
        BY <3>0, <3>1 DEF Tallied
      <4>5. Loaded(Apis[k])' /\ Still(Apis[k])'
        BY <1>2, <1>12, <4>3, <4>4 DEF Loaded, Still
      <4>6. scenario' = "IT-041" => totals'[Apis[k]].sent = 0
        BY <1>2, <3>1 DEF Tallied
      <4> QED
        BY <1>4, <1>10, <1>12, <3>0, <4>5, <4>6 DEF Tallied
    <3>3. CASE k # i
      <4>1. producer'[Apis[k]] = producer[Apis[k]] /\ produced'[Apis[k]] = produced[Apis[k]]
        BY <1>5, <1>6, <1>12, <3>1, <3>3
      <4>2. Quieted(k)' => Quieted(k)
        <5>1. CASE pc' = pc /\ open' = open \ {i}
          BY <1>4, <3>3, <5>1 DEF Quieted
        <5>2. CASE open = {i}
          BY <2>1, <3>3, <5>2 DEF Quieted
        <5> QED
          BY <1>10, <1>12, <5>1, <5>2
      <4> QED
        BY <1>1, <1>2, <1>10, <1>12, <3>0, <3>1, <4>1, <4>2, TalliedHeld
    <3> QED
      BY <3>2, <3>3
  <2>3. Tallied(1)' /\ Tallied(2)'
    BY <2>2
  <2> QED
    BY <1>2, <2>3 DEF LoadInv
<1> QED
  BY <1>2, <1>8, <1>9, <1>11, <1>12

LEMMA LoadCommanded ==
    ASSUME FlowInv, RunsInv, LoadInv, scenario # "IT-044", scenario' = scenario, Commands, Live'
    PROVE  RunsInv' /\ LoadInv'
<1>1. scenario \in Scenarios /\ pc \in 1..Final /\ Connected \in Nat /\ LastDrain \in Nat /\ Connected < LastDrain
      /\ Final \in Nat /\ LastDrain < Final
  BY Bounds DEF FlowInv
<1>2. PICK i \in open : \E c : CommandAt(i, c) /\ (Succeeds(i, c) \/ Tolerated(c))
  BY LiveCommands
<1>3. PICK c : CommandAt(i, c) /\ (Succeeds(i, c) \/ Tolerated(c))
  BY <1>2
<1>4. i \in {1, 2}
  <2>1. i \in DOMAIN script[pc].what /\ script[pc].op \in Commanding
    BY <1>2, CommandMoves DEF FlowInv, Slots
  <2> QED
    BY <1>1, <2>1, StepIs DEF Commanding
<1>5. CASE Tolerated(c)
  <2>1. pc <= Connected /\ pc' <= Connected /\ pc' \in 1..Final
    BY <1>1, <1>5 DEF Tolerated
  <2>2. UNCHANGED trafficVars
    BY <1>5, HarmlessEffect DEF Tolerated, rest
  <2> QED
    BY <2>1, <2>2, LoadKept
<1>6. CASE Succeeds(i, c)
  BY <1>2, <1>3, <1>4, <1>6, LoadOrdered
<1> QED
  BY <1>3, <1>5, <1>6

-----------------------------------------------------------------------------
(* The checkpoint ramp: only the device the scenario chose publishes, and  *)
(* only from its start until its drain has been seen.                      *)
PubInv ==
    scenario = "IT-044" =>
        \A d \in Devices : Still(d) \/ (d = chosen /\ (pc - 1 \in StartPlaces \/ pc - 2 \in StartPlaces))

LEMMA PubKept ==
    ASSUME FlowInv, PubInv, scenario = "IT-044", scenario' = scenario, producer' = producer,
           \/ Keeps
           \/ UNCHANGED controlVars
           \/ Passes
           \/ pc <= LastDrain
           \/ Advances /\ pc - 2 \notin StartPlaces
           \/ \A d \in Devices : Still(d)
    PROVE  PubInv'
<1>1. scenario \in Scenarios /\ pc \in 1..Final /\ StartPlaces' = StartPlaces
  BY Frozen DEF FlowInv
<1>2. CASE pc' = pc /\ chosen' = chosen
  BY <1>1, <1>2 DEF PubInv, Still
<1>3. CASE \A d \in Devices : Still(d)
  BY <1>3 DEF PubInv, Still
<1>4. CASE pc <= LastDrain
  <2>1. pc - 1 \notin StartPlaces /\ pc - 2 \notin StartPlaces
    BY <1>1, <1>4, PhasePlaces
  <2> QED
    BY <1>3, <2>1 DEF PubInv
<1>5. CASE Advances /\ pc - 2 \notin StartPlaces
  <2>1. pc' = pc + 1 /\ chosen' = chosen
    BY <1>5 DEF Advances
  <2>2. pc' - 2 = pc - 1
    BY <1>1, <2>1, Bounds
  <2> QED
    BY <1>1, <1>5, <2>1, <2>2 DEF PubInv, Still
<1> QED
  BY <1>2, <1>3, <1>4, <1>5 DEF Keeps, controlVars, Passes

(* Where the drain is awaited.                                             *)
LEMMA DrainPlace ==
    ASSUME scenario = "IT-044", pc \in 1..Final, pc - 2 \in StartPlaces
    PROVE  script[pc].op = "wait"
<1>1. scenario \in Scenarios
  BY DEF Scenarios
<1>2. pc - 2 + 2 = pc
  BY <1>1, Bounds
<1>3. script[pc - 2 + 2] = AwaitDrained
  BY CheckpointPlaces
<1> QED
  BY <1>2, <1>3, AddressedForms

(* It is over when the chosen device has nothing left to publish.          *)
LEMMA DrainSeen ==
    ASSUME FlowInv, PubInv, scenario = "IT-044", pc - 2 \in StartPlaces, Verdicts = "yes",
           sample \in 1..Len(script[pc].what)
    PROVE  \A d \in Devices : Still(d)
<1>1. scenario \in Scenarios /\ pc \in 1..Final
  BY DEF FlowInv
<1>2. script[pc].op \in Sampling
  BY <1>1, DrainPlace DEF Sampling
<1>3. PICK c : c = Condition /\ c = [Shows("drained", First) EXCEPT !.on = chosen]
  BY <1>1, <1>2, Conditions
<1>4. c.kind = "drained" /\ c.on = chosen
  BY <1>3 DEF Shows
<1>5. PICK seen : seen = Seen(c) /\ Verdict(c, seen) = "yes"
  BY <1>3 DEF Verdicts
<1>6. Seen(c)
  BY <1>4, <1>5 DEF Verdict
<1>7. ~BaseSeen(c)
  BY <1>4 DEF BaseSeen
<1>8. Still(chosen)
  BY <1>4, <1>6, <1>7 DEF Seen, Still
<1> QED
  BY <1>8 DEF PubInv

LEMMA PubCommanded ==
    ASSUME FlowInv, RunsInv, PubInv, scenario = "IT-044", scenario' = scenario, Commands, Live'
    PROVE  RunsInv' /\ PubInv'
<1>1. scenario \in Scenarios /\ pc \in 1..Final /\ Connected \in Nat /\ LastDrain \in Nat /\ Connected < LastDrain
      /\ Connected = 9 /\ LastDrain = 18 /\ Final \in Nat
  BY Bounds DEF FlowInv, Connected, LastDrain
<1>2. PICK i \in open : \E c : CommandAt(i, c) /\ (Succeeds(i, c) \/ Tolerated(c))
  BY LiveCommands
<1>3. PICK c : CommandAt(i, c) /\ (Succeeds(i, c) \/ Tolerated(c))
  BY <1>2
<1>4. i \in {1, 2} /\ script[pc].op = "cmd"
  <2>1. i \in DOMAIN script[pc].what /\ script[pc].op \in Commanding
    BY <1>2, CommandMoves DEF FlowInv, Slots
  <2> QED
    BY <1>1, <2>1, StepIs DEF Commanding
<1>5. CASE Tolerated(c)
  <2>1. pc <= LastDrain
    BY <1>1, <1>5 DEF Tolerated
  <2>2. UNCHANGED trafficVars
    BY <1>5, HarmlessEffect DEF Tolerated, rest
  <2>3. producer' = producer
    BY <2>2 DEF trafficVars
  <2> QED
    BY <2>1, <2>2, <2>3, PubKept, RunsStay
<1>6. CASE Succeeds(i, c)
  <2>1. /\ RunsInv'
        /\ \/ pc \in {1, 2} /\ producer' = [producer EXCEPT ![Apis[pc]] = Idle]
           \/ pc <= LastDrain /\ producer' = producer
           \/ /\ pc \in StartPlaces
              /\ \E size \in Nat : producer' = [producer EXCEPT ![chosen] = Started(size)]
           \/ /\ pc - 1 \in StartPlaces
              /\ producer' = [producer EXCEPT ![chosen] = Stopped(@, "stopCheckpointTest")]
    <3>1. (pc \in 5..(Connected - 1) \/ pc \in {10, 11}) => pc <= LastDrain
      BY <1>1
    <3> QED
      BY <1>1, <1>3, <1>4, <1>6, <3>1, RunsCommanded DEF Succeeds
  <2>2. Advances \/ Passes
    BY <1>4, <1>6 DEF Succeeds
  <2>3. producer \in [Devices -> Runs]
    BY DEF RunsInv
  <2>4. StartPlaces' = StartPlaces
    BY Frozen
  <2>5. CASE pc \in {1, 2} /\ producer' = [producer EXCEPT ![Apis[pc]] = Idle]
    <3>1. pc <= LastDrain
      BY <1>1, <2>5
    <3>2. pc - 1 \notin StartPlaces /\ pc - 2 \notin StartPlaces
      BY <1>1, <3>1, PhasePlaces
    <3>3. ASSUME NEW d \in Devices PROVE Still(d)'
      <4>1. Still(d)
        BY <3>2 DEF PubInv
      <4>2. producer'[d] = producer[d] \/ producer'[d] = Idle
        BY <2>3, <2>5
      <4> QED
        BY <4>1, <4>2, RunsMove DEF Still
    <3> QED
      BY <2>1, <3>3 DEF PubInv
  <2>6. CASE pc <= LastDrain /\ producer' = producer
    BY <2>1, <2>6, PubKept
  <2>7. ASSUME pc \in StartPlaces \/ pc - 1 \in StartPlaces,
               \A d \in Devices : d # chosen => producer'[d] = producer[d]
        PROVE  PubInv'
    <3>1. pc < Final
      BY <1>1, <2>7, PhasePlaces
    <3>2. pc' = pc + 1 /\ chosen' = chosen
      BY <1>1, <2>2, <3>1 DEF Advances, Passes
    <3>3. pc' - 1 = pc /\ pc' - 2 = pc - 1
      BY <1>1, <3>2
    <3> QED
      BY <2>4, <2>7, <3>2, <3>3 DEF PubInv, Still
  <2>8. CASE pc \in StartPlaces /\ \E size \in Nat : producer' = [producer EXCEPT ![chosen] = Started(size)]
    <3>1. \A d \in Devices : d # chosen => producer'[d] = producer[d]
      BY <2>3, <2>8
    <3> QED
      BY <2>1, <2>7, <2>8, <3>1
  <2>9. CASE pc - 1 \in StartPlaces /\ producer' = [producer EXCEPT ![chosen] = Stopped(@, "stopCheckpointTest")]
    <3>1. \A d \in Devices : d # chosen => producer'[d] = producer[d]
      BY <2>3, <2>9
    <3> QED
      BY <2>1, <2>7, <2>9, <3>1
  <2> QED
    BY <2>1, <2>5, <2>6, <2>8, <2>9
<1> QED
  BY <1>3, <1>5, <1>6

(* An assessment adds nothing up in this scenario.                         *)
LEMMA PubAssessed ==
    ASSUME FlowInv, RunsInv, PubInv, scenario = "IT-044", scenario' = scenario, Assesses, Live'
    PROVE  RunsInv' /\ PubInv'
<1>1. scenario \in Scenarios /\ pc \in 1..Final
  BY DEF FlowInv
<1>2. /\ outcome = "running" /\ script[pc].op = "assess" /\ producer' = producer /\ produced' = produced
  BY AssessMoves
<1>3. RunsInv'
  <2>1. ASSUME NEW d \in Devices PROVE totals'[d].sent \in Nat
    <3>1. totals[d].sent \in Nat /\ producer[d].sent \in Nat
      BY DEF RunsInv, Runs, Counts
    <3>2. totals' = totals \/ totals' = [e \in Devices |->
             IF Now.what[1].kind = "accounted" THEN Added(totals[e], producer[e]) ELSE totals[e]]
      BY AssessMoves
    <3>3. totals'[d] = totals[d] \/ totals'[d] = Added(totals[d], producer[d])
      BY <3>2
    <3>4. Added(totals[d], producer[d]).sent = totals[d].sent + producer[d].sent
      BY DEF Added
    <3>5. totals'[d].sent = totals[d].sent \/ totals'[d].sent = totals[d].sent + producer[d].sent
      BY <3>3, <3>4
    <3> QED
      BY <3>1, <3>5
  <2> QED
    BY <1>2, <2>1 DEF RunsInv
<1>4. pc - 2 \notin StartPlaces
  BY <1>1, <1>2, DrainPlace
<1>5. Advances \/ Passes \/ pc <= LastDrain
  <2>1. ~\E how \in {"failed"} : Fails(how)
    BY DEF Fails, Live
  <2>2. Advances \/ Passes \/ \E how : Handles(how)
    BY <2>1, AssessMoves
  <2>3. (\E how : Handles(how)) => pc <= LastDrain
    BY <1>1, Bounds DEF Handles
  <2> QED
    BY <2>2, <2>3
<1> QED
  BY <1>2, <1>3, <1>4, <1>5, PubKept

-----------------------------------------------------------------------------
(* All three scenarios.                                                    *)
ProducerInv == Live => RunsInv /\ LoadInv /\ PubInv

LEMMA ProducersStart == TrafficInit => ProducerInv
<1> SUFFICES ASSUME TrafficInit PROVE RunsInv /\ LoadInv /\ PubInv
  BY DEF ProducerInv
<1>1. FlowInv
  BY FlowStarts
<1>2. /\ producer = [d \in Devices |-> Idle]
      /\ totals = [d \in Devices |-> Zero] /\ produced = [d \in Devices |-> 0]
  BY DEF TrafficInit
<1>3. pc = 1
  BY DEF TrafficInit, ControlInit
<1>4. scenario \in Scenarios /\ pc \in 1..Final /\ pc <= LastDrain
  BY <1>1, <1>3, Bounds DEF FlowInv
<1>5. pc \notin StartPlaces /\ pc - 1 \notin StartPlaces
      /\ pc - 2 \notin StartPlaces /\ pc - 3 \notin StartPlaces /\ pc - 4 \notin StartPlaces
  BY <1>4, PhasePlaces
<1>6. \A d \in Devices : producer[d] = Idle /\ produced[d] = 0 /\ totals[d].sent = 0
  BY <1>2 DEF Zero
<1>7. \A d \in Devices : Still(d) /\ Carried(d)
  BY <1>6, RunsMove DEF Still, Carried
<1>8. RunsInv
  <2>1. producer \in [Devices -> Runs] /\ produced \in [Devices -> Nat]
    BY <1>2, RunsMove
  <2> QED
    BY <1>6, <2>1 DEF RunsInv
<1>9. ASSUME NEW k \in {1, 2} PROVE Tallied(k)
  <2>1. Apis[k] \in Devices
    BY DevicesAre
  <2>2. ~HasRun(k)
    BY <1>5 DEF HasRun
  <2> QED
    BY <1>3, <1>6, <1>7, <2>1, <2>2 DEF Tallied
<1>10. Tallied(1) /\ Tallied(2)
  BY <1>9
<1> QED
  BY <1>7, <1>8, <1>10 DEF LoadInv, PubInv

LEMMA ProducerSteps ==
    ASSUME FlowInv, LateInv, ProducerInv, TrafficNext
    PROVE  ProducerInv'
<1> SUFFICES ASSUME Live' PROVE RunsInv' /\ LoadInv' /\ PubInv'
  BY DEF ProducerInv
<1>1. Live
  BY LiveBefore
<1>2. RunsInv /\ LoadInv /\ PubInv /\ \A c \in late : c.name \in Harmless
  BY <1>1 DEF ProducerInv, LateInv
<1>3. scenario' = scenario
  BY CauseStays
<1>4. scenario \in Scenarios /\ pc \in 1..Final /\ Connected \in Nat /\ LastDrain \in Nat /\ Connected < LastDrain
      /\ Final \in Nat /\ LastDrain < Final
  BY Bounds DEF FlowInv
<1>5. ASSUME UNCHANGED trafficVars,
             \/ Keeps /\ open' = open
             \/ UNCHANGED controlVars
             \/ Passes
             \/ pc <= Connected /\ pc' <= Connected /\ pc' \in 1..Final
             \/ /\ Advances /\ script[pc].op \notin {"pair", "assess"}
                /\ scenario = "IT-044" /\ pc - 2 \in StartPlaces => \A d \in Devices : Still(d)
      PROVE  RunsInv' /\ LoadInv' /\ PubInv'
  <2>1. CASE scenario # "IT-044"
    <3>1. Advances /\ script[pc].op \notin {"pair", "assess"} =>
             Advances /\ pc \notin StartPlaces /\ pc - 2 \notin StartPlaces /\ pc - 3 \notin StartPlaces
      BY <1>4, <2>1, PhaseOps
    <3>2. RunsInv' /\ LoadInv'
      BY <1>2, <1>3, <1>5, <2>1, <3>1, LoadKept
    <3> QED
      BY <1>3, <2>1, <3>2 DEF PubInv
  <2>2. CASE scenario = "IT-044"
    <3>1. producer' = producer
      BY <1>5 DEF trafficVars
    <3>2. pc <= Connected => pc <= LastDrain
      BY <1>4
    <3>3. PubInv'
      BY <1>2, <1>3, <1>5, <2>2, <3>1, <3>2, PubKept
    <3> QED
      BY <1>2, <1>3, <1>5, <2>2, <3>3, RunsStay DEF LoadInv
  <2> QED
    BY <2>1, <2>2
<1>6. ASSUME NEW how, Handles(how) PROVE pc <= Connected /\ pc' <= Connected /\ pc' \in 1..Final
  BY <1>4, <1>6 DEF Handles
<1>7. ~Fails("failed") /\ ~Fails("crashed")
  BY DEF Fails, Live
<1>8. scenario = "IT-044" /\ pc - 2 \in StartPlaces => script[pc].op = "wait"
  BY <1>4, DrainPlace
<1>9. CASE Sample(Seen(Condition), rest)
  <2>1. /\ script[pc].op \in {"wait", "check", "window"} /\ sample \in 1..Len(script[pc].what)
        /\ UNCHANGED rest
        /\ \/ Keeps /\ open' = open
           \/ Verdicts = "yes" /\ (Advances \/ Passes \/ Handles("no"))
           \/ Fails("failed") \/ Handles("failed")
    BY <1>9, SampleMoves
  <2>2. UNCHANGED trafficVars
    BY <2>1 DEF rest
  <2>3. Verdicts = "yes" /\ scenario = "IT-044" /\ pc - 2 \in StartPlaces => \A d \in Devices : Still(d)
    BY <1>2, <2>1, DrainSeen
  <2>4. (Keeps /\ open' = open) \/ Passes \/ Handles("no") \/ Handles("failed")
        \/ (Advances /\ Verdicts = "yes")
    BY <1>7, <2>1
  <2>5. Handles("no") \/ Handles("failed") => pc <= Connected /\ pc' <= Connected /\ pc' \in 1..Final
    BY <1>6
  <2> QED
    BY <1>5, <2>1, <2>2, <2>3, <2>4, <2>5
<1>10. CASE Pick(Seen(Condition), rest)
  <2>1. scenario = "IT-044" /\ pc = 13 /\ UNCHANGED rest
    BY <1>10, PickMoves
  <2>2. UNCHANGED trafficVars
    BY <2>1 DEF rest
  <2>3. pc <= LastDrain
    BY <2>1 DEF LastDrain
  <2>4. producer' = producer
    BY <2>2 DEF trafficVars
  <2>5. PubInv'
    BY <1>2, <1>3, <2>1, <2>3, <2>4, PubKept
  <2> QED
    BY <1>2, <1>3, <2>1, <2>2, <2>5, RunsStay DEF LoadInv
<1>11. CASE Assesses
  <2>1. CASE scenario # "IT-044"
    BY <1>2, <1>3, <1>11, <2>1, LoadAssessed DEF PubInv
  <2>2. CASE scenario = "IT-044"
    BY <1>2, <1>3, <1>11, <2>2, PubAssessed DEF LoadInv
  <2> QED
    BY <2>1, <2>2
<1>12. CASE Commands
  <2>1. CASE scenario # "IT-044"
    BY <1>2, <1>3, <1>12, <2>1, LoadCommanded DEF PubInv
  <2>2. CASE scenario = "IT-044"
    BY <1>2, <1>3, <1>12, <2>2, PubCommanded DEF LoadInv
  <2> QED
    BY <2>1, <2>2
<1>13. CASE Reraise(rest)
  <2>1. /\ pc \in 5..Connected /\ UNCHANGED rest
        /\ \/ raised = "no" /\ (Advances \/ Passes \/ Handles("no"))
           \/ raised # "no" /\ (Fails(raised) \/ Handles(raised))
    BY <1>13, ReraiseMoves
  <2>2. UNCHANGED trafficVars
    BY <2>1 DEF rest
  <2>3. raised # "no" => ~Fails(raised)
    BY <1>7 DEF FlowInv
  <2>4. Now.op = "reraise"
    BY <1>13 DEF Reraise, Busy
  <2>5. script[pc].op = "reraise"
    BY <1>4, <2>4, NowIs
  <2>6. Passes \/ Advances \/ Handles("no") \/ Handles(raised)
    BY <2>1, <2>3
  <2>7. Handles("no") \/ Handles(raised) => pc <= Connected /\ pc' <= Connected /\ pc' \in 1..Final
    BY <1>6
  <2> QED
    BY <1>5, <1>8, <2>2, <2>5, <2>6, <2>7
<1>14. CASE PollAgain(rest)
  <2>1. Keeps /\ open' = open /\ UNCHANGED rest
    BY <1>14, PollAgainMoves
  <2>2. UNCHANGED trafficVars
    BY <2>1 DEF rest
  <2> QED
    BY <1>5, <2>1, <2>2
<1>15. CASE DeadlinePassed(rest)
  <2>1. UNCHANGED rest /\ \E how \in {"failed"} : Fails(how) \/ Handles(how)
    BY <1>15, DeadlineMoves
  <2>2. UNCHANGED trafficVars
    BY <2>1 DEF rest
  <2>3. \E how : Handles(how)
    BY <1>7, <2>1
  <2>4. pc <= Connected /\ pc' <= Connected /\ pc' \in 1..Final
    BY <1>6, <2>3
  <2> QED
    BY <1>5, <2>2, <2>4
<1>16. CASE WindowEnds(rest)
  <2>1. script[pc].op = "window" /\ UNCHANGED rest /\ (Advances \/ Passes \/ Handles("no"))
    BY <1>16, WindowMoves
  <2>2. UNCHANGED trafficVars
    BY <2>1 DEF rest
  <2>3. Handles("no") => pc <= Connected /\ pc' <= Connected /\ pc' \in 1..Final
    BY <1>6
  <2> QED
    BY <1>5, <1>8, <2>1, <2>2, <2>3
<1>17. CASE ReadFails(EndpointReads, rest)
  <2>1. UNCHANGED rest /\ FailsOrHandles
    BY <1>17, ReadFailsMoves
  <2>2. UNCHANGED trafficVars
    BY <2>1 DEF rest
  <2>3. \E how : Handles(how)
    BY <1>7, <2>1 DEF FailsOrHandles
  <2>4. pc <= Connected /\ pc' <= Connected /\ pc' \in 1..Final
    BY <1>6, <2>3
  <2> QED
    BY <1>5, <2>2, <2>4
<1>18. CASE \E c \in late : LateCommand(c, Accepts(c), Effect(c))
  <2>1. PICK c \in late : LateCommand(c, Accepts(c), Effect(c))
    BY <1>18
  <2>2. Effect(c) /\ UNCHANGED controlVars
    BY <2>1 DEF LateCommand
  <2>3. UNCHANGED trafficVars
    BY <1>2, <2>2, HarmlessEffect
  <2> QED
    BY <1>5, <2>2, <2>3
<1>19. CASE DevicesMove /\ UNCHANGED trafficVars
  <2>1. UNCHANGED controlVars
    BY <1>19, DevicesMoves
  <2> QED
    BY <1>5, <1>19, <2>1
<1>20. CASE ProducersMove
  <2>1. PICK e \in Devices : Produce(e) \/ Refuse(e) \/ Complete(e)
    BY <1>20 DEF ProducersMove
  <2>2. UNCHANGED controlVars
    BY <1>20 DEF ProducersMove, stepVars
  <2>3. CASE scenario # "IT-044"
    BY <1>2, <1>3, <2>1, <2>2, <2>3, LoadProduced DEF PubInv
  <2>4. CASE scenario = "IT-044"
    <3>1. /\ RunsInv' /\ ~Still(e)
          /\ \A d \in Devices : d # e => producer'[d] = producer[d]
      BY <1>2, <2>1, RunsProduce
    <3>2. e = chosen /\ (pc - 1 \in StartPlaces \/ pc - 2 \in StartPlaces)
      BY <1>2, <2>4, <3>1 DEF PubInv
    <3>3. StartPlaces' = StartPlaces /\ pc' = pc /\ chosen' = chosen
      BY <1>3, <2>2, Frozen DEF controlVars
    <3>4. PubInv'
      BY <1>2, <2>4, <3>1, <3>2, <3>3 DEF PubInv, Still
    <3> QED
      BY <1>3, <2>4, <3>1, <3>4 DEF LoadInv
  <2> QED
    BY <2>3, <2>4
<1> QED
  BY <1>9, <1>10, <1>11, <1>12, <1>13, <1>14, <1>15, <1>16, <1>17, <1>18, <1>19, <1>20
     DEF TrafficNext, Proceeds

-----------------------------------------------------------------------------
(* The theorems.                                                           *)

TrafficInv == FlowInv /\ FeedInv /\ CrashInv /\ LateInv /\ ProducerInv

LEMMA TrafficStutters ==
    ASSUME TrafficInv, UNCHANGED allVars
    PROVE  TrafficInv'
<1>1. /\ UNCHANGED <<unread, since, missed, scenario, pc, sample, open, chosen, raised, outcome, faults, late>>
      /\ UNCHANGED <<group, leading, flaps, producer, totals, produced>>
  BY DEF allVars, stepVars, feedVars, controlVars, fixtureVars, trafficVars
<1>2. script' = script /\ Final' = Final /\ Connected' = Connected /\ LastDrain' = LastDrain
      /\ StartPlaces' = StartPlaces
  BY <1>1, Frozen
<1>3. FlowInv'
  BY <1>1, FlowKept DEF TrafficInv, FlowInv, Keeps
<1>4. FeedInv'
  <2>1. UNCHANGED feedVars
    BY <1>1 DEF feedVars
  <2> QED
    BY <1>1, <2>1, FeedHeld DEF TrafficInv
<1>5. CrashInv'
  BY <1>1 DEF TrafficInv, CrashInv, Cause, GroupInv, First
<1>6. Live' = Live
  BY <1>1, <1>2 DEF Live
<1>7. LateInv'
  BY <1>1, <1>6 DEF TrafficInv, LateInv
<1>8. ProducerInv'
  <2> SUFFICES ASSUME Live PROVE RunsInv' /\ LoadInv' /\ PubInv'
    BY <1>6 DEF ProducerInv
  <2>1. RunsInv /\ LoadInv /\ PubInv
    BY DEF TrafficInv, ProducerInv
  <2>2. RunsInv'
    BY <1>1, <2>1 DEF RunsInv
  <2>3. LoadInv'
    <3>1. HasRun(1)' = HasRun(1) /\ HasRun(2)' = HasRun(2) /\ Quieted(1)' = Quieted(1) /\ Quieted(2)' = Quieted(2)
      BY <1>1, <1>2 DEF HasRun, Quieted
    <3> QED
      BY <1>1, <1>2, <2>1, <3>1 DEF LoadInv, Tallied, Still, Loaded, Carried
  <2>4. PubInv'
    BY <1>1, <1>2, <2>1 DEF PubInv, Still
  <2> QED
    BY <2>2, <2>3, <2>4
<1> QED
  BY <1>3, <1>4, <1>5, <1>7, <1>8 DEF TrafficInv

(* The place in the script, the events read, the group, the commands given *)
(* up and the producers are related as the invariants above say.           *)
THEOREM TrafficInvariant == TrafficSpec => []TrafficInv
<1>1. TrafficInit => TrafficInv
  BY FlowStarts, FeedStarts, CrashStarts, LateStarts, ProducersStart DEF TrafficInv
<1>2. TrafficInv /\ TrafficNext => TrafficInv'
  BY FlowSteps, FeedSteps, CrashSteps, LateSteps, ProducerSteps DEF TrafficInv
<1>3. TrafficInv /\ UNCHANGED allVars => TrafficInv'
  BY TrafficStutters
<1> QED
  BY <1>1, <1>2, <1>3, PTL DEF TrafficSpec

(* From the first stability window on, no read of the runner takes the end *)
(* of a connection or a failed attempt off the event feed of a fixture     *)
(* without failing the scenario.                                           *)
THEOREM TrafficNoFlapOverlooked == TrafficSpec => []NoFlapOverlooked
<1>1. TrafficInv => NoFlapOverlooked
  <2> SUFFICES ASSUME TrafficInv, Watching, outcome \in {"running", "passed"}, NEW d \in Devices
               PROVE  d \notin since \/ d \in missed \/ Matching(d, Unstable) # {}
    BY DEF NoFlapOverlooked
  <2>1. scenario \in Scenarios /\ pc \in 1..Final /\ LastDrain \in Nat /\ Final \in Nat
    BY Bounds DEF TrafficInv, FlowInv
  <2>2. pc > LastDrain
    <3>1. pc >= LastDrain + 1
      BY <2>1, JumpIs DEF Watching
    <3> QED
      BY <2>1, <3>1
  <2> QED
    BY <2>2 DEF TrafficInv, FeedInv, Noticed
<1> QED
  BY <1>1, TrafficInvariant, PTL

(* A scenario under load ends with an exception main() does not report     *)
(* only after an answer that is not JSON, or after a coordinator moved     *)
(* while the snapshots were read.                                          *)
THEOREM TrafficCrashNeedsCause == TrafficSpec => []CrashNeedsCause
<1>1. TrafficInv => CrashNeedsCause
  BY DEF TrafficInv, CrashInv, Cause, CrashNeedsCause
<1> QED
  BY <1>1, TrafficInvariant, PTL

(* A scenario that passed is past its phases, and nothing failed it.       *)
LEMMA PassedIsLive ==
    ASSUME TrafficInv, outcome = "passed"
    PROVE  /\ scenario \in Scenarios /\ pc = Final /\ pc \in 1..Final /\ ~InPhase(pc) /\ Quieted(1) /\ Quieted(2)
           /\ RunsInv /\ LoadInv /\ PubInv
<1>1. scenario \in Scenarios /\ pc = Final /\ pc \in 1..Final
  BY DEF TrafficInv, FlowInv
<1>2. ~InPhase(pc)
  BY <1>1, PhasePlaces
<1>3. Live
  BY DEF TrafficInv, FlowInv, Live
<1>4. Quieted(1) /\ Quieted(2)
  BY <1>2 DEF InPhase, Quieted
<1> QED
  BY <1>1, <1>2, <1>3, <1>4 DEF TrafficInv, ProducerInv

(* A passing scenario leaves no producer running and no publication        *)
(* pending on any device: every phase stopped both devices, or saw the     *)
(* one it had chosen drained.                                              *)
THEOREM TrafficLeavesQuiet == TrafficSpec => []PassedLeavesQuiet
<1>1. TrafficInv => PassedLeavesQuiet
  <2> SUFFICES ASSUME TrafficInv, outcome = "passed", NEW d \in Devices
               PROVE  ~producer[d].on /\ producer[d].pending = 0
    BY DEF PassedLeavesQuiet
  <2>1. CASE scenario = "IT-044"
    BY <2>1, PassedIsLive DEF InPhase, PubInv, Still
  <2>2. CASE scenario # "IT-044"
    <3>1. Still(Apis[1]) /\ Still(Apis[2])
      BY <2>2, PassedIsLive DEF LoadInv, Tallied
    <3> QED
      BY <3>1, DevicesAre DEF Still
  <2> QED
    BY <2>1, <2>2
<1> QED
  BY <1>1, TrafficInvariant, PTL

(* A pass accounts for every message the fixtures produced: IT-041         *)
(* obtained an ACK for each, and IT-043 added up each of them exactly once *)
(* over all of its phases, however many there are.                         *)
THEOREM TrafficAccountsForAll == TrafficSpec => []PassedAccountsForAll
<1>1. TrafficInv => PassedAccountsForAll
  <2> SUFFICES ASSUME TrafficInv, outcome = "passed", NEW d \in Devices
               PROVE  /\ scenario = "IT-041" => producer[d].acked = produced[d]
                      /\ scenario = "IT-043" => totals[d].sent = produced[d]
    BY DEF PassedAccountsForAll
  <2>1. PICK k \in {1, 2} : d = Apis[k]
    BY DevicesAre
  <2>2. CASE scenario = "IT-041"
    <3>1. pc = 27 /\ pc - 4 \in StartPlaces
      BY <2>2, PassedIsLive, PhasePlaces
    <3>2. Tallied(k)
      BY <2>2, PassedIsLive DEF LoadInv
    <3>3. Loaded(d) /\ totals[d].sent = 0 /\ producer[d].acked = producer[d].sent
      BY <2>1, <2>2, <3>1, <3>2 DEF Tallied, HasRun
    <3>4. producer[d].sent \in Nat
      BY PassedIsLive DEF RunsInv, Runs, Counts
    <3> QED
      BY <2>2, <3>3, <3>4 DEF Loaded
  <2>3. CASE scenario = "IT-043"
    <3>1. Tallied(k)
      BY <2>3, PassedIsLive DEF LoadInv
    <3>2. ~HasRun(k)
      BY <2>3, PassedIsLive DEF HasRun, InPhase
    <3> QED
      BY <2>1, <2>3, <3>1, <3>2 DEF Tallied, Carried
  <2> QED
    BY <2>2, <2>3
<1> QED
  BY <1>1, TrafficInvariant, PTL
=============================================================================
