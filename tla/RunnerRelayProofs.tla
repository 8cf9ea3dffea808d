-------------------------- MODULE RunnerRelayProofs --------------------------
(***************************************************************************)
(* Proofs about IT-046, for every number of rounds, of faulty requests and *)
(* of stray messages: what the scenario leaves blocked, and what a pass    *)
(* says was delivered.                                                     *)
(*                                                                         *)
(* The first part computes the script: what its step at every position is  *)
(* and where a failure there leads.  The invariant then relates the place  *)
(* in the script to what the devices have delivered and what they block.   *)
(***************************************************************************)
EXTENDS RunnerRelay, SequenceTheorems, TLAPS

-----------------------------------------------------------------------------
(* Sequences.                                                              *)

(* s is a sequence of n elements.                                          *)
IsSeq(s, n) == n \in Nat /\ \E S : s \in Seq(S) /\ Len(s) = n

(* A function over an interval from 1 is one.                              *)
LEMMA FunctionIsSeq ==
    ASSUME NEW n \in Nat, NEW f, f = [i \in 1..n |-> f[i]]
    PROVE  IsSeq(f, n)
<1> DEFINE S == {f[i] : i \in 1..n}
<1>1. f \in [1..n -> S]
  OBVIOUS
<1> HIDE DEF S
<1>2. f \in Seq(S) /\ Len(f) = n
  BY <1>1
<1> QED
  BY <1>2 DEF IsSeq

(* Concatenation, for sequences whose elements are of no common type: r,   *)
(* of k elements, is s, of m, followed by t, of n.                         *)
Joins(r, k, s, m, t, n) == r = s \o t /\ k = m + n /\ IsSeq(s, m) /\ IsSeq(t, n)

(* Such an r is a sequence and has the elements of both.                   *)
LEMMA Concat ==
    ASSUME NEW r, NEW k, NEW s, NEW m, NEW t, NEW n, Joins(r, k, s, m, t, n)
    PROVE  /\ IsSeq(r, k)
           /\ \A i \in 1..m : r[i] = s[i]
           /\ \A i \in 1..n : r[m + i] = t[i]
<1>1. m \in Nat /\ n \in Nat
  BY DEF IsSeq, Joins
<1>2. PICK S : s \in Seq(S) /\ Len(s) = m
  BY DEF IsSeq, Joins
<1>3. PICK T : t \in Seq(T) /\ Len(t) = n
  BY DEF IsSeq, Joins
<1>4. s \in Seq(S \cup T) /\ t \in Seq(S \cup T)
  BY <1>2, <1>3
<1>5. /\ r \in Seq(S \cup T) /\ Len(r) = m + n
      /\ \A i \in 1..(m + n) : r[i] = IF i =< m THEN s[i] ELSE t[i - m]
  BY <1>2, <1>3, <1>4, ConcatProperties DEF Joins
<1>6. IsSeq(r, k)
  BY <1>1, <1>5 DEF IsSeq, Joins
<1>7. ASSUME NEW i \in 1..m PROVE r[i] = s[i]
  BY <1>1, <1>5
<1>8. ASSUME NEW i \in 1..n PROVE r[m + i] = t[i]
  <2>1. m + i \in 1..(m + n) /\ ~(m + i =< m) /\ (m + i) - m = i
    BY <1>1
  <2> QED
    BY <1>5, <2>1
<1> QED
  BY <1>6, <1>7, <1>8

-----------------------------------------------------------------------------
(* The steps of the try block, and the block.                              *)

K == 2 * Rounds
BlockA == Cmd(Block("a", TRUE))
BlockC == Cmd(Block("c", TRUE))
AwaitRelay == Step("wait", BothEnds("relay"))
NoteOf(d) == Step("note", <<Shows("received", d)>>)
SendAt(i) == Cmd(Send(IF i % 2 = 1 THEN "a" ELSE "c"))
AwaitGot == Step("wait", BothEnds("got"))
CheckUntouched == Step("check", <<Shows("untouched", "b")>>)
Stability == Step("window", BothEnds("relay") \o Near)

Opening == <<BlockA, BlockC, AwaitRelay>>
Noting == Baselines(<<"a", "c", "b">>)
Closing == <<AwaitGot, CheckUntouched, Stability>>
Tried == Opening \o Noting \o Exchange \o Closing

(* K is a number of messages.                                              *)
LEMMA KIsNat == K \in Nat /\ K > 0
BY RelayBounds DEF K

(* The steps of the try block by position.                                 *)
LEMMA TriedIs ==
    /\ IsSeq(Tried, 9 + K)
    /\ Tried[1] = BlockA /\ Tried[2] = BlockC /\ Tried[3] = AwaitRelay
    /\ Tried[4] = NoteOf("a") /\ Tried[5] = NoteOf("c") /\ Tried[6] = NoteOf("b")
    /\ \A i \in 1..K : Tried[6 + i] = SendAt(i)
    /\ Tried[7 + K] = AwaitGot /\ Tried[8 + K] = CheckUntouched /\ Tried[9 + K] = Stability
<1>1. IsSeq(Opening, 3) /\ Opening[1] = BlockA /\ Opening[2] = BlockC /\ Opening[3] = AwaitRelay
  <2>1. Opening = [i \in 1..3 |-> Opening[i]]
    BY DEF Opening
  <2>2. IsSeq(Opening, 3)
    BY <2>1, FunctionIsSeq
  <2> QED
    BY <2>2 DEF Opening
<1>2. IsSeq(Noting, 3) /\ Noting[1] = NoteOf("a") /\ Noting[2] = NoteOf("c")
      /\ Noting[3] = NoteOf("b")
  <2>1. DOMAIN <<"a", "c", "b">> = 1..3
    OBVIOUS
  <2>2. Noting = [i \in 1..3 |-> NoteOf(<<"a", "c", "b">>[i])]
    BY <2>1 DEF Noting, Baselines, NoteOf
  <2>3. Noting = [i \in 1..3 |-> Noting[i]]
    BY <2>2
  <2>4. IsSeq(Noting, 3)
    BY <2>3, FunctionIsSeq
  <2> QED
    BY <2>2, <2>4
<1>3. IsSeq(Exchange, K) /\ \A i \in 1..K : Exchange[i] = SendAt(i)
  <2>1. Exchange = [i \in 1..K |-> SendAt(i)]
    BY DEF Exchange, K, SendAt
  <2>2. Exchange = [i \in 1..K |-> Exchange[i]]
    BY <2>1
  <2>3. IsSeq(Exchange, K)
    BY <2>2, KIsNat, FunctionIsSeq
  <2> QED
    BY <2>1, <2>3
<1>4. IsSeq(Closing, 3) /\ Closing[1] = AwaitGot /\ Closing[2] = CheckUntouched
      /\ Closing[3] = Stability
  <2>1. Closing = [i \in 1..3 |-> Closing[i]]
    BY DEF Closing
  <2>2. IsSeq(Closing, 3)
    BY <2>1, FunctionIsSeq
  <2> QED
    BY <2>2 DEF Closing
<1> DEFINE on == Opening \o Noting
           one == on \o Exchange
<1>5. Tried = one \o Closing
  BY DEF Tried
<1>6. one = on \o Exchange
  OBVIOUS
<1>7. on = Opening \o Noting
  OBVIOUS
<1> HIDE DEF on, one
<1>8. /\ IsSeq(on, 6)
      /\ \A i \in 1..3 : on[i] = Opening[i]
      /\ \A i \in 1..3 : on[3 + i] = Noting[i]
  <2>1. Joins(on, 6, Opening, 3, Noting, 3)
    BY <1>1, <1>2, <1>7 DEF Joins
  <2> QED
    BY <2>1, Concat
<1>9. /\ IsSeq(one, 6 + K)
      /\ \A i \in 1..6 : one[i] = on[i]
      /\ \A i \in 1..K : one[6 + i] = Exchange[i]
  <2>1. Joins(one, 6 + K, on, 6, Exchange, K)
    BY <1>3, <1>6, <1>8 DEF Joins
  <2> QED
    BY <2>1, Concat
<1> DEFINE len == 9 + K
           sofar == 6 + K
<1>10. len = sofar + 3
  BY KIsNat
<1>11. IsSeq(one, sofar)
  BY <1>9
<1> HIDE DEF len, sofar
<1>12. /\ IsSeq(Tried, len)
       /\ \A i \in 1..sofar : Tried[i] = one[i]
       /\ \A i \in 1..3 : Tried[sofar + i] = Closing[i]
  <2>1. Joins(Tried, len, one, sofar, Closing, 3)
    BY <1>4, <1>5, <1>10, <1>11 DEF Joins
  <2> QED
    BY <2>1, Concat
<1>13. \A i \in 1..(6 + K) : Tried[i] = one[i]
  BY <1>12 DEF sofar
<1>14. /\ Tried[7 + K] = Closing[1] /\ Tried[8 + K] = Closing[2] /\ Tried[9 + K] = Closing[3]
  <2>1. \A i \in 1..3 : Tried[(6 + K) + i] = Closing[i]
    BY <1>12 DEF sofar
  <2>2. 7 + K = (6 + K) + 1 /\ 8 + K = (6 + K) + 2 /\ 9 + K = (6 + K) + 3
    BY KIsNat
  <2> QED
    BY <2>1, <2>2
<1>15. \A i \in 1..6 : Tried[i] = on[i]
  BY <1>9, <1>13, KIsNat
<1>16. /\ on[1] = BlockA /\ on[2] = BlockC /\ on[3] = AwaitRelay
       /\ on[4] = NoteOf("a") /\ on[5] = NoteOf("c") /\ on[6] = NoteOf("b")
  <2>1. 4 = 3 + 1 /\ 5 = 3 + 2 /\ 6 = 3 + 3
    OBVIOUS
  <2>2. on[3 + 1] = Noting[1] /\ on[3 + 2] = Noting[2] /\ on[3 + 3] = Noting[3]
    BY <1>8
  <2> QED
    BY <1>1, <1>2, <1>8, <2>1, <2>2
<1>17. \A i \in 1..K : Tried[6 + i] = SendAt(i)
  BY <1>3, <1>9, <1>13, KIsNat
<1>18. IsSeq(Tried, 9 + K)
  BY <1>12 DEF len
<1> QED
  BY <1>4, <1>14, <1>15, <1>16, <1>17, <1>18

-----------------------------------------------------------------------------
(* The script.                                                             *)

Caught(s) == [s EXCEPT !.onFail = "clearA", !.onCrash = "clearA"]
AwaitNear == Step("wait", Near)
DrainAll == Step("check", <<Events("drain", "a", {}), Events("drain", "b", {}),
                            Events("drain", "c", {})>>)
ClearA == At("clearA", Catch("clearC", Cmd(Block("a", FALSE))))
ClearC == At("clearC", Catch("cleared", Cmd(Block("c", FALSE))))
Cleared == At("cleared", Step("reraise", <<>>))
AwaitDirect == Then("end", Catch("recheck", Step("wait", BothEnds("direct"))))
Recheck == At("recheck", Else("relayed", Then("end", Step("if", BothEnds("direct")))))
CheckRelayed == At("relayed", Step("check", BothEnds("relay")))
AwaitMore == Step("wait", BothEnds("more"))
OneMore(d) == Cmd(Send(d))

Ahead == <<AwaitNear, DrainAll>>
Guarded == Finally("clearA", Tried)
After == <<ClearA, ClearC, Cleared, AwaitDirect, Recheck, CheckRelayed>>
NotingAgain == Baselines(<<"a", "c">>)
LastExchange == <<OneMore("a"), OneMore("c"), AwaitMore>>

(* The whole script by position.                                           *)
LEMMA ScriptIs ==
    /\ IsSeq(FriendRelay, 22 + K)
    /\ FriendRelay[1] = AwaitNear /\ FriendRelay[2] = DrainAll
    /\ FriendRelay[3] = Caught(BlockA) /\ FriendRelay[4] = Caught(BlockC)
    /\ FriendRelay[5] = Caught(AwaitRelay) /\ FriendRelay[6] = Caught(NoteOf("a"))
    /\ FriendRelay[7] = Caught(NoteOf("c")) /\ FriendRelay[8] = Caught(NoteOf("b"))
    /\ \A i \in 1..K : FriendRelay[8 + i] = Caught(SendAt(i))
    /\ FriendRelay[9 + K] = Caught(AwaitGot) /\ FriendRelay[10 + K] = Caught(CheckUntouched)
    /\ FriendRelay[11 + K] = Caught(Stability)
    /\ FriendRelay[12 + K] = ClearA /\ FriendRelay[13 + K] = ClearC
    /\ FriendRelay[14 + K] = Cleared /\ FriendRelay[15 + K] = AwaitDirect
    /\ FriendRelay[16 + K] = Recheck /\ FriendRelay[17 + K] = CheckRelayed
    /\ FriendRelay[18 + K] = NoteOf("a") /\ FriendRelay[19 + K] = NoteOf("c")
    /\ FriendRelay[20 + K] = OneMore("a") /\ FriendRelay[21 + K] = OneMore("c")
    /\ FriendRelay[22 + K] = AwaitMore
<1>1. IsSeq(Ahead, 2) /\ Ahead[1] = AwaitNear /\ Ahead[2] = DrainAll
  <2>1. Ahead = [i \in 1..2 |-> Ahead[i]]
    BY DEF Ahead
  <2>2. IsSeq(Ahead, 2)
    BY <2>1, FunctionIsSeq
  <2> QED
    BY <2>2 DEF Ahead
<1>2. IsSeq(Guarded, 9 + K) /\ \A i \in 1..(9 + K) : Guarded[i] = Caught(Tried[i])
  <2>1. DOMAIN Tried = 1..(9 + K)
    BY TriedIs, LenProperties DEF IsSeq
  <2>2. Guarded = [i \in 1..(9 + K) |-> Caught(Tried[i])]
    BY <2>1 DEF Guarded, Finally, Caught
  <2>3. Guarded = [i \in 1..(9 + K) |-> Guarded[i]]
    BY <2>2
  <2>4. 9 + K \in Nat
    BY KIsNat
  <2>5. IsSeq(Guarded, 9 + K)
    BY <2>3, <2>4, FunctionIsSeq
  <2> QED
    BY <2>2, <2>5
<1>3. IsSeq(After, 6) /\ After[1] = ClearA /\ After[2] = ClearC /\ After[3] = Cleared
      /\ After[4] = AwaitDirect /\ After[5] = Recheck /\ After[6] = CheckRelayed
  <2>1. After = [i \in 1..6 |-> After[i]]
    BY DEF After
  <2>2. IsSeq(After, 6)
    BY <2>1, FunctionIsSeq
  <2> QED
    BY <2>2 DEF After
<1>4. IsSeq(NotingAgain, 2) /\ NotingAgain[1] = NoteOf("a") /\ NotingAgain[2] = NoteOf("c")
  <2>1. DOMAIN <<"a", "c">> = 1..2
    OBVIOUS
  <2>2. NotingAgain = [i \in 1..2 |-> NoteOf(<<"a", "c">>[i])]
    BY <2>1 DEF NotingAgain, Baselines, NoteOf
  <2>3. NotingAgain = [i \in 1..2 |-> NotingAgain[i]]
    BY <2>2
  <2>4. IsSeq(NotingAgain, 2)
    BY <2>3, FunctionIsSeq
  <2> QED
    BY <2>2, <2>4
<1>5. IsSeq(LastExchange, 3) /\ LastExchange[1] = OneMore("a") /\ LastExchange[2] = OneMore("c")
      /\ LastExchange[3] = AwaitMore
  <2>1. LastExchange = [i \in 1..3 |-> LastExchange[i]]
    BY DEF LastExchange
  <2>2. IsSeq(LastExchange, 3)
    BY <2>1, FunctionIsSeq
  <2> QED
    BY <2>2 DEF LastExchange
<1> DEFINE one == Ahead \o Guarded
           two == one \o After
           three == two \o NotingAgain
<1>6. FriendRelay = three \o LastExchange
  BY DEF FriendRelay, Ahead, Guarded, After, NotingAgain, LastExchange, AwaitNear, DrainAll,
         Tried, Opening, Noting, Closing, BlockA, BlockC, AwaitRelay, AwaitGot, CheckUntouched,
         Stability, ClearA, ClearC, Cleared, AwaitDirect, Recheck, CheckRelayed, AwaitMore, OneMore
<1>7. Joins(one, 11 + K, Ahead, 2, Guarded, 9 + K)
  BY <1>1, <1>2, KIsNat DEF Joins
<1> HIDE DEF one
<1>8. /\ IsSeq(one, 11 + K) /\ \A i \in 1..2 : one[i] = Ahead[i]
      /\ \A i \in 1..(9 + K) : one[2 + i] = Guarded[i]
  BY <1>7, Concat
<1>9. Joins(two, 17 + K, one, 11 + K, After, 6)
  BY <1>3, <1>8, KIsNat DEF Joins
<1> HIDE DEF two
<1>10. /\ IsSeq(two, 17 + K) /\ \A i \in 1..(11 + K) : two[i] = one[i]
       /\ \A i \in 1..6 : two[(11 + K) + i] = After[i]
  BY <1>9, Concat
<1>11. Joins(three, 19 + K, two, 17 + K, NotingAgain, 2)
  BY <1>4, <1>10, KIsNat DEF Joins
<1> HIDE DEF three
<1>12. /\ IsSeq(three, 19 + K) /\ \A i \in 1..(17 + K) : three[i] = two[i]
       /\ \A i \in 1..2 : three[(17 + K) + i] = NotingAgain[i]
  BY <1>11, Concat
<1>13. Joins(FriendRelay, 22 + K, three, 19 + K, LastExchange, 3)
  BY <1>5, <1>6, <1>12, KIsNat DEF Joins
<1>14. /\ IsSeq(FriendRelay, 22 + K) /\ \A i \in 1..(19 + K) : FriendRelay[i] = three[i]
       /\ \A i \in 1..3 : FriendRelay[(19 + K) + i] = LastExchange[i]
  BY <1>13, Concat
<1>15. FriendRelay[1] = AwaitNear /\ FriendRelay[2] = DrainAll
  <2>1. \A i \in 1..2 : i \in 1..(11 + K) /\ i \in 1..(17 + K) /\ i \in 1..(19 + K)
    BY KIsNat
  <2> QED
    BY <1>1, <1>8, <1>10, <1>12, <1>14, <2>1
<1>16. \A i \in 1..(9 + K) : FriendRelay[2 + i] = Caught(Tried[i])
  <2>1. \A i \in 1..(9 + K) : 2 + i \in 1..(11 + K) /\ 2 + i \in 1..(17 + K) /\ 2 + i \in 1..(19 + K)
    BY KIsNat
  <2> QED
    BY <1>2, <1>8, <1>10, <1>12, <1>14, <2>1
<1>17. /\ FriendRelay[3] = Caught(BlockA) /\ FriendRelay[4] = Caught(BlockC)
       /\ FriendRelay[5] = Caught(AwaitRelay) /\ FriendRelay[6] = Caught(NoteOf("a"))
       /\ FriendRelay[7] = Caught(NoteOf("c")) /\ FriendRelay[8] = Caught(NoteOf("b"))
  <2>1. \A i \in 1..6 : i \in 1..(9 + K)
    BY KIsNat
  <2>2. 3 = 2 + 1 /\ 4 = 2 + 2 /\ 5 = 2 + 3 /\ 6 = 2 + 4 /\ 7 = 2 + 5 /\ 8 = 2 + 6
    OBVIOUS
  <2>3. \A i \in 1..6 : FriendRelay[2 + i] = Caught(Tried[i])
    BY <1>16, <2>1
  <2> QED
    BY <2>2, <2>3, TriedIs
<1>18. \A i \in 1..K : FriendRelay[8 + i] = Caught(SendAt(i))
  <2>1. \A i \in 1..K : 6 + i \in 1..(9 + K) /\ 2 + (6 + i) = 8 + i
    BY KIsNat
  <2> QED
    BY <1>16, <2>1, TriedIs
<1>19. /\ FriendRelay[9 + K] = Caught(AwaitGot) /\ FriendRelay[10 + K] = Caught(CheckUntouched)
       /\ FriendRelay[11 + K] = Caught(Stability)
  <2>1. /\ \A i \in {7 + K, 8 + K, 9 + K} : i \in 1..(9 + K)
        /\ 2 + (7 + K) = 9 + K /\ 2 + (8 + K) = 10 + K /\ 2 + (9 + K) = 11 + K
    BY KIsNat
  <2> QED
    BY <1>16, <2>1, TriedIs
<1>20. \A i \in 1..6 : FriendRelay[(11 + K) + i] = After[i]
  <2>1. \A i \in 1..6 : (11 + K) + i \in 1..(17 + K) /\ (11 + K) + i \in 1..(19 + K)
    BY KIsNat
  <2> QED
    BY <1>10, <1>12, <1>14, <2>1
<1>21. /\ FriendRelay[12 + K] = ClearA /\ FriendRelay[13 + K] = ClearC
       /\ FriendRelay[14 + K] = Cleared /\ FriendRelay[15 + K] = AwaitDirect
       /\ FriendRelay[16 + K] = Recheck /\ FriendRelay[17 + K] = CheckRelayed
  <2>1. /\ (11 + K) + 1 = 12 + K /\ (11 + K) + 2 = 13 + K /\ (11 + K) + 3 = 14 + K
        /\ (11 + K) + 4 = 15 + K /\ (11 + K) + 5 = 16 + K /\ (11 + K) + 6 = 17 + K
    BY KIsNat
  <2> QED
    BY <1>3, <1>20, <2>1
<1>22. FriendRelay[18 + K] = NoteOf("a") /\ FriendRelay[19 + K] = NoteOf("c")
  <2>1. \A i \in 1..2 : (17 + K) + i \in 1..(19 + K)
    BY KIsNat
  <2>2. (17 + K) + 1 = 18 + K /\ (17 + K) + 2 = 19 + K
    BY KIsNat
  <2>3. \A i \in 1..2 : FriendRelay[(17 + K) + i] = NotingAgain[i]
    BY <1>12, <1>14, <2>1
  <2> QED
    BY <1>4, <2>2, <2>3
<1>23. /\ FriendRelay[20 + K] = OneMore("a") /\ FriendRelay[21 + K] = OneMore("c")
       /\ FriendRelay[22 + K] = AwaitMore
  <2>1. (19 + K) + 1 = 20 + K /\ (19 + K) + 2 = 21 + K /\ (19 + K) + 3 = 22 + K
    BY KIsNat
  <2> QED
    BY <1>5, <1>14, <2>1
<1> QED
  BY <1>14, <1>15, <1>17, <1>18, <1>19, <1>21, <1>22, <1>23

(* Where the steps lead.                                                   *)
Order(i) == IF i \in {15 + K, 16 + K} THEN "end" ELSE "next"
OnFail(i) == IF i \in 3..(11 + K) THEN "clearA" ELSE IF i = 12 + K THEN "clearC"
             ELSE IF i = 13 + K THEN "cleared" ELSE IF i = 15 + K THEN "recheck" ELSE "end"
OnCrash(i) == IF i \in 3..(11 + K) THEN "clearA" ELSE "end"

Clearing(s, label) ==
    /\ s.op = "cmd" /\ s.then = "next" /\ s.orElse = "end" /\ s.onFail = label
    /\ s.onCrash = "end" /\ s.swallow /\ ~s.toChosen

(* What the steps after the try block are and where they lead.             *)
LEMMA LaterSteps ==
    /\ Clearing(ClearA, "clearC") /\ ClearA.at = "clearA"
    /\ ClearA.what = <<Block("a", FALSE)>>
    /\ Clearing(ClearC, "cleared") /\ ClearC.at = "clearC"
    /\ ClearC.what = <<Block("c", FALSE)>>
    /\ Cleared.op = "reraise" /\ Cleared.at = "cleared" /\ Cleared.then = "next"
    /\ Cleared.orElse = "end" /\ Cleared.onFail = "end" /\ Cleared.onCrash = "end"
    /\ ~Cleared.swallow /\ ~Cleared.toChosen
    /\ AwaitDirect.op = "wait" /\ AwaitDirect.what = BothEnds("direct") /\ AwaitDirect.at = ""
    /\ AwaitDirect.then = "end" /\ AwaitDirect.orElse = "end" /\ AwaitDirect.onFail = "recheck"
    /\ AwaitDirect.onCrash = "end" /\ AwaitDirect.swallow /\ ~AwaitDirect.toChosen
    /\ Recheck.op = "if" /\ Recheck.what = BothEnds("direct") /\ Recheck.at = "recheck"
    /\ Recheck.then = "end" /\ Recheck.orElse = "relayed" /\ Recheck.onFail = "end"
    /\ Recheck.onCrash = "end" /\ ~Recheck.swallow /\ ~Recheck.toChosen
    /\ CheckRelayed.op = "check" /\ CheckRelayed.what = BothEnds("relay")
    /\ CheckRelayed.at = "relayed" /\ CheckRelayed.then = "next" /\ CheckRelayed.orElse = "end"
    /\ CheckRelayed.onFail = "end" /\ CheckRelayed.onCrash = "end"
    /\ ~CheckRelayed.swallow /\ ~CheckRelayed.toChosen
<1>1. Clearing(ClearA, "clearC") /\ ClearA.at = "clearA" /\ ClearA.what = <<Block("a", FALSE)>>
  BY DEF ClearA, Clearing, At, Catch, Cmd, Step
<1>2. Clearing(ClearC, "cleared") /\ ClearC.at = "clearC" /\ ClearC.what = <<Block("c", FALSE)>>
  BY DEF ClearC, Clearing, At, Catch, Cmd, Step
<1>3. /\ Cleared.op = "reraise" /\ Cleared.at = "cleared" /\ Cleared.then = "next"
      /\ Cleared.orElse = "end" /\ Cleared.onFail = "end" /\ Cleared.onCrash = "end"
      /\ ~Cleared.swallow /\ ~Cleared.toChosen
  BY DEF Cleared, At, Step
<1>4. /\ AwaitDirect.op = "wait" /\ AwaitDirect.what = BothEnds("direct") /\ AwaitDirect.at = ""
      /\ AwaitDirect.then = "end" /\ AwaitDirect.orElse = "end" /\ AwaitDirect.onFail = "recheck"
      /\ AwaitDirect.onCrash = "end" /\ AwaitDirect.swallow /\ ~AwaitDirect.toChosen
  BY DEF AwaitDirect, Then, Catch, Step
<1>5. /\ Recheck.op = "if" /\ Recheck.what = BothEnds("direct") /\ Recheck.at = "recheck"
      /\ Recheck.then = "end" /\ Recheck.orElse = "relayed" /\ Recheck.onFail = "end"
      /\ Recheck.onCrash = "end" /\ ~Recheck.swallow /\ ~Recheck.toChosen
  BY DEF Recheck, At, Else, Then, Step
<1>6. /\ CheckRelayed.op = "check" /\ CheckRelayed.what = BothEnds("relay")
      /\ CheckRelayed.at = "relayed" /\ CheckRelayed.then = "next" /\ CheckRelayed.orElse = "end"
      /\ CheckRelayed.onFail = "end" /\ CheckRelayed.onCrash = "end"
      /\ ~CheckRelayed.swallow /\ ~CheckRelayed.toChosen
  BY DEF CheckRelayed, At, Step
<1> QED
  BY <1>1, <1>2, <1>3, <1>4, <1>5, <1>6

OpAt(i) ==
    IF i \in {1, 5, 9 + K, 15 + K, 22 + K} THEN "wait"
    ELSE IF i \in {2, 10 + K, 17 + K} THEN "check"
    ELSE IF i \in {6, 7, 8, 18 + K, 19 + K} THEN "note"
    ELSE IF i = 11 + K THEN "window"
    ELSE IF i = 14 + K THEN "reraise"
    ELSE IF i = 16 + K THEN "if"
    ELSE "cmd"
LabelAt(i) ==
    IF i = 12 + K THEN "clearA" ELSE IF i = 13 + K THEN "clearC" ELSE IF i = 14 + K THEN "cleared"
    ELSE IF i = 16 + K THEN "recheck" ELSE IF i = 17 + K THEN "relayed" ELSE ""

(* s is what stands at place i.                                            *)
Stands(s, i) ==
    /\ s.op = OpAt(i) /\ s.at = LabelAt(i) /\ s.then = Order(i)
    /\ s.orElse = IF i = 16 + K THEN "relayed" ELSE "end"
    /\ s.onFail = OnFail(i) /\ s.onCrash = OnCrash(i)
    /\ ~s.toChosen
    /\ i \in {12 + K, 13 + K, 15 + K} => s.swallow
    /\ i \notin {12 + K, 13 + K, 15 + K} => ~s.swallow

(* Every place of the script.                                              *)
LEMMA Places == \A i \in 1..(22 + K) : Stands(FriendRelay[i], i)
<1>1. ASSUME NEW i, i \in {1, 2, 18 + K, 19 + K, 20 + K, 21 + K, 22 + K}
      PROVE  Stands(FriendRelay[i], i)
  <2>1. PICK what : FriendRelay[i] = Step(OpAt(i), what)
    <3>1. CASE i = 1
      BY <3>1, ScriptIs, KIsNat DEF OpAt, AwaitNear
    <3>2. CASE i = 2
      BY <3>2, ScriptIs, KIsNat DEF OpAt, DrainAll
    <3>3. CASE i = 18 + K
      BY <3>3, ScriptIs, KIsNat DEF OpAt, NoteOf
    <3>4. CASE i = 19 + K
      BY <3>4, ScriptIs, KIsNat DEF OpAt, NoteOf
    <3>5. CASE i = 20 + K
      BY <3>5, ScriptIs, KIsNat DEF OpAt, OneMore, Cmd
    <3>6. CASE i = 21 + K
      BY <3>6, ScriptIs, KIsNat DEF OpAt, OneMore, Cmd
    <3>7. CASE i = 22 + K
      BY <3>7, ScriptIs, KIsNat DEF OpAt, AwaitMore
    <3> QED
      BY <1>1, <3>1, <3>2, <3>3, <3>4, <3>5, <3>6, <3>7
  <2>2. /\ LabelAt(i) = "" /\ Order(i) = "next" /\ OnFail(i) = "end" /\ OnCrash(i) = "end"
        /\ i # 16 + K /\ i \notin {12 + K, 13 + K, 15 + K}
    BY <1>1, KIsNat DEF LabelAt, Order, OnFail, OnCrash
  <2> DEFINE s == FriendRelay[i]
             op == OpAt(i)
  <2>3. s = Step(op, what)
    BY <2>1
  <2> HIDE DEF s, op
  <2>4. /\ s.op = op /\ s.at = "" /\ s.then = "next" /\ s.orElse = "end"
        /\ s.onFail = "end" /\ s.onCrash = "end" /\ ~s.swallow /\ ~s.toChosen
    BY <2>3 DEF Step
  <2>5. /\ s.op = OpAt(i) /\ s.at = "" /\ s.then = "next" /\ s.orElse = "end"
        /\ s.onFail = "end" /\ s.onCrash = "end" /\ ~s.swallow /\ ~s.toChosen
    BY <2>4 DEF op
  <2>6. Stands(s, i)
    BY <2>2, <2>5 DEF Stands
  <2> QED
    BY <2>6 DEF s
<1>2. ASSUME NEW i \in 3..(11 + K)
      PROVE  Stands(FriendRelay[i], i)
  <2>1. PICK what : FriendRelay[i] = Caught(Step(OpAt(i), what))
    <3>1. CASE i = 3
      BY <3>1, ScriptIs, KIsNat DEF OpAt, BlockA, Cmd
    <3>2. CASE i = 4
      BY <3>2, ScriptIs, KIsNat DEF OpAt, BlockC, Cmd
    <3>3. CASE i = 5
      BY <3>3, ScriptIs, KIsNat DEF OpAt, AwaitRelay
    <3>4. CASE i \in 6..8
      BY <3>4, ScriptIs, KIsNat DEF OpAt, NoteOf
    <3>5. CASE i \in 9..(8 + K)
      <4>1. i - 8 \in 1..K /\ 8 + (i - 8) = i
        BY <3>5, KIsNat
      <4>2. FriendRelay[i] = Caught(SendAt(i - 8))
        BY <4>1, ScriptIs
      <4>3. OpAt(i) = "cmd"
        BY <3>5, KIsNat DEF OpAt
      <4> QED
        BY <4>2, <4>3 DEF SendAt, Cmd
    <3>6. CASE i = 9 + K
      BY <3>6, ScriptIs, KIsNat DEF OpAt, AwaitGot
    <3>7. CASE i = 10 + K
      BY <3>7, ScriptIs, KIsNat DEF OpAt, CheckUntouched
    <3>8. CASE i = 11 + K
      BY <3>8, ScriptIs, KIsNat DEF OpAt, Stability
    <3> QED
      BY <1>2, KIsNat, <3>1, <3>2, <3>3, <3>4, <3>5, <3>6, <3>7, <3>8
  <2>2. /\ LabelAt(i) = "" /\ Order(i) = "next" /\ OnFail(i) = "clearA" /\ OnCrash(i) = "clearA"
        /\ i # 16 + K /\ i \notin {12 + K, 13 + K, 15 + K}
    BY <1>2, KIsNat DEF LabelAt, Order, OnFail, OnCrash
  <2> DEFINE s == FriendRelay[i]
  <2>3. /\ s.op = OpAt(i) /\ s.at = "" /\ s.then = "next" /\ s.orElse = "end"
        /\ s.onFail = "clearA" /\ s.onCrash = "clearA" /\ ~s.swallow /\ ~s.toChosen
    BY <2>1 DEF Step, Caught
  <2> HIDE DEF s
  <2>4. Stands(s, i)
    BY <2>2, <2>3 DEF Stands
  <2> QED
    BY <2>4 DEF s
<1>3. Stands(FriendRelay[12 + K], 12 + K)
  <2> DEFINE i == 12 + K
  <2>1. /\ OpAt(i) = "cmd" /\ LabelAt(i) = "clearA" /\ Order(i) = "next"
        /\ OnFail(i) = "clearC" /\ OnCrash(i) = "end"
        /\ i # 16 + K /\ i \in {12 + K, 13 + K, 15 + K}
    BY KIsNat DEF OpAt, LabelAt, Order, OnFail, OnCrash
  <2>2. FriendRelay[i] = ClearA
    BY ScriptIs
  <2> HIDE DEF i
  <2>3. Stands(ClearA, i)
    BY <2>1, LaterSteps DEF Stands, Clearing
  <2> QED
    BY <2>2, <2>3 DEF i
<1>4. Stands(FriendRelay[13 + K], 13 + K)
  <2> DEFINE i == 13 + K
  <2>1. /\ OpAt(i) = "cmd" /\ LabelAt(i) = "clearC" /\ Order(i) = "next"
        /\ OnFail(i) = "cleared" /\ OnCrash(i) = "end"
        /\ i # 16 + K /\ i \in {12 + K, 13 + K, 15 + K}
    BY KIsNat DEF OpAt, LabelAt, Order, OnFail, OnCrash
  <2>2. FriendRelay[i] = ClearC
    BY ScriptIs
  <2> HIDE DEF i
  <2>3. Stands(ClearC, i)
    BY <2>1, LaterSteps DEF Stands, Clearing
  <2> QED
    BY <2>2, <2>3 DEF i
<1>5. Stands(FriendRelay[14 + K], 14 + K)
  <2> DEFINE i == 14 + K
  <2>1. /\ OpAt(i) = "reraise" /\ LabelAt(i) = "cleared" /\ Order(i) = "next"
        /\ OnFail(i) = "end" /\ OnCrash(i) = "end"
        /\ i # 16 + K /\ i \notin {12 + K, 13 + K, 15 + K}
    BY KIsNat DEF OpAt, LabelAt, Order, OnFail, OnCrash
  <2>2. FriendRelay[i] = Cleared
    BY ScriptIs
  <2> HIDE DEF i
  <2>3. Stands(Cleared, i)
    BY <2>1, LaterSteps DEF Stands
  <2> QED
    BY <2>2, <2>3 DEF i
<1>6. Stands(FriendRelay[15 + K], 15 + K)
  <2> DEFINE i == 15 + K
  <2>1. /\ OpAt(i) = "wait" /\ LabelAt(i) = "" /\ Order(i) = "end"
        /\ OnFail(i) = "recheck" /\ OnCrash(i) = "end"
        /\ i # 16 + K /\ i \in {12 + K, 13 + K, 15 + K}
    BY KIsNat DEF OpAt, LabelAt, Order, OnFail, OnCrash
  <2>2. FriendRelay[i] = AwaitDirect
    BY ScriptIs
  <2> HIDE DEF i
  <2>3. Stands(AwaitDirect, i)
    BY <2>1, LaterSteps DEF Stands
  <2> QED
    BY <2>2, <2>3 DEF i
<1>7. Stands(FriendRelay[16 + K], 16 + K)
  <2> DEFINE i == 16 + K
  <2>1. /\ OpAt(i) = "if" /\ LabelAt(i) = "recheck" /\ Order(i) = "end"
        /\ OnFail(i) = "end" /\ OnCrash(i) = "end"
        /\ i = 16 + K /\ i \notin {12 + K, 13 + K, 15 + K}
    BY KIsNat DEF OpAt, LabelAt, Order, OnFail, OnCrash
  <2>2. FriendRelay[i] = Recheck
    BY ScriptIs
  <2> HIDE DEF i
  <2>3. Stands(Recheck, i)
    BY <2>1, LaterSteps DEF Stands
  <2> QED
    BY <2>2, <2>3 DEF i
<1>8. Stands(FriendRelay[17 + K], 17 + K)
  <2> DEFINE i == 17 + K
  <2>1. /\ OpAt(i) = "check" /\ LabelAt(i) = "relayed" /\ Order(i) = "next"
        /\ OnFail(i) = "end" /\ OnCrash(i) = "end"
        /\ i # 16 + K /\ i \notin {12 + K, 13 + K, 15 + K}
    BY KIsNat DEF OpAt, LabelAt, Order, OnFail, OnCrash
  <2>2. FriendRelay[i] = CheckRelayed
    BY ScriptIs
  <2> HIDE DEF i
  <2>3. Stands(CheckRelayed, i)
    BY <2>1, LaterSteps DEF Stands
  <2> QED
    BY <2>2, <2>3 DEF i
<1>9. \A i \in 1..(22 + K) : \/ i \in {1, 2, 18 + K, 19 + K, 20 + K, 21 + K, 22 + K}
                             \/ i \in 3..(11 + K)
                             \/ i \in {12 + K, 13 + K, 14 + K, 15 + K, 16 + K, 17 + K}
  BY KIsNat
<1> QED
  BY <1>1, <1>2, <1>3, <1>4, <1>5, <1>6, <1>7, <1>8, <1>9

-----------------------------------------------------------------------------
(* The invariant: what the place in the script says about the devices.     *)

Ended == {"passed", "failed", "crashed"}

(* The control state.  Only the steps that clear the blocks run with an    *)
(* exception in flight, and no exception leaves the try block before them. *)
FlowInv ==
    /\ scenario = "IT-046" /\ pc \in 1..(22 + K) /\ sample \in Nat
    /\ outcome \in {"running"} \cup Ended /\ raised \in {"no", "failed", "crashed"}
    /\ raised # "no" => pc \in (12 + K)..(14 + K)
    /\ outcome = "passed" => pc \in {15 + K, 16 + K, 22 + K}
    /\ outcome # "running" => pc \notin 3..(11 + K)
    /\ outcome = "running" /\ OpAt(pc) = "cmd" => open = {1}

(* An end blocked by commands that were all answered is still going to be  *)
(* unblocked, and a command that may yet run is unanswered.                *)
BlockInv ==
    /\ blocked \subseteq Ends /\ unanswered \subseteq Ends
    /\ \A c \in late : c.name # "sendReliable" => c.on \in unanswered
    /\ "a" \in blocked \ unanswered => outcome = "running" /\ pc \in 4..(12 + K)
    /\ "c" \in blocked \ unanswered => outcome = "running" /\ pc \in 5..(13 + K)

(* What the telemetry counts only grows.                                   *)
CountInv ==
    /\ delivered \in [Ends -> Nat] /\ stray \in [Devices -> Nat] /\ baseline \in [Devices -> Nat]
    /\ \A d \in Devices : baseline[d] =< MessagesReceived(d)

(* The wait for the exchange has seen every message of one end before it   *)
(* samples the other; past it, and with no exception in flight, both ends  *)
(* have them.                                                              *)
Got(d) == delivered[d] >= Rounds \/ stray[d] > 0
GotInv ==
    /\ pc = 9 + K /\ sample = 2 => Got("a")
    /\ pc >= 10 + K /\ raised = "no" /\ outcome \in {"running", "passed"} => Got("a") /\ Got("c")

(* A message that surfaced at the relay makes the check after the exchange *)
(* fail.                                                                   *)
LeakInv ==
    leaked => \/ outcome = "running" /\ pc \in 9..(10 + K) /\ stray["b"] > baseline["b"]
              \/ outcome = "running" /\ pc \in (12 + K)..(14 + K) /\ raised # "no"
              \/ outcome \in {"failed", "crashed"}

(* The second exchange counts from values that include the first one.      *)
Base(d) == baseline[d] >= Rounds \/ stray[d] > 0
More(d) == delivered[d] > Rounds \/ stray[d] > 0
FallbackInv ==
    /\ pc >= 19 + K => Base("a")
    /\ pc >= 20 + K => Base("c")
    /\ pc = 22 + K /\ sample = 2 => More("a")
    /\ pc = 22 + K /\ outcome = "passed" => More("a") /\ More("c")

RelayInv == FlowInv /\ BlockInv /\ CountInv /\ GotInv /\ LeakInv /\ FallbackInv

-----------------------------------------------------------------------------
(* What the steps at the places that matter look at and command.           *)

SetBlock == "setDirectPeerBlockedForTesting"
Orders(c, i) ==
    /\ i \in {3, 12 + K} => c.name = SetBlock /\ c.on = "a"
    /\ i \in {4, 13 + K} => c.name = SetBlock /\ c.on = "c"
    /\ i \in {12 + K, 13 + K} => ~c.blocked
    /\ i \notin {3, 4, 12 + K, 13 + K} => c.name = "sendReliable"

(* What a step looks at, with or without the handler of the try block.     *)
LEMMA WhatOf ==
    /\ \A op, what : Step(op, what).what = what
    /\ \A op, what : Caught(Step(op, what)).what = what
BY DEF Step, Caught

(* Every command step has one command.                                     *)
LEMMA CommandAt ==
    ASSUME NEW i \in 1..(22 + K), OpAt(i) = "cmd"
    PROVE  \E c : FriendRelay[i].what = <<c>> /\ Orders(c, i)
<1>0. i \in {3, 4, 12 + K, 13 + K, 20 + K, 21 + K} \/ i \in 9..(8 + K)
  BY KIsNat DEF OpAt
<1>1. CASE i = 3
  <2>1. FriendRelay[i].what = <<Block("a", TRUE)>>
    BY <1>1, ScriptIs DEF BlockA, Caught, Cmd, Step
  <2>2. Orders(Block("a", TRUE), i)
    BY <1>1, KIsNat DEF Orders, Block, SetBlock
  <2> QED
    BY <2>1, <2>2
<1>2. CASE i = 4
  <2>1. FriendRelay[i].what = <<Block("c", TRUE)>>
    BY <1>2, ScriptIs DEF BlockC, Caught, Cmd, Step
  <2>2. Orders(Block("c", TRUE), i)
    BY <1>2, KIsNat DEF Orders, Block, SetBlock
  <2> QED
    BY <2>1, <2>2
<1>3. CASE i = 12 + K
  <2>1. FriendRelay[i].what = <<Block("a", FALSE)>>
    BY <1>3, ScriptIs, LaterSteps
  <2>2. Orders(Block("a", FALSE), i)
    BY <1>3, KIsNat DEF Orders, Block, SetBlock
  <2> QED
    BY <2>1, <2>2
<1>4. CASE i = 13 + K
  <2>1. FriendRelay[i].what = <<Block("c", FALSE)>>
    BY <1>4, ScriptIs, LaterSteps
  <2>2. Orders(Block("c", FALSE), i)
    BY <1>4, KIsNat DEF Orders, Block, SetBlock
  <2> QED
    BY <2>1, <2>2
<1>5. CASE i \in {20 + K, 21 + K}
  <2>1. PICK d : FriendRelay[i] = OneMore(d)
    BY <1>5, ScriptIs
  <2>2. FriendRelay[i].what = <<Send(d)>>
    BY <2>1, WhatOf DEF OneMore, Cmd
  <2>3. Orders(Send(d), i)
    BY <1>5, KIsNat DEF Orders, Send
  <2> QED
    BY <2>2, <2>3
<1>6. CASE i \in 9..(8 + K)
  <2>1. i - 8 \in 1..K /\ 8 + (i - 8) = i
    BY <1>6, KIsNat
  <2>2. FriendRelay[i] = Caught(SendAt(i - 8))
    BY <2>1, ScriptIs
  <2>3. PICK d : SendAt(i - 8) = Cmd(Send(d))
    BY DEF SendAt
  <2>4. FriendRelay[i].what = <<Send(d)>>
    BY <2>2, <2>3, WhatOf DEF Cmd
  <2>5. Orders(Send(d), i)
    BY <1>6, KIsNat DEF Orders, Send
  <2> QED
    BY <2>4, <2>5
<1> QED
  BY <1>0, <1>1, <1>2, <1>3, <1>4, <1>5, <1>6

(* The conditions the invariant is about, and the devices that are noted.  *)
LEMMA ConditionsAt ==
    /\ FriendRelay[9 + K].what = BothEnds("got")
    /\ FriendRelay[10 + K].what = <<Shows("untouched", "b")>>
    /\ FriendRelay[22 + K].what = BothEnds("more")
    /\ FriendRelay[6].what = <<Shows("received", "a")>>
    /\ FriendRelay[7].what = <<Shows("received", "c")>>
    /\ FriendRelay[8].what = <<Shows("received", "b")>>
    /\ FriendRelay[18 + K].what = <<Shows("received", "a")>>
    /\ FriendRelay[19 + K].what = <<Shows("received", "c")>>
<1>1. FriendRelay[9 + K].what = BothEnds("got")
  BY ScriptIs, WhatOf DEF AwaitGot
<1>2. FriendRelay[10 + K].what = <<Shows("untouched", "b")>>
  BY ScriptIs, WhatOf DEF CheckUntouched
<1>3. FriendRelay[22 + K].what = BothEnds("more")
  BY ScriptIs, WhatOf DEF AwaitMore
<1>4. \A d : NoteOf(d).what = <<Shows("received", d)>>
  BY DEF NoteOf, Step
<1>5. \A d : Caught(NoteOf(d)).what = <<Shows("received", d)>>
  BY DEF NoteOf, Caught, Step
<1> QED
  BY <1>1, <1>2, <1>3, <1>4, <1>5, ScriptIs

(* The devices.                                                            *)
LEMMA DevicesAre == Devices = {"a", "b", "c"}
<1>1. Apis = <<"a", "b", "c">>
  BY RelayScenario DEF ThreeDevices
<1>2. DOMAIN Apis = 1..3
  BY <1>1
<1> QED
  BY <1>1, <1>2 DEF Devices

-----------------------------------------------------------------------------
(* Control.                                                                *)

(* The step the scenario is at.                                            *)
LEMMA ScriptNow ==
    ASSUME FlowInv
    PROVE  /\ script = FriendRelay /\ DOMAIN script = 1..(22 + K) /\ Len(script) = 22 + K
           /\ Now = FriendRelay[pc] /\ Stands(Now, pc)
<1>1. script = FriendRelay
  BY RelayScenario DEF FlowInv, script, RelayScripts
<1>2. DOMAIN script = 1..(22 + K) /\ Len(script) = 22 + K
  BY <1>1, ScriptIs, LenProperties DEF IsSeq
<1>3. pc \in 1..(22 + K) /\ Stands(FriendRelay[pc], pc)
  BY Places DEF FlowInv
<1>4. Now = FriendRelay[pc]
  BY <1>1, <1>3 DEF Now, Resolved, Stands
<1> QED
  BY <1>1, <1>2, <1>3, <1>4

(* Where a labelled handler stands.                                        *)
PlaceOf(label) ==
    IF label = "clearA" THEN 12 + K ELSE IF label = "clearC" THEN 13 + K
    ELSE IF label = "cleared" THEN 14 + K ELSE IF label = "recheck" THEN 16 + K ELSE 17 + K

(* PlaceOf is where a jump to the label leads.                             *)
LEMMA Jumps ==
    ASSUME FlowInv, NEW label \in {"clearA", "clearC", "cleared", "recheck", "relayed"}
    PROVE  Jump(label) = PlaceOf(label)
<1>1. DOMAIN script = 1..(22 + K)
  BY ScriptNow
<1>2. \A i \in 1..(22 + K) : script[i].at = LabelAt(i)
  BY Places, ScriptNow DEF Stands
<1>3. \A i \in 1..(22 + K) : LabelAt(i) = label <=> i = PlaceOf(label)
  <2>1. CASE label = "clearA"
    BY <2>1, KIsNat DEF LabelAt, PlaceOf
  <2>2. CASE label = "clearC"
    BY <2>2, KIsNat DEF LabelAt, PlaceOf
  <2>3. CASE label = "cleared"
    BY <2>3, KIsNat DEF LabelAt, PlaceOf
  <2>4. CASE label = "recheck"
    BY <2>4, KIsNat DEF LabelAt, PlaceOf
  <2>5. CASE label = "relayed"
    BY <2>5, KIsNat DEF LabelAt, PlaceOf
  <2> QED
    BY <2>1, <2>2, <2>3, <2>4, <2>5
<1>4. PlaceOf(label) \in 1..(22 + K)
  BY KIsNat DEF PlaceOf
<1>5. \A i \in DOMAIN script : script[i].at = label <=> i = PlaceOf(label)
  BY <1>1, <1>2, <1>3
<1> QED
  BY <1>1, <1>4, <1>5 DEF Jump

(* The scenario ends, or goes on at place p.                               *)
EndsAs(how) == outcome' = how /\ pc' = pc /\ raised' = raised
MovesTo(p) == pc' = p /\ outcome' = outcome /\ (OpAt(p) = "cmd" => open' = {1})
Passing == {15 + K, 16 + K, 22 + K}

(* Entering a step.                                                        *)
LEMMA EnterLeads ==
    ASSUME FlowInv, NEW p \in 1..(22 + K), Enter(p)
    PROVE  scenario' = scenario /\ sample' = 1 /\ MovesTo(p)
<1>1. script[p].op = OpAt(p) /\ script[p] = FriendRelay[p]
  BY Places, ScriptNow DEF Stands
<1>2. ASSUME OpAt(p) = "cmd" PROVE open' = {1}
  <2>1. PICK c : FriendRelay[p].what = <<c>>
    BY <1>2, CommandAt
  <2>2. DOMAIN <<c>> = {1}
    OBVIOUS
  <2> QED
    BY <1>1, <1>2, <2>1, <2>2 DEF Enter
<1> QED
  BY <1>2 DEF Enter, MovesTo

(* Going on: the next step, or a pass.                                     *)
LEMMA GotoLeads ==
    ASSUME FlowInv, Goto(Now.then)
    PROVE  /\ scenario' = scenario /\ sample' = 1 /\ raised' = raised
           /\ pc \in Passing => EndsAs("passed")
           /\ pc \notin Passing => MovesTo(pc + 1)
<1>1. pc \in 1..(22 + K) /\ Now.then = Order(pc) /\ Len(script) = 22 + K
  BY ScriptNow DEF FlowInv, Stands
<1>2. CASE pc \in {15 + K, 16 + K}
  <2>1. Now.then = "end"
    BY <1>1, <1>2 DEF Order
  <2> QED
    BY <1>2, <2>1 DEF Goto, End, EndsAs, Passing
<1>3. CASE pc = 22 + K
  <2>1. Now.then = "next" /\ pc = Len(script) /\ pc \in Passing
    BY <1>1, <1>3, KIsNat DEF Order, Passing
  <2> QED
    BY <2>1 DEF Goto, End, EndsAs
<1>4. CASE pc \notin {15 + K, 16 + K, 22 + K}
  <2>1. Now.then = "next" /\ pc # Len(script) /\ pc + 1 \in 1..(22 + K)
    BY <1>1, <1>4, KIsNat DEF Order
  <2>2. Enter(pc + 1) /\ raised' = raised
    BY <2>1 DEF Goto
  <2>3. scenario' = scenario /\ sample' = 1 /\ MovesTo(pc + 1)
    BY <2>1, <2>2, EnterLeads
  <2> QED
    BY <1>4, <2>2, <2>3 DEF Passing
<1> QED
  BY <1>2, <1>3, <1>4

(* The `if` that finds no direct link.                                     *)
LEMMA GotoElse ==
    ASSUME FlowInv, pc = 16 + K, Goto(Now.orElse)
    PROVE  scenario' = scenario /\ sample' = 1 /\ raised' = raised /\ MovesTo(17 + K)
<1>1. Now.orElse = "relayed"
  BY ScriptNow DEF Stands
<1>2. Jump("relayed") = 17 + K
  BY Jumps DEF PlaceOf
<1>3. Enter(17 + K) /\ raised' = raised
  BY <1>1, <1>2 DEF Goto
<1>4. 17 + K \in 1..(22 + K)
  BY KIsNat
<1> QED
  BY <1>3, <1>4, EnterLeads

(* An exception in the try block leads to the clearing, one there or in    *)
(* the wait for a direct link to the next handler, any other to the end.   *)
LEMMA RaiseLeads ==
    ASSUME FlowInv, NEW how \in {"failed", "crashed"}, Raise(how)
    PROVE  /\ scenario' = scenario /\ sample' = 1
           /\ \/ pc \in 3..(11 + K) /\ MovesTo(12 + K) /\ raised' = how
              \/ /\ pc \in {12 + K, 13 + K, 15 + K} /\ how = "failed"
                 /\ MovesTo(pc + 1) /\ raised' = raised
              \/ /\ pc \in {12 + K, 13 + K, 15 + K} /\ how = "crashed" /\ EndsAs(how)
              \/ pc \notin 3..(13 + K) /\ pc # 15 + K /\ EndsAs(how)
<1>1. /\ pc \in 1..(22 + K) /\ Stands(Now, pc)
  BY ScriptNow DEF FlowInv
<1> DEFINE label == IF how = "crashed" THEN Now.onCrash ELSE Now.onFail
<1>2. label = IF how = "crashed" THEN OnCrash(pc) ELSE OnFail(pc)
  BY <1>1 DEF Stands
<1>3. Raise(how) <=>
          IF label = "end" THEN End(how)
          ELSE /\ Enter(Jump(label))
               /\ raised' = IF ~Now.swallow THEN how ELSE IF Now.op = "reraise" THEN "no" ELSE raised
  BY DEF Raise
<1> HIDE DEF label
<1>4. CASE pc \in 3..(11 + K)
  <2>1. label = "clearA" /\ pc \notin {12 + K, 13 + K, 15 + K}
    BY <1>2, <1>4, KIsNat DEF OnCrash, OnFail
  <2>2. ~Now.swallow
    BY <1>1, <2>1 DEF Stands
  <2>3. Jump(label) = 12 + K /\ 12 + K \in 1..(22 + K)
    BY <2>1, Jumps, KIsNat DEF PlaceOf
  <2>4. Enter(12 + K) /\ raised' = how
    BY <1>3, <2>1, <2>2, <2>3
  <2> QED
    BY <1>4, <2>3, <2>4, EnterLeads
<1>5. CASE pc \in {12 + K, 13 + K, 15 + K} /\ how = "failed"
  <2>1. Now.swallow /\ Now.op # "reraise"
    BY <1>1, <1>5, KIsNat DEF Stands, OpAt
  <2>2. label \in {"clearC", "cleared", "recheck"} /\ PlaceOf(label) = pc + 1
    BY <1>2, <1>5, KIsNat DEF OnFail, PlaceOf
  <2>3. Jump(label) = pc + 1 /\ pc + 1 \in 1..(22 + K)
    BY <1>5, <2>2, Jumps, KIsNat
  <2>4. Enter(pc + 1) /\ raised' = raised
    BY <1>3, <2>1, <2>2, <2>3
  <2> QED
    BY <1>5, <2>3, <2>4, EnterLeads
<1>6. CASE pc \in {12 + K, 13 + K, 15 + K} /\ how = "crashed"
  <2>1. label = "end"
    BY <1>2, <1>6, KIsNat DEF OnCrash
  <2> QED
    BY <1>3, <1>6, <2>1 DEF End, EndsAs
<1>7. CASE pc \notin 3..(13 + K) /\ pc # 15 + K
  <2>1. label = "end"
    BY <1>1, <1>2, <1>7, KIsNat DEF OnCrash, OnFail
  <2> QED
    BY <1>3, <1>7, <2>1 DEF End, EndsAs
<1>8. pc \in 3..(13 + K) => pc \in 3..(11 + K) \/ pc \in {12 + K, 13 + K}
  BY <1>1, KIsNat
<1> QED
  BY <1>4, <1>5, <1>6, <1>7, <1>8

(* How the control state may change while the scenario runs.               *)
Stays ==
    /\ scenario' = scenario /\ pc' = pc /\ raised' = raised /\ outcome' = outcome
    /\ open' = open /\ sample' \in Nat
Onward ==
    /\ scenario' = scenario /\ sample' = 1 /\ raised' = raised
    /\ pc \in Passing => EndsAs("passed")
    /\ pc \notin Passing => MovesTo(pc + 1)
    /\ pc = 14 + K => raised = "no"
OtherWay ==
    /\ pc = 16 + K /\ MovesTo(17 + K)
    /\ scenario' = scenario /\ sample' = 1 /\ raised' = raised
Fails(how) ==
    /\ scenario' = scenario /\ sample' = 1
    /\ \/ pc \in 3..(11 + K) /\ MovesTo(12 + K) /\ raised' = how
       \/ /\ pc \in {12 + K, 13 + K, 15 + K} /\ how = "failed"
          /\ MovesTo(pc + 1) /\ raised' = raised
       \/ pc \in {12 + K, 13 + K, 15 + K} /\ how = "crashed" /\ EndsAs(how)
       \/ pc \notin 3..(13 + K) /\ pc # 15 + K /\ EndsAs(how)
Transition == Stays \/ Onward \/ OtherWay \/ Fails("failed") \/ Fails("crashed")

(* Every transition keeps the control state in order.                      *)
LEMMA FlowKept ==
    ASSUME FlowInv, outcome = "running", Transition
    PROVE  FlowInv'
<1> USE KIsNat DEF FlowInv, Ended
<1>1. CASE Stays
  BY <1>1 DEF Stays
<1>2. CASE Onward
  BY <1>2 DEF Onward, Passing, EndsAs, MovesTo
<1>3. CASE OtherWay
  BY <1>3 DEF OtherWay, MovesTo
<1>4. ASSUME NEW how \in {"failed", "crashed"}, Fails(how)
      PROVE  FlowInv'
  <2>1. CASE pc \in 3..(11 + K) /\ MovesTo(12 + K) /\ raised' = how
    BY <1>4, <2>1 DEF Fails, MovesTo
  <2>2. CASE pc \in {12 + K, 13 + K, 15 + K} /\ how = "failed"
             /\ MovesTo(pc + 1) /\ raised' = raised
    BY <1>4, <2>2 DEF Fails, MovesTo
  <2>3. CASE pc \notin 3..(11 + K) /\ EndsAs(how)
    BY <1>4, <2>3 DEF Fails, EndsAs
  <2> QED
    BY <1>4, <2>1, <2>2, <2>3 DEF Fails
<1> QED
  BY <1>1, <1>2, <1>3, <1>4 DEF Transition

(* Which change leaves each part of the invariant alone.                   *)
LEMMA BlockKept ==
    ASSUME FlowInv, BlockInv, outcome = "running", Transition, pc \notin {3, 4, 12 + K, 13 + K},
           blocked' = blocked, unanswered' = unanswered,
           \A c \in late' : c \in late \/ c.name = "sendReliable"
    PROVE  BlockInv'
<1>1. \A c \in late' : c.name # "sendReliable" => c.on \in unanswered'
  BY DEF BlockInv
<1>2. /\ pc \in 4..(12 + K) => outcome' = "running" /\ pc' \in 4..(12 + K)
      /\ pc \in 5..(13 + K) => outcome' = "running" /\ pc' \in 5..(13 + K)
  <2> USE KIsNat DEF FlowInv
  <2>1. CASE Stays
    BY <2>1 DEF Stays
  <2>2. CASE Onward
    BY <2>2 DEF Onward, Passing, MovesTo
  <2>3. CASE OtherWay
    BY <2>3 DEF OtherWay, MovesTo
  <2>4. CASE Fails("failed") \/ Fails("crashed")
    BY <2>4 DEF Fails, MovesTo
  <2> QED
    BY <2>1, <2>2, <2>3, <2>4 DEF Transition
<1> QED
  BY <1>1, <1>2 DEF BlockInv

(* Steps that count nothing keep the order of the counts.                  *)
LEMMA CountKept ==
    ASSUME CountInv, UNCHANGED <<delivered, stray, baseline>>
    PROVE  CountInv'
BY DEF CountInv, MessagesReceived

(* The exchange is complete once its wait has sampled both ends.           *)
LEMMA GotKept ==
    ASSUME FlowInv, GotInv, outcome = "running", Transition, UNCHANGED <<delivered, stray>>,
           pc = 9 + K /\ sample' = 2 => Got("a"),
           pc = 9 + K /\ pc' = 10 + K => Got("a") /\ Got("c")
    PROVE  GotInv'
<1> DEFINE ga == Got("a")
           gc == Got("c")
<1>1. Got("a")' = ga /\ Got("c")' = gc
  BY DEF Got
<1>2. /\ pc = 9 + K /\ sample' = 2 => ga
      /\ pc = 9 + K /\ pc' = 10 + K => ga /\ gc
      /\ pc >= 10 + K /\ raised = "no" => ga /\ gc
  BY DEF GotInv
<1> HIDE DEF ga, gc
<1>3. /\ pc' = 9 + K /\ sample' = 2 => ga
      /\ pc' >= 10 + K /\ raised' = "no" /\ outcome' \in {"running", "passed"} => ga /\ gc
  <2> USE <1>2, KIsNat DEF FlowInv
  <2>1. CASE Stays
    BY <2>1 DEF Stays
  <2>2. CASE Onward
    BY <2>2 DEF Onward, Passing, MovesTo, EndsAs
  <2>3. CASE OtherWay
    BY <2>3 DEF OtherWay, MovesTo
  <2>4. ASSUME NEW how \in {"failed", "crashed"}, Fails(how)
        PROVE  /\ pc' = 9 + K /\ sample' = 2 => ga
               /\ pc' >= 10 + K /\ raised' = "no" /\ outcome' \in {"running", "passed"}
                      => ga /\ gc
    BY <2>4 DEF Fails, MovesTo, EndsAs
  <2> QED
    BY <2>1, <2>2, <2>3, <2>4 DEF Transition
<1> QED
  BY <1>1, <1>3 DEF GotInv

(* The check of the relay is the only way past it.                         *)
LEMMA LeakKept ==
    ASSUME FlowInv, LeakInv, CountInv, outcome = "running", Transition,
           UNCHANGED <<stray, baseline, leaked>>,
           pc = 10 + K /\ pc' = 11 + K => stray["b"] = baseline["b"]
    PROVE  LeakInv'
<1> SUFFICES ASSUME leaked'
             PROVE  \/ outcome' = "running" /\ pc' \in 9..(10 + K) /\ stray'["b"] > baseline'["b"]
                    \/ outcome' = "running" /\ pc' \in (12 + K)..(14 + K) /\ raised' # "no"
                    \/ outcome' \in {"failed", "crashed"}
  BY DEF LeakInv
<1> DEFINE more == stray["b"] > baseline["b"]
<1>1. \/ pc \in 9..(10 + K) /\ more
      \/ pc \in (12 + K)..(14 + K) /\ raised # "no"
  BY DEF LeakInv
<1>2. (stray'["b"] > baseline'["b"]) = more
  OBVIOUS
<1>3. pc = 10 + K /\ pc' = 11 + K => ~more
  <2>1. pc = 10 + K /\ pc' = 11 + K => stray["b"] = baseline["b"]
    OBVIOUS
  <2>2. stray["b"] \in Nat /\ baseline["b"] \in Nat
    BY DevicesAre DEF CountInv
  <2> QED
    BY <2>1, <2>2
<1> HIDE DEF more
<1>4. \/ outcome' = "running" /\ pc' \in 9..(10 + K) /\ more
      \/ outcome' = "running" /\ pc' \in (12 + K)..(14 + K) /\ raised' # "no"
      \/ outcome' \in {"failed", "crashed"}
  <2> USE <1>1, <1>3, KIsNat DEF FlowInv
  <2>1. CASE Stays
    BY <2>1 DEF Stays
  <2>2. CASE Onward
    BY <2>2 DEF Onward, Passing, MovesTo
  <2>3. CASE OtherWay
    BY <2>3 DEF OtherWay
  <2>4. ASSUME NEW how \in {"failed", "crashed"}, Fails(how)
        PROVE  \/ outcome' = "running" /\ pc' \in (12 + K)..(14 + K) /\ raised' # "no"
               \/ outcome' \in {"failed", "crashed"}
    BY <2>4 DEF Fails, MovesTo, EndsAs
  <2> QED
    BY <2>1, <2>2, <2>3, <2>4 DEF Transition
<1> QED
  BY <1>2, <1>4

(* The same for the second exchange.                                       *)
LEMMA FallbackKept ==
    ASSUME FlowInv, FallbackInv, outcome = "running", Transition,
           UNCHANGED <<delivered, stray, baseline>>,
           pc \in {18 + K, 19 + K} => pc' = pc,
           pc = 22 + K /\ sample' = 2 => More("a"),
           pc = 22 + K /\ outcome' = "passed" => More("a") /\ More("c")
    PROVE  FallbackInv'
<1> DEFINE ba == Base("a")
           bc == Base("c")
           ma == More("a")
           mc == More("c")
<1>1. Base("a")' = ba /\ Base("c")' = bc /\ More("a")' = ma /\ More("c")' = mc
  BY DEF Base, More
<1>2. /\ pc >= 19 + K => ba
      /\ pc >= 20 + K => bc
      /\ pc = 22 + K /\ sample' = 2 => ma
      /\ pc = 22 + K /\ outcome' = "passed" => ma /\ mc
  BY DEF FallbackInv
<1> HIDE DEF ba, bc, ma, mc
<1>3. /\ pc' >= 19 + K => ba
      /\ pc' >= 20 + K => bc
      /\ pc' = 22 + K /\ sample' = 2 => ma
      /\ pc' = 22 + K /\ outcome' = "passed" => ma /\ mc
  <2> USE <1>2, KIsNat DEF FlowInv
  <2>1. CASE Stays
    BY <2>1 DEF Stays
  <2>2. CASE Onward
    BY <2>2 DEF Onward, Passing, MovesTo, EndsAs
  <2>3. CASE OtherWay
    BY <2>3 DEF OtherWay, MovesTo
  <2>4. ASSUME NEW how \in {"failed", "crashed"}, Fails(how)
        PROVE  /\ pc' >= 19 + K => ba
               /\ pc' >= 20 + K => bc
               /\ pc' = 22 + K /\ sample' = 2 => ma
               /\ pc' = 22 + K /\ outcome' = "passed" => ma /\ mc
    BY <2>4 DEF Fails, MovesTo, EndsAs
  <2> QED
    BY <2>1, <2>2, <2>3, <2>4 DEF Transition
<1> QED
  BY <1>1, <1>3 DEF FallbackInv

-----------------------------------------------------------------------------
(* The actions.                                                            *)

RelayUnchanged == UNCHANGED <<blocked, delivered, stray, baseline, leaked, unanswered, late>>

(* A step of the runner that touches no device and is no command.          *)
LEMMA RunnerStep ==
    ASSUME RelayInv, outcome = "running", Transition, RelayUnchanged,
           pc \notin {3, 4, 12 + K, 13 + K}, pc \in {18 + K, 19 + K} => pc' = pc,
           pc = 9 + K /\ sample' = 2 => Got("a"),
           pc = 9 + K /\ pc' = 10 + K => Got("a") /\ Got("c"),
           pc = 10 + K /\ pc' = 11 + K => stray["b"] = baseline["b"],
           pc = 22 + K /\ sample' = 2 => More("a"),
           pc = 22 + K /\ outcome' = "passed" => More("a") /\ More("c")
    PROVE  RelayInv'
<1> USE DEF RelayInv, RelayUnchanged
<1>1. FlowInv'
  BY FlowKept
<1>2. BlockInv'
  BY BlockKept
<1>3. CountInv'
  BY CountKept
<1>4. GotInv'
  BY GotKept
<1>5. LeakInv'
  BY LeakKept
<1>6. FallbackInv'
  BY FallbackKept
<1> QED
  BY <1>1, <1>2, <1>3, <1>4, <1>5, <1>6

(* Going on and failing are transitions.                                   *)
LEMMA GotoOnward ==
    ASSUME FlowInv, Goto(Now.then), pc # 14 + K \/ raised = "no"
    PROVE  Onward
BY GotoLeads DEF Onward

(* An exception as a transition.                                           *)
LEMMA RaiseFails ==
    ASSUME FlowInv, NEW how \in {"failed", "crashed"}, Raise(how)
    PROVE  Fails(how)
BY RaiseLeads DEF Fails

(* What a failing step outside the commands reaches.                       *)
LEMMA FailingStep ==
    ASSUME RelayInv, outcome = "running", NEW how \in {"failed", "crashed"}, Raise(how),
           RelayUnchanged, pc \notin {3, 4, 12 + K, 13 + K}
    PROVE  RelayInv'
<1>1. Fails(how)
  BY RaiseFails DEF RelayInv
<1>2. Transition
  BY <1>1 DEF Transition
<1>3. /\ (pc' # 10 + K /\ pc' # 11 + K) \/ pc' = pc
      /\ outcome' # "passed" /\ sample' = 1
      /\ pc \in {18 + K, 19 + K} => pc' = pc
  BY <1>1, KIsNat DEF Fails, MovesTo, EndsAs, RelayInv, FlowInv
<1>4. ~(pc = 9 + K /\ pc' = 10 + K) /\ ~(pc = 10 + K /\ pc' = 11 + K)
  BY <1>3, KIsNat DEF RelayInv, FlowInv
<1> QED
  BY <1>2, <1>3, <1>4, RunnerStep

(* Places by kind of step.                                                 *)
LEMMA NotACommand ==
    ASSUME FlowInv, NEW ops, Busy(ops), ops \subseteq {"wait", "check", "if", "window", "reraise"}
    PROVE  outcome = "running" /\ OpAt(pc) \in ops /\ pc \notin {3, 4, 12 + K, 13 + K, 18 + K, 19 + K}
<1>1. outcome = "running" /\ OpAt(pc) \in ops
  BY ScriptNow DEF Busy, Stands
<1>2. \A i \in {3, 4, 12 + K, 13 + K} : OpAt(i) = "cmd"
  BY KIsNat DEF OpAt
<1>3. \A i \in {18 + K, 19 + K} : OpAt(i) = "note"
  BY KIsNat DEF OpAt
<1> QED
  BY <1>1, <1>2, <1>3

(* The actions of the runner, one by one.                                  *)
LEMMA PollAgainKeeps ==
    ASSUME RelayInv, PollAgain(relayVars) PROVE RelayInv'
<1>1. outcome = "running" /\ pc \notin {3, 4, 12 + K, 13 + K, 18 + K, 19 + K}
  <2>1. Busy({"wait", "window"})
    BY DEF PollAgain
  <2> QED
    BY <2>1, NotACommand DEF RelayInv
<1>2. Stays /\ sample' = 1 /\ RelayUnchanged /\ outcome' # "passed"
  BY <1>1 DEF PollAgain, Stays, RelayUnchanged, relayVars, fixtureVars
<1> QED
  BY <1>1, <1>2, RunnerStep, KIsNat DEF Transition, Stays, RelayInv, FlowInv

(* A wait that ran out of time.                                            *)
LEMMA DeadlinePassedKeeps ==
    ASSUME RelayInv, DeadlinePassed(relayVars) PROVE RelayInv'
<1>1. outcome = "running" /\ pc \notin {3, 4, 12 + K, 13 + K, 18 + K, 19 + K}
  <2>1. Busy({"wait"})
    BY DEF DeadlinePassed
  <2> QED
    BY <2>1, NotACommand DEF RelayInv
<1>2. Raise("failed") /\ RelayUnchanged
  BY DEF DeadlinePassed, RelayUnchanged, relayVars, fixtureVars
<1> QED
  BY <1>1, <1>2, FailingStep

(* The end of the stability window.                                        *)
LEMMA WindowEndsKeeps ==
    ASSUME RelayInv, WindowEnds(relayVars) PROVE RelayInv'
<1>1. outcome = "running" /\ pc \notin {3, 4, 12 + K, 13 + K, 18 + K, 19 + K} /\ OpAt(pc) = "window"
  <2>1. Busy({"window"})
    BY DEF WindowEnds
  <2> QED
    BY <2>1, NotACommand DEF RelayInv
<1>2. pc = 11 + K
  BY <1>1 DEF OpAt
<1>3. Onward
  BY <1>2, GotoOnward, KIsNat DEF WindowEnds, RelayInv
<1>4. RelayUnchanged
  BY DEF WindowEnds, RelayUnchanged, relayVars, fixtureVars
<1> QED
  BY <1>1, <1>2, <1>3, <1>4, RunnerStep, KIsNat DEF Transition

(* The end of the `finally`.                                               *)
LEMMA ReraiseKeeps ==
    ASSUME RelayInv, Reraise(relayVars) PROVE RelayInv'
<1>1. outcome = "running" /\ pc \notin {3, 4, 12 + K, 13 + K, 18 + K, 19 + K} /\ OpAt(pc) = "reraise"
  <2>1. Busy({"reraise"})
    BY DEF Reraise
  <2> QED
    BY <2>1, NotACommand DEF RelayInv
<1>2. RelayUnchanged
  BY DEF Reraise, RelayUnchanged, relayVars, fixtureVars
<1>3. CASE raised = "no"
  <2>1. Onward
    BY <1>3, GotoOnward DEF Reraise, RelayInv
  <2>2. pc = 14 + K
    BY <1>1, KIsNat DEF OpAt
  <2> QED
    BY <1>1, <1>2, <2>1, <2>2, RunnerStep, KIsNat DEF Transition
<1>4. CASE raised # "no"
  <2>1. raised \in {"failed", "crashed"} /\ Raise(raised)
    BY <1>4 DEF Reraise, RelayInv, FlowInv
  <2> QED
    BY <1>1, <1>2, <2>1, FailingStep
<1> QED
  BY <1>3, <1>4

(* A request for a snapshot that fails.                                    *)
LEMMA ReadFailsKeeps ==
    ASSUME RelayInv, ReadFails({}, relayVars) PROVE RelayInv'
<1>1. outcome = "running" /\ pc \notin {3, 4, 12 + K, 13 + K}
  <2>1. outcome = "running" /\ OpAt(pc) # "cmd"
    BY ScriptNow DEF ReadFails, Busy, Stands, RelayInv
  <2>2. \A i \in {3, 4, 12 + K, 13 + K} : OpAt(i) = "cmd"
    BY KIsNat DEF OpAt
  <2> QED
    BY <2>1, <2>2
<1>2. (Raise("failed") \/ Raise("crashed")) /\ RelayUnchanged
  BY DEF ReadFails, RelayUnchanged, relayVars, fixtureVars
<1> QED
  BY <1>1, <1>2, FailingStep

(* What a condition over the telemetry says when it holds.                 *)
LEMMA SeenSays ==
    ASSUME CountInv, NEW d \in Ends
    PROVE  /\ Seen(Shows("got", d)) => Got(d)
           /\ Seen(Shows("more", d)) /\ Base(d) => More(d)
           /\ Seen(Shows("untouched", "b")) => stray["b"] = baseline["b"]
<1>1. /\ delivered[d] \in Nat /\ stray[d] \in Nat /\ baseline[d] \in Nat
      /\ MessagesReceived(d) = stray[d] + delivered[d]
      /\ MessagesReceived("b") = stray["b"] /\ stray["b"] \in Nat
  BY DevicesAre DEF CountInv, MessagesReceived, Ends
<1>2. Seen(Shows("got", d)) => MessagesReceived(d) >= baseline[d] + Rounds
  BY DEF Seen, Shows
<1>3. Seen(Shows("more", d)) => MessagesReceived(d) > baseline[d]
  BY DEF Seen, Shows
<1>4. Seen(Shows("untouched", "b")) => MessagesReceived("b") = baseline["b"]
  BY DEF Seen, Shows
<1> QED
  BY <1>1, <1>2, <1>3, <1>4, RelayBounds DEF Got, Base, More

(* What a sample that finds what it looks for has seen, at the places that *)
(* matter.                                                                 *)
LEMMA Sampled ==
    ASSUME RelayInv, NEW seen, seen = Seen(Condition), Verdict(Condition, seen) = "yes"
    PROVE  /\ pc = 9 + K /\ sample = 1 => Got("a")
           /\ pc = 9 + K /\ sample = 2 => Got("c")
           /\ pc = 10 + K /\ sample = 1 => stray["b"] = baseline["b"]
           /\ pc = 22 + K /\ sample = 1 => More("a")
           /\ pc = 22 + K /\ sample = 2 => More("c")
<1>1. FlowInv /\ CountInv /\ FallbackInv
  BY DEF RelayInv
<1>2. Now.what = FriendRelay[pc].what
  BY <1>1, ScriptNow
<1>3. \A c : c.kind \in {"got", "more", "untouched"} /\ c = Condition => seen
  BY DEF Verdict
<1>4. \A kind, d : Shows(kind, d).kind = kind
  BY DEF Shows
<1>5. ASSUME pc = 9 + K, sample \in {1, 2} PROVE Got(IF sample = 1 THEN "a" ELSE "c")
  <2> DEFINE d == IF sample = 1 THEN "a" ELSE "c"
  <2>1. Condition = Shows("got", d)
    BY <1>2, <1>5, ConditionsAt DEF Condition, BothEnds
  <2>2. d \in Ends
    BY DEF Ends
  <2> HIDE DEF d
  <2>3. Seen(Shows("got", d))
    BY <1>3, <1>4, <2>1
  <2> QED
    BY <1>1, <2>2, <2>3, SeenSays DEF d
<1>6. ASSUME pc = 10 + K, sample = 1 PROVE stray["b"] = baseline["b"]
  <2>1. Condition = Shows("untouched", "b")
    BY <1>2, <1>6, ConditionsAt DEF Condition
  <2>2. Seen(Shows("untouched", "b"))
    BY <1>3, <1>4, <2>1
  <2>3. "a" \in Ends
    BY DEF Ends
  <2> QED
    BY <1>1, <2>2, <2>3, SeenSays
<1>7. ASSUME pc = 22 + K, sample \in {1, 2} PROVE More(IF sample = 1 THEN "a" ELSE "c")
  <2> DEFINE d == IF sample = 1 THEN "a" ELSE "c"
  <2>1. Condition = Shows("more", d)
    BY <1>2, <1>7, ConditionsAt DEF Condition, BothEnds
  <2>2. d \in Ends /\ Base(d)
    BY <1>1, <1>7, KIsNat DEF Ends, FallbackInv
  <2> HIDE DEF d
  <2>3. Seen(Shows("more", d))
    BY <1>3, <1>4, <2>1
  <2> QED
    BY <1>1, <2>2, <2>3, SeenSays DEF d
<1> QED
  BY <1>5, <1>6, <1>7

(* How many conditions those places have.                                  *)
LEMMA Lengths ==
    ASSUME FlowInv
    PROVE  /\ pc \in {9 + K, 22 + K} => Len(Now.what) = 2
           /\ pc = 10 + K => Len(Now.what) = 1
<1>1. Now.what = FriendRelay[pc].what
  BY ScriptNow
<1>2. \A kind : Len(BothEnds(kind)) = 2
  BY DEF BothEnds
<1>3. \A x : Len(<<x>>) = 1
  OBVIOUS
<1> QED
  BY <1>1, <1>2, <1>3, ConditionsAt

(* A sample: the conditions of the exchange, or any other.                 *)
LEMMA SampleKeeps ==
    ASSUME RelayInv, Sample(Seen(Condition), relayVars) PROVE RelayInv'
<1> DEFINE seen == Seen(Condition)
           verdict == Verdict(Condition, seen)
           looked == Len(Now.what)
<1>0. FlowInv /\ GotInv /\ FallbackInv
  BY DEF RelayInv
<1>1. outcome = "running" /\ pc \notin {3, 4, 12 + K, 13 + K, 18 + K, 19 + K} /\ sample > 0
      /\ OpAt(pc) \in {"wait", "check", "if", "window"} /\ Now.op = OpAt(pc)
  <2>1. Busy({"wait", "check", "if", "window"}) /\ sample > 0
    BY DEF Sample
  <2> QED
    BY <1>0, <2>1, NotACommand, ScriptNow DEF Stands
<1>2. RelayUnchanged
  BY DEF Sample, RelayUnchanged, relayVars, fixtureVars
<1>3. /\ pc \in {9 + K, 22 + K} => looked = 2
      /\ pc = 10 + K => looked = 1
  BY <1>0, Lengths
<1>4. verdict = "yes" => /\ pc = 9 + K /\ sample = 1 => Got("a")
                         /\ pc = 9 + K /\ sample = 2 => Got("c")
                         /\ pc = 10 + K /\ sample = 1 => stray["b"] = baseline["b"]
                         /\ pc = 22 + K /\ sample = 1 => More("a")
                         /\ pc = 22 + K /\ sample = 2 => More("c")
  BY Sampled
<1>5. /\ pc = 9 + K /\ sample = 2 => Got("a")
      /\ pc = 22 + K /\ sample = 2 => More("a")
  BY <1>0 DEF GotInv, FallbackInv
<1>6. \/ /\ verdict = "yes" /\ sample < looked /\ sample' = sample + 1
         /\ UNCHANGED <<scenario, pc, open, chosen, raised, outcome>>
      \/ verdict = "yes" /\ sample = looked /\ Goto(Now.then)
      \/ sample' = 0 /\ UNCHANGED <<scenario, pc, open, chosen, raised, outcome>>
      \/ Now.op = "if" /\ Goto(Now.orElse)
      \/ Raise("failed")
  BY DEF Sample
<1> HIDE DEF verdict, looked, seen
<1>7. CASE /\ verdict = "yes" /\ sample < looked /\ sample' = sample + 1
           /\ UNCHANGED <<scenario, pc, open, chosen, raised, outcome>>
  <2>1. Stays /\ pc' = pc /\ outcome' # "passed"
    BY <1>0, <1>1, <1>7 DEF Stays, FlowInv
  <2>2. pc \in {9 + K, 22 + K} => sample = 1
    BY <1>0, <1>1, <1>3, <1>7 DEF FlowInv
  <2>3. /\ pc = 9 + K => Got("a")
        /\ pc = 22 + K => More("a")
    BY <1>4, <1>7, <2>2
  <2>4. ~(pc = 9 + K /\ pc' = 10 + K) /\ ~(pc = 10 + K /\ pc' = 11 + K)
    BY <2>1, KIsNat DEF Stays
  <2> QED
    BY <1>1, <1>2, <2>1, <2>3, <2>4, RunnerStep DEF Transition
<1>8. CASE verdict = "yes" /\ sample = looked /\ Goto(Now.then)
  <2>1. pc # 14 + K
    BY <1>1, KIsNat DEF OpAt
  <2>2. Onward /\ sample' = 1
    BY <1>0, <1>8, <2>1, GotoOnward DEF Onward
  <2> QED
    BY <1>1, <1>2, <1>3, <1>4, <1>5, <1>8, <2>2, RunnerStep DEF Transition
<1>9. CASE sample' = 0 /\ UNCHANGED <<scenario, pc, open, chosen, raised, outcome>>
  <2>1. Stays /\ pc' = pc /\ outcome' # "passed"
    BY <1>1, <1>9 DEF Stays
  <2> QED
    BY <1>0, <1>1, <1>2, <1>9, <2>1, RunnerStep, KIsNat DEF Transition, FlowInv
<1>10. CASE Now.op = "if" /\ Goto(Now.orElse)
  <2>1. pc = 16 + K
    BY <1>1, <1>10, KIsNat DEF OpAt
  <2>2. OtherWay
    BY <1>0, <1>10, <2>1, GotoElse DEF OtherWay
  <2> QED
    BY <1>1, <1>2, <2>1, <2>2, RunnerStep, KIsNat DEF Transition
<1>11. CASE Raise("failed")
  BY <1>1, <1>2, <1>11, FailingStep
<1> QED
  BY <1>6, <1>7, <1>8, <1>9, <1>10, <1>11

(* Reading a baseline.                                                     *)
LEMMA NoteKeeps ==
    ASSUME RelayInv, Note PROVE RelayInv'
<1> DEFINE d == Now.what[1].on
<1>0. FlowInv /\ CountInv /\ GotInv /\ FallbackInv
  BY DEF RelayInv
<1>1. outcome = "running" /\ pc \in {6, 7, 8, 18 + K, 19 + K}
  <2>1. outcome = "running" /\ OpAt(pc) = "note"
    BY <1>0, ScriptNow DEF Note, Busy, Stands
  <2> QED
    BY <2>1 DEF OpAt
<1>2. /\ pc = 6 => d = "a"
      /\ pc = 7 => d = "c"
      /\ pc = 8 => d = "b"
      /\ pc = 18 + K => d = "a"
      /\ pc = 19 + K => d = "c"
  BY <1>0, ScriptNow, ConditionsAt DEF Shows
<1>3. d \in Devices
  BY <1>1, <1>2, DevicesAre
<1>4. /\ baseline' = [baseline EXCEPT ![d] = MessagesReceived(d)]
      /\ UNCHANGED <<blocked, delivered, stray, leaked, unanswered, late>> /\ Goto(Now.then)
  BY DEF Note
<1> HIDE DEF d
<1>5. Onward /\ pc' = pc + 1 /\ outcome' = "running"
  <2>1. pc # 14 + K /\ pc \notin Passing
    BY <1>1, KIsNat DEF Passing
  <2> QED
    BY <1>0, <1>1, <1>4, <2>1, GotoOnward DEF Onward, MovesTo
<1>6. Transition
  BY <1>5 DEF Transition
<1>7. \A e \in Devices : MessagesReceived(e) \in Nat
  BY <1>0, DevicesAre DEF MessagesReceived, CountInv, Ends
<1>8. \A e \in Devices : baseline'[e] = IF e = d THEN MessagesReceived(e) ELSE baseline[e]
  BY <1>0, <1>4 DEF CountInv
<1>9. FlowInv'
  BY <1>0, <1>1, <1>6, FlowKept
<1>10. BlockInv'
  <2>1. pc \notin {3, 4, 12 + K, 13 + K}
    BY <1>1, KIsNat
  <2> QED
    BY <1>0, <1>1, <1>4, <1>6, <2>1, BlockKept DEF RelayInv
<1>11. CountInv'
  <2>1. baseline' \in [Devices -> Nat]
    BY <1>0, <1>4, <1>7 DEF CountInv
  <2>2. \A e \in Devices : MessagesReceived(e)' = MessagesReceived(e)
    BY <1>4 DEF MessagesReceived
  <2>3. \A e \in Devices : baseline'[e] =< MessagesReceived(e)
    BY <1>0, <1>7, <1>8 DEF CountInv
  <2> QED
    BY <1>0, <1>4, <2>1, <2>2, <2>3 DEF CountInv
<1>12. GotInv'
  <2>1. ~(pc = 9 + K)
    BY <1>1, KIsNat
  <2> QED
    BY <1>0, <1>1, <1>4, <1>6, <2>1, GotKept
<1>13. LeakInv'
  <2>1. ~leaked
    BY <1>1, KIsNat DEF RelayInv, LeakInv
  <2> QED
    BY <1>4, <2>1 DEF LeakInv
<1>14. FallbackInv'
  <2>1. pc \in {18 + K, 19 + K} => baseline'[d] >= Rounds \/ stray'[d] > 0
    <3>1. ASSUME pc \in {18 + K, 19 + K} PROVE baseline'[d] >= Rounds \/ stray'[d] > 0
      <4>1. d \in Ends /\ d \in Devices /\ pc >= 10 + K
        BY <1>2, <3>1, <1>3, KIsNat DEF Ends
      <4>2. Got(d)
        <5>1. raised = "no"
          BY <1>0, <3>1, KIsNat DEF FlowInv
        <5>2. Got("a") /\ Got("c")
          BY <1>0, <1>1, <4>1, <5>1 DEF GotInv
        <5> QED
          BY <4>1, <5>2 DEF Ends
      <4>3. baseline'[d] = stray[d] + delivered[d]
        BY <1>8, <4>1 DEF MessagesReceived
      <4>4. stray[d] \in Nat /\ delivered[d] \in Nat /\ stray' = stray
        BY <1>0, <1>4, <4>1 DEF CountInv
      <4> QED
        BY <4>2, <4>3, <4>4, RelayBounds DEF Got
    <3> QED
      BY <3>1
  <2>2. pc = 19 + K => Base("a")'
    <3>1. ASSUME pc = 19 + K PROVE Base("a")'
      <4>1. Base("a") /\ d = "c" /\ "a" \in Devices
        BY <1>0, <1>2, <3>1, DevicesAre DEF FallbackInv, FlowInv
      <4>2. baseline'["a"] = baseline["a"] /\ stray' = stray
        BY <1>4, <1>8, <4>1
      <4> QED
        BY <4>1, <4>2 DEF Base
    <3> QED
      BY <3>1
  <2>3. pc = 18 + K => Base("a")'
    BY <1>2, <2>1 DEF Base
  <2>4. pc = 19 + K => Base("c")'
    BY <1>2, <2>1 DEF Base
  <2>5. pc' >= 19 + K => pc \in {18 + K, 19 + K}
    BY <1>1, <1>5, KIsNat
  <2>6. pc' >= 20 + K => pc = 19 + K
    BY <1>1, <1>5, KIsNat
  <2>7. pc' # 22 + K
    BY <1>1, <1>5, KIsNat
  <2> QED
    BY <2>2, <2>3, <2>4, <2>5, <2>6, <2>7 DEF FallbackInv
<1> QED
  BY <1>9, <1>10, <1>11, <1>12, <1>13, <1>14 DEF RelayInv

-----------------------------------------------------------------------------
(* Commands.                                                               *)

(* A command's answer as a transition.                                     *)
LEMMA SettleLeads ==
    ASSUME FlowInv, Busy({"cmd", "pair"}), NEW i \in open, NEW how \in {"ok", "failed", "crashed"},
           Settle(i, how)
    PROVE  /\ outcome = "running" /\ OpAt(pc) = "cmd"
           /\ how = "ok" => Onward
           /\ how # "ok" => Fails(how)
<1>1. outcome = "running" /\ OpAt(pc) = "cmd" /\ Now.op = "cmd"
  <2>1. outcome = "running" /\ Now.op = OpAt(pc) /\ OpAt(pc) \in {"cmd", "pair"}
    BY ScriptNow DEF Busy, Stands
  <2> QED
    BY <2>1 DEF OpAt
<1>2. open = {i}
  BY <1>1 DEF FlowInv
<1>3. pc # 14 + K
  BY <1>1, KIsNat DEF OpAt
<1>4. CASE how = "ok"
  <2>1. Goto(Now.then)
    BY <1>1, <1>2, <1>4 DEF Settle
  <2> QED
    BY <1>1, <1>3, <1>4, <2>1, GotoOnward
<1>5. CASE how # "ok"
  <2>1. Raise(how)
    BY <1>2, <1>5 DEF Settle
  <2> QED
    BY <1>1, <1>5, <2>1, RaiseFails
<1> QED
  BY <1>4, <1>5

(* A command touches the block, and nothing else the invariant is about.   *)
LEMMA CommandKept ==
    ASSUME RelayInv, outcome = "running", OpAt(pc) = "cmd", Transition,
           UNCHANGED <<delivered, stray, baseline, leaked>>, BlockInv'
    PROVE  RelayInv'
<1>1. pc \notin {9 + K, 10 + K, 18 + K, 19 + K, 22 + K}
  BY KIsNat DEF OpAt
<1>2. FlowInv'
  BY FlowKept DEF RelayInv
<1>3. CountInv'
  BY CountKept DEF RelayInv
<1>4. GotInv'
  BY <1>1, GotKept DEF RelayInv
<1>5. LeakInv'
  BY <1>1, LeakKept DEF RelayInv
<1>6. FallbackInv'
  BY <1>1, FallbackKept DEF RelayInv
<1> QED
  BY <1>2, <1>3, <1>4, <1>5, <1>6 DEF RelayInv

Blocking == {3, 4, 12 + K, 13 + K}

(* The command the scenario is at.                                         *)
LEMMA CommandNow ==
    ASSUME FlowInv, OpAt(pc) = "cmd"
    PROVE  Now.what = <<Now.what[1]>> /\ Orders(Now.what[1], pc)
<1>1. PICK c : FriendRelay[pc].what = <<c>> /\ Orders(c, pc)
  BY CommandAt DEF FlowInv
<1>2. Now.what = <<c>>
  BY <1>1, ScriptNow
<1>3. Now.what[1] = c
  BY <1>2
<1> QED
  BY <1>1, <1>2, <1>3

(* A command about the block that succeeds: the end it blocks is unblocked *)
(* later, and the one it unblocks is not blocked.                          *)
LEMMA BlockedInOrder ==
    ASSUME FlowInv, BlockInv, outcome = "running", pc \in Blocking, Onward,
           NEW c, c.on = (IF pc \in {3, 12 + K} THEN "a" ELSE "c"),
           blocked' \subseteq blocked \cup {c.on},
           pc \in {12 + K, 13 + K} => blocked' = blocked \ {c.on},
           unanswered' = unanswered, late' = late
    PROVE  BlockInv'
<1>1. pc \notin Passing
  BY KIsNat DEF Blocking, Passing
<1>2. pc' = pc + 1 /\ outcome' = "running"
  BY <1>1 DEF Onward, MovesTo
<1>3. c.on \in Ends
  BY DEF Ends
<1>4. blocked' \subseteq Ends /\ unanswered' \subseteq Ends
  BY <1>3 DEF BlockInv
<1>5. \A k \in late' : k.name # "sendReliable" => k.on \in unanswered'
  BY DEF BlockInv
<1>6. "a" \in blocked' \ unanswered' => pc' \in 4..(12 + K)
  <2>1. CASE pc = 3
    BY <1>2, <2>1, KIsNat
  <2>2. CASE pc = 4
    BY <1>2, <2>2, KIsNat
  <2>3. CASE pc = 12 + K
    BY <2>3
  <2>4. CASE pc = 13 + K
    <3>1. "a" \notin blocked \ unanswered
      BY <2>4, KIsNat DEF BlockInv
    <3>2. blocked' = blocked \ {c.on}
      BY <2>4
    <3> QED
      BY <3>1, <3>2
  <2> QED
    BY <2>1, <2>2, <2>3, <2>4 DEF Blocking
<1>7. "c" \in blocked' \ unanswered' => pc' \in 5..(13 + K)
  <2>1. CASE pc = 3
    <3>1. "c" \notin blocked \ unanswered
      BY <2>1, KIsNat DEF BlockInv
    <3>2. c.on # "c"
      BY <2>1
    <3> QED
      BY <3>1, <3>2
  <2>2. CASE pc = 4
    BY <1>2, <2>2, KIsNat
  <2>3. CASE pc = 12 + K
    BY <1>2, <2>3, KIsNat
  <2>4. CASE pc = 13 + K
    <3>1. blocked' = blocked \ {c.on} /\ c.on = "c"
      BY <2>4, KIsNat
    <3> QED
      BY <3>1
  <2> QED
    BY <2>1, <2>2, <2>3, <2>4 DEF Blocking
<1> QED
  BY <1>2, <1>4, <1>5, <1>6, <1>7 DEF BlockInv

(* One that fails: its end counts as unanswered, and both do when the      *)
(* other end will not be sent its command.                                 *)
LEMMA BlockedUnanswered ==
    ASSUME FlowInv, BlockInv, outcome = "running", pc \in Blocking,
           NEW how \in {"failed", "crashed"}, Fails(how),
           NEW c, c.on = (IF pc \in {3, 12 + K} THEN "a" ELSE "c"),
           unanswered' = (IF pc = 12 + K /\ outcome' = "crashed" THEN Ends
                          ELSE unanswered \cup {c.on}),
           blocked' \subseteq blocked \cup {c.on}, late' \subseteq late \cup {c}
    PROVE  BlockInv'
<1>1. c.on \in Ends
  BY DEF Ends
<1>2. blocked' \subseteq Ends /\ unanswered' \subseteq Ends
  BY <1>1 DEF BlockInv
<1>3. unanswered \cup {c.on} \subseteq unanswered'
  BY <1>1 DEF BlockInv
<1>4. \A k \in late' : k.name # "sendReliable" => k.on \in unanswered'
  BY <1>3 DEF BlockInv
<1>5. /\ "a" \in blocked' \ unanswered' => "a" \in blocked \ unanswered
      /\ "c" \in blocked' \ unanswered' => "c" \in blocked \ unanswered
  BY <1>3
<1>6. CASE pc \in {3, 4}
  <2>1. pc \in 3..(11 + K) /\ pc \notin {12 + K, 13 + K, 15 + K}
    BY <1>6, KIsNat
  <2>2. pc' = 12 + K /\ outcome' = "running"
    <3>1. pc \in 3..(13 + K)
      BY <2>1, KIsNat
    <3> QED
      BY <2>1, <3>1 DEF Fails, MovesTo
  <2>3. 12 + K \in 4..(12 + K) /\ 12 + K \in 5..(13 + K)
    BY KIsNat
  <2> QED
    BY <1>2, <1>4, <2>2, <2>3 DEF BlockInv
<1>7. CASE pc = 12 + K
  <2>1. pc \notin 3..(11 + K)
    BY <1>7, KIsNat
  <2>2. \/ pc' = 13 + K /\ outcome' = "running"
        \/ outcome' = "crashed"
    BY <1>7, <2>1, KIsNat DEF Fails, MovesTo, EndsAs
  <2>3. "a" \in unanswered'
    BY <1>3, <1>7
  <2>4. outcome' = "crashed" => "c" \in unanswered'
    BY <1>7 DEF Ends
  <2>5. 13 + K \in 5..(13 + K)
    BY KIsNat
  <2> QED
    BY <1>2, <1>4, <2>2, <2>3, <2>4, <2>5 DEF BlockInv
<1>8. CASE pc = 13 + K
  <2>1. "c" \in unanswered'
    BY <1>3, <1>8, KIsNat
  <2>2. "a" \notin blocked \ unanswered
    BY <1>8, KIsNat DEF BlockInv
  <2> QED
    BY <1>2, <1>4, <1>5, <2>1, <2>2 DEF BlockInv
<1> QED
  BY <1>6, <1>7, <1>8 DEF Blocking

(* What a command about the block does to it; a message does nothing.      *)
LEMMA EffectIs ==
    ASSUME NEW c, Effect(c)
    PROVE  /\ UNCHANGED <<delivered, stray, baseline, leaked>>
           /\ blocked' \subseteq blocked \cup {c.on}
           /\ c.name = "sendReliable" => blocked' = blocked
           /\ c.name # "sendReliable" /\ ~c.blocked => blocked' = blocked \ {c.on}
<1>1. UNCHANGED <<delivered, stray, baseline, leaked>>
  BY DEF Effect
<1>2. CASE c.name = "sendReliable"
  BY <1>1, <1>2 DEF Effect
<1>3. CASE c.name # "sendReliable"
  <2>1. blocked' = IF c.blocked THEN blocked \cup {c.on} ELSE blocked \ {c.on}
    BY <1>3 DEF Effect
  <2> QED
    BY <1>1, <1>3, <2>1
<1> QED
  BY <1>2, <1>3

(* The command at the scenario's place, by kind.                           *)
LEMMA OrdersSay ==
    ASSUME FlowInv, OpAt(pc) = "cmd", NEW c, Orders(c, pc)
    PROVE  /\ pc \in Blocking => /\ c.name # "sendReliable"
                                 /\ c.on = IF pc \in {3, 12 + K} THEN "a" ELSE "c"
           /\ pc \notin Blocking => c.name = "sendReliable"
           /\ pc \in {12 + K, 13 + K} => ~c.blocked
BY KIsNat DEF Orders, Blocking, SetBlock

(* NowUnanswered for a command about the block and for a message.          *)
LEMMA UnansweredNow ==
    ASSUME FlowInv, OpAt(pc) = "cmd", NowUnanswered
    PROVE  /\ pc \notin Blocking => unanswered' = unanswered
           /\ pc \in Blocking =>
                  unanswered' = IF pc = 12 + K /\ outcome' = "crashed" THEN Ends
                                ELSE unanswered \cup {Now.what[1].on}
<1>1. Orders(Now.what[1], pc)
  BY CommandNow
<1>2. Now.at = LabelAt(pc)
  BY ScriptNow DEF Stands
<1>3. Now.at = "clearA" <=> pc = 12 + K
  BY <1>2 DEF LabelAt
<1>4. /\ pc \in Blocking => Now.what[1].name # "sendReliable"
      /\ pc \notin Blocking => Now.what[1].name = "sendReliable"
  BY <1>1, OrdersSay
<1> QED
  BY <1>3, <1>4 DEF NowUnanswered

(* A command that was answered with ok.                                    *)
LEMMA OkKeeps ==
    ASSUME RelayInv, CommandOk(1, Accepts(Now.what[1]), Effect(Now.what[1])), UNCHANGED unanswered
    PROVE  RelayInv'
<1> DEFINE c == Now.what[1]
<1>0. FlowInv /\ BlockInv
  BY DEF RelayInv
<1>1. outcome = "running" /\ OpAt(pc) = "cmd" /\ Onward
  <2>1. \A how : how = "ok" => Settle(1, how)
    BY DEF CommandOk
  <2>2. PICK how \in {"ok", "failed", "crashed"} : how = "ok"
    OBVIOUS
  <2>3. Busy({"cmd", "pair"}) /\ 1 \in open
    BY DEF CommandOk
  <2> QED
    BY <1>0, <2>1, <2>2, <2>3, SettleLeads
<1>2. Effect(c) /\ late' = late
  BY DEF CommandOk
<1>3. Orders(c, pc)
  BY <1>0, <1>1, CommandNow
<1> HIDE DEF c
<1>4. Transition
  BY <1>1 DEF Transition
<1>5. UNCHANGED <<delivered, stray, baseline, leaked>>
  BY <1>2, EffectIs
<1>6. CASE pc \in Blocking
  <2>1. /\ c.name # "sendReliable" /\ c.on = (IF pc \in {3, 12 + K} THEN "a" ELSE "c")
        /\ pc \in {12 + K, 13 + K} => ~c.blocked
    BY <1>0, <1>1, <1>3, <1>6, OrdersSay
  <2>2. /\ blocked' \subseteq blocked \cup {c.on}
        /\ pc \in {12 + K, 13 + K} => blocked' = blocked \ {c.on}
    BY <1>2, <2>1, EffectIs
  <2>3. BlockInv'
    BY <1>0, <1>1, <1>2, <1>6, <2>1, <2>2, BlockedInOrder
  <2> QED
    BY <1>1, <1>4, <1>5, <2>3, CommandKept
<1>7. CASE pc \notin Blocking
  <2>1. c.name = "sendReliable"
    BY <1>0, <1>1, <1>3, <1>7, OrdersSay
  <2>2. blocked' = blocked
    BY <1>2, <2>1, EffectIs
  <2>3. BlockInv'
    BY <1>0, <1>1, <1>2, <1>4, <1>7, <2>2, BlockKept DEF Blocking
  <2> QED
    BY <1>1, <1>4, <1>5, <2>3, CommandKept
<1> QED
  BY <1>6, <1>7

(* One that was not: whether it took effect, will, or never does.          *)
LEMMA FailedCommandKeeps ==
    ASSUME RelayInv, Busy({"cmd", "pair"}), 1 \in open,
           NEW how \in {"failed", "crashed"}, Settle(1, how), NowUnanswered,
           UNCHANGED <<delivered, stray, baseline, leaked>>,
           blocked' \subseteq blocked \cup {Now.what[1].on},
           Now.what[1].name = "sendReliable" => blocked' = blocked,
           late' \subseteq late \cup {Now.what[1]}
    PROVE  RelayInv'
<1> DEFINE c == Now.what[1]
<1>0. FlowInv /\ BlockInv
  BY DEF RelayInv
<1>1. outcome = "running" /\ OpAt(pc) = "cmd" /\ Fails(how)
  BY <1>0, SettleLeads
<1>2. Transition
  BY <1>1 DEF Transition
<1>3. Orders(c, pc)
  BY <1>0, <1>1, CommandNow
<1>4. /\ pc \notin Blocking => unanswered' = unanswered
      /\ pc \in Blocking => unanswered' = IF pc = 12 + K /\ outcome' = "crashed" THEN Ends
                                          ELSE unanswered \cup {c.on}
  BY <1>0, <1>1, UnansweredNow
<1>5. /\ blocked' \subseteq blocked \cup {c.on}
      /\ c.name = "sendReliable" => blocked' = blocked
      /\ late' \subseteq late \cup {c}
  OBVIOUS
<1> HIDE DEF c
<1>6. CASE pc \in Blocking
  <2>1. c.on = (IF pc \in {3, 12 + K} THEN "a" ELSE "c")
    BY <1>0, <1>1, <1>3, <1>6, OrdersSay
  <2>2. BlockInv'
    BY <1>0, <1>1, <1>4, <1>5, <1>6, <2>1, BlockedUnanswered
  <2> QED
    BY <1>1, <1>2, <2>2, CommandKept
<1>7. CASE pc \notin Blocking
  <2>1. c.name = "sendReliable"
    BY <1>0, <1>1, <1>3, <1>7, OrdersSay
  <2>2. \A k \in late' : k \in late \/ k.name = "sendReliable"
    BY <1>5, <2>1
  <2>3. BlockInv'
    BY <1>0, <1>1, <1>2, <1>4, <1>5, <1>7, <2>1, <2>2, BlockKept DEF Blocking
  <2> QED
    BY <1>1, <1>2, <2>3, CommandKept
<1> QED
  BY <1>6, <1>7

(* Every outcome of a command.                                             *)
LEMMA CommandsKeep ==
    ASSUME RelayInv, Commands PROVE RelayInv'
<1>1. CASE CommandOk(1, Accepts(Now.what[1]), Effect(Now.what[1])) /\ UNCHANGED unanswered
  BY <1>1, OkKeeps
<1>2. CASE CommandRefused(1, Accepts(Now.what[1]), fixtureVars) /\ NowUnanswered
  <2>1. \E how \in {"failed", "crashed"} : Settle(1, how)
    BY <1>2 DEF CommandRefused
  <2>2. UNCHANGED fixtureVars /\ late' = late /\ Busy({"cmd", "pair"}) /\ 1 \in open
    BY <1>2 DEF CommandRefused
  <2> QED
    BY <1>2, <2>1, <2>2, FailedCommandKeeps DEF fixtureVars
<1>3. CASE CommandAnswerLost(1, Accepts(Now.what[1]), Effect(Now.what[1])) /\ NowUnanswered
  <2>1. \E how \in {"failed", "crashed"} : Settle(1, how)
    BY <1>3 DEF CommandAnswerLost
  <2>2. Effect(Now.what[1]) /\ late' = late /\ Busy({"cmd", "pair"}) /\ 1 \in open
    BY <1>3 DEF CommandAnswerLost
  <2>3. /\ UNCHANGED <<delivered, stray, baseline, leaked>>
        /\ blocked' \subseteq blocked \cup {Now.what[1].on}
        /\ Now.what[1].name = "sendReliable" => blocked' = blocked
    BY <2>2, EffectIs
  <2> QED
    BY <1>3, <2>1, <2>2, <2>3, FailedCommandKeeps
<1>4. CASE CommandDelayed(1, fixtureVars) /\ NowUnanswered
  <2>1. \E how \in {"failed", "crashed"} : Settle(1, how)
    BY <1>4 DEF CommandDelayed
  <2>2. /\ UNCHANGED fixtureVars /\ late' = late \cup {Now.what[1]}
        /\ Busy({"cmd", "pair"}) /\ 1 \in open
    BY <1>4 DEF CommandDelayed
  <2> QED
    BY <1>4, <2>1, <2>2, FailedCommandKeeps DEF fixtureVars
<1> QED
  BY <1>1, <1>2, <1>3, <1>4 DEF Commands

-----------------------------------------------------------------------------
(* The devices.                                                            *)

(* A step of the devices: what is counted may grow.                        *)
LEMMA DeviceStep ==
    ASSUME RelayInv, UNCHANGED controlVars, UNCHANGED <<baseline, unanswered>>,
           delivered' \in [Ends -> Nat], stray' \in [Devices -> Nat],
           \A d \in Ends : delivered'[d] >= delivered[d],
           \A d \in Devices : stray'[d] >= stray[d],
           BlockInv', LeakInv'
    PROVE  RelayInv'
<1>0. FlowInv /\ CountInv /\ GotInv /\ FallbackInv
  BY DEF RelayInv
<1>1. UNCHANGED <<scenario, pc, sample, open, raised, outcome>>
  BY DEF controlVars
<1>2. FlowInv'
  BY <1>0, <1>1 DEF FlowInv
<1>3. /\ \A d \in Ends : d \in Devices /\ delivered[d] \in Nat /\ delivered'[d] \in Nat
      /\ \A d \in Devices : stray[d] \in Nat /\ stray'[d] \in Nat /\ baseline[d] \in Nat
  BY <1>0, DevicesAre DEF CountInv, Ends
<1>4. CountInv'
  <2>1. ASSUME NEW d \in Devices PROVE baseline'[d] =< MessagesReceived(d)'
    <3>1. baseline[d] =< stray[d] + (IF d \in Ends THEN delivered[d] ELSE 0)
      BY <1>0 DEF CountInv, MessagesReceived
    <3>2. MessagesReceived(d)' = stray'[d] + (IF d \in Ends THEN delivered'[d] ELSE 0)
      BY DEF MessagesReceived
    <3>3. CASE d \in Ends
      BY <1>3, <3>1, <3>2, <3>3
    <3>4. CASE d \notin Ends
      BY <1>3, <3>1, <3>2, <3>4
    <3> QED
      BY <3>3, <3>4
  <2> QED
    BY <1>0, <2>1 DEF CountInv
<1>5. \A d \in Ends : /\ Got(d) => Got(d)'
                      /\ Base(d) => Base(d)'
                      /\ More(d) => More(d)'
  BY <1>3, RelayBounds DEF Got, Base, More
<1>6. "a" \in Ends /\ "c" \in Ends
  BY DEF Ends
<1>7. GotInv'
  BY <1>0, <1>1, <1>5, <1>6 DEF GotInv
<1>8. FallbackInv'
  BY <1>0, <1>1, <1>5, <1>6 DEF FallbackInv
<1> QED
  BY <1>2, <1>4, <1>7, <1>8 DEF RelayInv

(* Steps of the devices that leave the block or the leak alone.            *)
LEMMA BlockUntouched ==
    ASSUME BlockInv, UNCHANGED controlVars, UNCHANGED <<blocked, unanswered, late>>
    PROVE  BlockInv'
BY DEF BlockInv, controlVars

(* The leak.                                                               *)
LEMMA LeakUntouched ==
    ASSUME LeakInv, UNCHANGED controlVars, UNCHANGED <<leaked, stray, baseline>>
    PROVE  LeakInv'
BY DEF LeakInv, controlVars

(* Links and paths come and go.                                            *)
LEMMA PathKeeps ==
    ASSUME RelayInv, UNCHANGED <<delivered, stray, baseline, blocked, unanswered, leaked, stepVars>>
    PROVE  RelayInv'
<1>1. UNCHANGED controlVars /\ UNCHANGED late
  BY DEF stepVars
<1>2. delivered \in [Ends -> Nat] /\ stray \in [Devices -> Nat]
  BY DEF RelayInv, CountInv
<1> QED
  BY <1>1, <1>2, BlockUntouched, LeakUntouched, DeviceStep DEF RelayInv

(* A message of the scenario arrives.                                      *)
LEMMA DeliverKeeps ==
    ASSUME RelayInv, NEW d \in Ends, Deliver(d) PROVE RelayInv'
<1>1. UNCHANGED controlVars /\ UNCHANGED <<late, blocked, stray, baseline, unanswered, leaked>>
  BY DEF Deliver, stepVars
<1>2. delivered \in [Ends -> Nat] /\ stray \in [Devices -> Nat]
  BY DEF RelayInv, CountInv
<1>3. delivered' = [delivered EXCEPT ![d] = delivered[d] + 1]
  BY DEF Deliver
<1>4. delivered' \in [Ends -> Nat] /\ \A e \in Ends : delivered'[e] >= delivered[e]
  BY <1>2, <1>3
<1> QED
  BY <1>1, <1>2, <1>4, BlockUntouched, LeakUntouched, DeviceStep DEF RelayInv

(* Where the exchange is.                                                  *)
LEMMA ExchangingAt ==
    ASSUME FlowInv, Exchanging
    PROVE  outcome = "running" /\ pc \in 9..(9 + K)
<1>1. outcome = "running" /\ OpAt(pc) \in {"cmd", "wait"} /\ Now = FriendRelay[pc]
      /\ Now.onFail = OnFail(pc) /\ pc \in 1..(22 + K)
  BY ScriptNow DEF Exchanging, Busy, Stands, FlowInv
<1>2. \/ pc \in 9..(9 + K) \/ pc \in {1, 5, 15 + K, 22 + K}
      \/ pc \in {3, 4, 12 + K, 13 + K, 20 + K, 21 + K}
  BY <1>1, KIsNat DEF OpAt
<1>3. \A kind, d, e : Shows(kind, d) # Send(e)
  <2>1. \A kind, d, e : DOMAIN Shows(kind, d) # DOMAIN Send(e)
    <3>1. \A kind, d : "types" \in DOMAIN Shows(kind, d)
      BY DEF Shows
    <3>2. \A e : "types" \notin DOMAIN Send(e)
      BY DEF Send
    <3> QED
      BY <3>1, <3>2
  <2> QED
    BY <2>1
<1>4. \A kind : BothEnds(kind)[1] = Shows(kind, "a") /\ Len(BothEnds(kind)) = 2
  BY DEF BothEnds
<1>5. \A kind, other, d, e : kind # other => Shows(kind, d) # Shows(other, e)
  BY DEF Shows
<1>6. pc # 1
  <2>1. pc = 1 => Now.what = Near
    BY <1>1, ScriptIs, WhatOf DEF AwaitNear
  <2>2. Near[1] = Shows("near", "ab")
    BY DEF Near
  <2>3. pc = 1 => Now.onFail = "end"
    BY <1>1, KIsNat DEF OnFail
  <2> QED
    BY <1>4, <1>5, <2>1, <2>2, <2>3 DEF Exchanging
<1>7. pc # 5
  <2>1. pc = 5 => Now.what = BothEnds("relay")
    BY <1>1, ScriptIs, WhatOf DEF AwaitRelay
  <2> QED
    BY <1>3, <1>4, <1>5, <2>1 DEF Exchanging
<1>8. pc # 15 + K
  <2>1. pc = 15 + K => Now.what = BothEnds("direct")
    BY <1>1, ScriptIs, LaterSteps
  <2>2. pc = 15 + K => Now.onFail # "clearA"
    BY <1>1, KIsNat DEF OnFail
  <2> QED
    BY <1>4, <1>5, <2>1, <2>2 DEF Exchanging
<1>9. pc # 22 + K
  <2>1. pc = 22 + K => Now.what = BothEnds("more")
    BY <1>1, ConditionsAt
  <2>2. pc = 22 + K => Now.onFail # "clearA"
    BY <1>1, KIsNat DEF OnFail
  <2> QED
    BY <1>4, <1>5, <2>1, <2>2 DEF Exchanging
<1>10. pc \notin {3, 4, 12 + K, 13 + K, 20 + K, 21 + K}
  <2>1. SUFFICES ASSUME pc \in {3, 4, 12 + K, 13 + K, 20 + K, 21 + K} PROVE FALSE
    OBVIOUS
  <2>2. OpAt(pc) = "cmd"
    BY <2>1, KIsNat DEF OpAt
  <2>3. Now.what = <<Now.what[1]>> /\ Orders(Now.what[1], pc)
    BY <2>2, CommandNow
  <2>4. Now.what # BothEnds("got")
    <3>1. \A x : Len(<<x>>) = 1
      OBVIOUS
    <3>2. Len(Now.what) = 1
      BY <2>3, <3>1
    <3> QED
      BY <1>4, <3>2
  <2>5. Now.onFail = "clearA" /\ \E e : Now.what[1] = Send(e)
    BY <2>4 DEF Exchanging
  <2>6. pc \in {3, 4}
    BY <1>1, <2>1, <2>5, KIsNat DEF OnFail
  <2>7. Now.what[1].name = "sendReliable"
    BY <2>5 DEF Send
  <2> QED
    BY <2>3, <2>6, <2>7 DEF Orders, SetBlock
<1> QED
  BY <1>1, <1>2, <1>6, <1>7, <1>8, <1>9, <1>10

(* A message the scenario did not send arrives.                            *)
LEMMA StrayKeeps ==
    ASSUME RelayInv, NEW d \in Devices, Stray(d) PROVE RelayInv'
<1>0. FlowInv /\ CountInv /\ LeakInv
  BY DEF RelayInv
<1>1. UNCHANGED controlVars /\ UNCHANGED <<late, blocked, delivered, baseline, unanswered>>
  BY DEF Stray, stepVars
<1>2. delivered \in [Ends -> Nat] /\ stray \in [Devices -> Nat] /\ baseline \in [Devices -> Nat]
  BY <1>0 DEF CountInv
<1>3. stray' = [stray EXCEPT ![d] = stray[d] + 1]
  BY DEF Stray
<1>4. stray' \in [Devices -> Nat] /\ \A e \in Devices : stray'[e] >= stray[e]
  BY <1>2, <1>3
<1>5. stray["b"] \in Nat /\ stray'["b"] \in Nat /\ baseline["b"] \in Nat /\ stray'["b"] >= stray["b"]
      /\ baseline["b"] =< stray["b"]
  <2>1. "b" \in Devices /\ "b" \notin Ends
    BY DevicesAre DEF Ends
  <2>2. stray["b"] \in Nat /\ stray'["b"] \in Nat /\ baseline["b"] \in Nat /\ stray'["b"] >= stray["b"]
    BY <1>2, <1>4, <2>1
  <2>3. baseline["b"] =< MessagesReceived("b") /\ MessagesReceived("b") = stray["b"] + 0
    BY <1>0, <2>1 DEF CountInv, MessagesReceived
  <2> QED
    BY <2>2, <2>3
<1>6. LeakInv'
  <2>1. CASE leaked
    BY <1>0, <1>1, <1>5, <2>1 DEF LeakInv, controlVars
  <2>2. CASE ~leaked
    <3>1. leaked' => d = "b" /\ Exchanging
      BY <2>2 DEF Stray
    <3>2. leaked' => outcome = "running" /\ pc \in 9..(10 + K)
      BY <1>0, <3>1, ExchangingAt, KIsNat
    <3>3. d = "b" => stray'["b"] > baseline["b"]
      BY <1>2, <1>3, <1>5
    <3> QED
      BY <1>1, <3>1, <3>2, <3>3 DEF LeakInv, controlVars
  <2> QED
    BY <2>1, <2>2
<1>7. BlockInv'
  BY <1>1, BlockUntouched DEF RelayInv
<1> QED
  BY <1>1, <1>2, <1>4, <1>6, <1>7, DeviceStep

(* A command takes effect after the runner gave up on it.                  *)
LEMMA LateCommandKeeps ==
    ASSUME RelayInv, NEW c \in late, LateCommand(c, Accepts(c), Effect(c)), UNCHANGED unanswered
    PROVE  RelayInv'
<1>1. UNCHANGED controlVars /\ late' = late \ {c} /\ Effect(c)
  BY DEF LateCommand
<1>2. /\ UNCHANGED <<delivered, stray, baseline, leaked>>
      /\ blocked' \subseteq blocked \cup {c.on}
      /\ c.name = "sendReliable" => blocked' = blocked
  BY <1>1, EffectIs
<1>3. delivered \in [Ends -> Nat] /\ stray \in [Devices -> Nat]
  BY DEF RelayInv, CountInv
<1>4. c.name # "sendReliable" => c.on \in unanswered /\ c.on \in Ends
  BY DEF RelayInv, BlockInv
<1>5. blocked' \subseteq Ends /\ blocked' \ unanswered' \subseteq blocked \ unanswered
  BY <1>2, <1>4 DEF RelayInv, BlockInv
<1>6. BlockInv'
  BY <1>1, <1>5 DEF RelayInv, BlockInv, controlVars
<1>7. LeakInv'
  BY <1>1, <1>2, LeakUntouched DEF RelayInv
<1>8. /\ \A d \in Ends : delivered'[d] >= delivered[d]
      /\ \A d \in Devices : stray'[d] >= stray[d]
  BY <1>2, <1>3
<1> QED
  BY <1>1, <1>2, <1>3, <1>6, <1>7, <1>8, DeviceStep

-----------------------------------------------------------------------------
(* The theorems.                                                           *)

(* The invariant holds at the start.                                       *)
LEMMA RelayInitInv ==
    ASSUME RelayInit PROVE RelayInv
<1>1. /\ scenario = "IT-046" /\ pc = 1 /\ sample = 1 /\ raised = "no" /\ outcome = "running"
      /\ late = {}
  BY DEF RelayInit, ControlInit
<1>2. /\ blocked = {} /\ unanswered = {} /\ leaked = FALSE
      /\ delivered = [d \in Ends |-> 0] /\ stray = [d \in Devices |-> 0]
      /\ baseline = [d \in Devices |-> 0]
  BY DEF RelayInit
<1>3. OpAt(1) = "wait" /\ 1 \in 1..(22 + K)
  BY KIsNat DEF OpAt
<1>4. FlowInv
  BY <1>1, <1>3, KIsNat DEF FlowInv
<1>5. BlockInv
  BY <1>1, <1>2 DEF BlockInv
<1>6. CountInv
  <2>1. \A d \in Devices : MessagesReceived(d) = 0
    BY <1>2 DEF MessagesReceived
  <2> QED
    BY <1>2, <2>1 DEF CountInv
<1>7. GotInv /\ LeakInv /\ FallbackInv
  BY <1>1, <1>2, KIsNat DEF GotInv, LeakInv, FallbackInv
<1> QED
  BY <1>4, <1>5, <1>6, <1>7 DEF RelayInv

(* Every step keeps it.                                                    *)
LEMMA RelayStep ==
    ASSUME RelayInv, [RelayNext]_allVars PROVE RelayInv'
<1>1. CASE Sample(Seen(Condition), relayVars)
  BY <1>1, SampleKeeps
<1>2. CASE Note
  BY <1>2, NoteKeeps
<1>3. CASE Commands
  BY <1>3, CommandsKeep
<1>4. CASE Reraise(relayVars)
  BY <1>4, ReraiseKeeps
<1>5. CASE PollAgain(relayVars)
  BY <1>5, PollAgainKeeps
<1>6. CASE DeadlinePassed(relayVars)
  BY <1>6, DeadlinePassedKeeps
<1>7. CASE WindowEnds(relayVars)
  BY <1>7, WindowEndsKeeps
<1>8. CASE ReadFails({}, relayVars)
  BY <1>8, ReadFailsKeeps
<1>9. ASSUME NEW c \in late, LateCommand(c, Accepts(c), Effect(c)), UNCHANGED unanswered
      PROVE  RelayInv'
  BY <1>9, LateCommandKeeps
<1>10. ASSUME NEW d \in Ends, Deliver(d) PROVE RelayInv'
  BY <1>10, DeliverKeeps
<1>11. ASSUME NEW d \in Ends, NEW to \in {"none", "direct", "relay"}, PathChanges(d, to)
       PROVE  RelayInv'
  <2>1. UNCHANGED <<delivered, stray, baseline, blocked, unanswered, leaked, stepVars>>
    BY <1>11 DEF PathChanges
  <2> QED
    BY <2>1, PathKeeps
<1>12. ASSUME NEW l \in {"ab", "bc"}, NearChanges(l) PROVE RelayInv'
  <2>1. UNCHANGED <<delivered, stray, baseline, blocked, unanswered, leaked, stepVars>>
    BY <1>12 DEF NearChanges
  <2> QED
    BY <2>1, PathKeeps
<1>13. ASSUME NEW d \in Devices, Stray(d) PROVE RelayInv'
  BY <1>13, StrayKeeps
<1>14. CASE UNCHANGED allVars
  <2>1. UNCHANGED <<delivered, stray, baseline, blocked, unanswered, leaked, stepVars>>
    BY <1>14 DEF allVars, relayVars, fixtureVars
  <2> QED
    BY <2>1, PathKeeps
<1> QED
  BY <1>1, <1>2, <1>3, <1>4, <1>5, <1>6, <1>7, <1>8, <1>9, <1>10, <1>11, <1>12, <1>13, <1>14
  DEF RelayNext, Proceeds

(* IT-046 keeps the invariant, whatever fails and whenever.                *)
THEOREM FriendRelayInvariant == RelaySpec => []RelayInv
<1>1. RelayInit => RelayInv
  BY RelayInitInv
<1>2. RelayInv /\ [RelayNext]_allVars => RelayInv'
  BY RelayStep
<1> QED
  BY <1>1, <1>2, PTL DEF RelaySpec

(* However IT-046 ends, an end of the partition stays blocked only when a  *)
(* command about it was not answered: its `finally` runs both unblock      *)
(* commands on every other way out of the try block.                       *)
THEOREM FriendRelayUnblocks == RelaySpec => []BlockOutlivesOnlyUnanswered
<1>1. RelayInv => BlockOutlivesOnlyUnanswered
  <2> SUFFICES ASSUME RelayInv, outcome # "running" PROVE blocked \subseteq unanswered
    BY DEF BlockOutlivesOnlyUnanswered
  <2>1. "a" \notin blocked \ unanswered /\ "c" \notin blocked \ unanswered
    BY DEF RelayInv, BlockInv
  <2>2. blocked \subseteq {"a", "c"}
    BY DEF RelayInv, BlockInv, Ends
  <2> QED
    BY <2>1, <2>2
<1> QED
  BY <1>1, FriendRelayInvariant, PTL

(* A pass of IT-046 rests on every message of the exchange, none of which  *)
(* surfaced at the relay, or on traffic the scenario did not send.         *)
THEOREM FriendRelayExchanged == RelaySpec => []PassedMeansExchanged
<1>1. RelayInv => PassedMeansExchanged
  <2> SUFFICES ASSUME RelayInv, outcome = "passed"
               PROVE  ~leaked /\ \A d \in Ends : delivered[d] >= Rounds \/ stray[d] > 0
    BY DEF PassedMeansExchanged
  <2>1. pc \in Passing /\ raised = "no" /\ pc >= 10 + K
    BY KIsNat DEF RelayInv, FlowInv, Passing
  <2>2. Got("a") /\ Got("c")
    BY <2>1 DEF RelayInv, GotInv
  <2>3. ~leaked
    BY DEF RelayInv, LeakInv
  <2> QED
    BY <2>2, <2>3 DEF Got, Ends
<1> QED
  BY <1>1, FriendRelayInvariant, PTL

(* A pass without the direct edge rests on one more message each way.      *)
THEOREM FriendRelayFallback == RelaySpec => []PassedFallbackDelivers
<1>1. RelayInv => PassedFallbackDelivers
  <2> SUFFICES ASSUME RelayInv, outcome = "passed", pc = Len(script)
               PROVE  \A d \in Ends : delivered[d] > Rounds \/ stray[d] > 0
    BY DEF PassedFallbackDelivers
  <2>1. pc = 22 + K
    BY ScriptNow DEF RelayInv
  <2>2. More("a") /\ More("c")
    BY <2>1 DEF RelayInv, FallbackInv
  <2> QED
    BY <2>2 DEF More, Ends
<1> QED
  BY <1>1, FriendRelayInvariant, PTL
=============================================================================
