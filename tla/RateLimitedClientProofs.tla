----------------------- MODULE RateLimitedClientProofs -----------------------
(***************************************************************************)
(* Theorems about RateLimitedClient: for any rate, burst and timeout that  *)
(* fit YNAB's limit, and any number of concurrent tool calls.              *)
(***************************************************************************)
EXTENDS RateLimitedClient, FiniteSetTheorems, WellFoundedInduction, TLAPS

(* The tokens that were granted and not given back, each with the time it  *)
(* was granted for.                                                        *)
Grants ==
  {[num |-> call[c].num, act |-> call[c].act] : c \in {d \in Callers : Holds(d)}}
    \cup {[num |-> s.num, act |-> s.act] : s \in sent}

(* A request keeps the number and the turn of its grant, and reaches YNAB  *)
(* between its turn and its deadline.                                      *)
CallInv ==
  /\ \A c \in Callers :
       /\ Holds(c) => call[c].num \in 1..used
       /\ Open(c) => call[c].deadline <= call[c].act + Timeout /\ now <= call[c].deadline
       /\ call[c].pc = "admitted" => call[c].act <= now
  /\ \A s \in sent : s.num \in 1..used /\ s.act <= s.at /\ s.at < s.act + Timeout

(* The time at which the bucket will have kept its promises lies as far    *)
(* after any grant as the tokens granted since require.                    *)
LevelInv ==
  \A g \in Grants :
    now - credit >= g.act - Burst * Interval + (used - g.num + 1) * Interval

PairInv ==
  \A g, h \in Grants : g.num <= h.num =>
    (h.num - g.num + 1) * Interval <= Burst * Interval + h.act - g.act

DistinctInv ==
  /\ \A c \in Callers : Holds(c) =>
       /\ \A d \in Callers \ {c} : Holds(d) => call[d].num # call[c].num
       /\ \A s \in sent : s.num # call[c].num
  /\ \A s, t \in sent : s.num = t.num => s = t

(* While a reservation waits for its turn, the last grant is where the     *)
(* bucket stands, and the reservations are one interval apart.             *)
QueueInv ==
  \A c \in Callers : call[c].pc = "waiting" /\ call[c].act >= now =>
    /\ lastEvent = now - credit
    /\ lastEvent = call[c].act + (used - call[c].num) * Interval

(* A bucket so deep in debt that it would refuse owes it to a waiter.      *)
DebtInv ==
  credit < Interval - Timeout =>
    \E c \in Callers : call[c].pc = "waiting" /\ call[c].act = now - credit

Inv == TypeOK /\ CallInv /\ LevelInv /\ PairInv /\ DistinctInv /\ QueueInv /\ DebtInv

-----------------------------------------------------------------------------
(* The arithmetic of the bucket.                                           *)
LEMMA Parameters ==
  /\ Interval \in Nat \ {0} /\ Timeout \in Nat /\ MaxTime \in Nat /\ Interval <= Timeout
  /\ Burst * Interval \in Nat /\ Interval <= Burst * Interval
<1>1. Interval \in Nat \ {0} /\ Burst \in Nat \ {0}
  BY RateAssumption
<1>2. PICK b \in Nat : Burst = b + 1
  <2>1. Burst - 1 \in Nat /\ Burst = (Burst - 1) + 1
    BY <1>1
  <2> QED BY <2>1
<1>3. (b + 1) * Interval = b * Interval + Interval /\ b * Interval \in Nat
  BY <1>1, <1>2
<1> QED BY <1>1, <1>2, <1>3, RateAssumption

LEMMA Times ==
  ASSUME NEW n \in Int
  PROVE  /\ n * Interval \in Int
         /\ (n + 1) * Interval = n * Interval + Interval
         /\ (n - 1) * Interval = n * Interval - Interval
         /\ n >= 0 => n * Interval >= 0
BY RateAssumption

LEMMA InitInv == Init => Inv
<1> SUFFICES ASSUME Init PROVE Inv
  OBVIOUS
<1>1. Grants = {} /\ \A c \in Callers : ~ Open(c) /\ ~ Holds(c)
                      /\ call[c].pc \notin {"waiting", "admitted"}
  BY DEF Init, Grants, Open, Holds, Ended
<1>2. TypeOK
  BY Parameters DEF Init, TypeOK, Ended
<1>3. CallInv /\ LevelInv /\ PairInv /\ DistinctInv /\ QueueInv
  BY <1>1 DEF Init, CallInv, LevelInv, PairInv, DistinctInv, QueueInv
<1>4. DebtInv
  BY Parameters DEF Init, DebtInv
<1> QED BY <1>2, <1>3, <1>4 DEF Inv

(* What a grant is.                                                        *)
LEMMA GrantRange ==
  ASSUME TypeOK, CallInv, NEW g \in Grants
  PROVE  g.num \in 1..used /\ g.act \in 0..MaxTime /\ g.num \in Nat
BY DEF Grants, TypeOK, CallInv

LEMMA CallTypes ==
  ASSUME TypeOK, NEW c \in Callers
  PROVE  /\ now \in 0..MaxTime /\ credit \in -Timeout..Burst * Interval /\ used \in Nat
         /\ lastEvent \in 0..MaxTime
         /\ call[c].act \in 0..MaxTime /\ call[c].deadline \in 0..MaxTime /\ call[c].num \in Nat
BY DEF TypeOK

-----------------------------------------------------------------------------
(* A token is taken.                                                       *)
LEMMA StartInv ==
  ASSUME Inv, NEW c \in Callers, Start(c)
  PROVE  Inv'
<1> DEFINE act == now + Delay
           new == [num |-> used + 1, act |-> act]
<1>1. /\ ~ Open(c) /\ ~ Holds(c) /\ Delay <= Timeout /\ now + Timeout <= MaxTime
      /\ now' = now /\ sent' = sent
      /\ credit' = credit - Interval /\ lastEvent' = act /\ used' = used + 1
  BY DEF Start, Admits, Open, Holds
<1>2. /\ now \in 0..MaxTime /\ credit \in -Timeout..Burst * Interval /\ used \in Nat
      /\ lastEvent \in 0..MaxTime
  BY DEF Inv, TypeOK
<1>3. Delay \in Nat /\ Delay >= Interval - credit /\ (Delay = 0 \/ Delay = Interval - credit)
  BY <1>2, Parameters DEF Delay, Larger
<1>4. /\ call' = [call EXCEPT ![c] = [pc |-> IF Delay = 0 THEN "admitted" ELSE "waiting",
                                      act |-> act, deadline |-> now + Timeout, num |-> used + 1]]
      /\ call' \in [Callers -> [pc : {"waiting", "admitted", "sent", "answered", "failed"},
                                act : 0..MaxTime, deadline : 0..MaxTime, num : Nat]]
  BY <1>1, <1>2, <1>3, Parameters DEF Start, Inv, TypeOK
<1>5. /\ call'[c].pc = (IF Delay = 0 THEN "admitted" ELSE "waiting")
      /\ call'[c].act = act /\ call'[c].deadline = now + Timeout /\ call'[c].num = used + 1
      /\ \A d \in Callers \ {c} : call'[d] = call[d]
  BY <1>4 DEF Inv, TypeOK
<1>6. Grants' = Grants \cup {new}
  BY <1>1, <1>5 DEF Grants, Holds
<1> HIDE DEF act
<1>7. act \in 0..MaxTime /\ act = now + Delay
  BY <1>1, <1>2, <1>3, Parameters DEF act
<1>8. \A g \in Grants : g.num \in 1..used /\ g.act \in 0..MaxTime
  BY GrantRange DEF Inv
<1>9. TypeOK'
  <2>1. credit' \in -Timeout..Burst * Interval
    BY <1>1, <1>2, <1>3, Parameters
  <2> QED BY <1>1, <1>2, <1>4, <1>7, <2>1 DEF Inv, TypeOK
<1>10. CallInv'
  <2>1. \A d \in Callers : /\ Holds(d)' => call'[d].num \in 1..used'
                           /\ Open(d)' => call'[d].deadline <= call'[d].act + Timeout /\ now' <= call'[d].deadline
                           /\ call'[d].pc = "admitted" => call'[d].act <= now'
    <3> SUFFICES ASSUME NEW d \in Callers
                 PROVE /\ Holds(d)' => call'[d].num \in 1..used'
                       /\ Open(d)' => call'[d].deadline <= call'[d].act + Timeout /\ now' <= call'[d].deadline
                       /\ call'[d].pc = "admitted" => call'[d].act <= now'
      OBVIOUS
    <3>1. CASE d = c
      BY <1>1, <1>2, <1>3, <1>5, <1>7, <3>1, Parameters
    <3>2. CASE d # c
      BY <1>1, <1>2, <1>5, <3>2, CallTypes DEF Inv, CallInv, Holds, Open
    <3> QED BY <3>1, <3>2
  <2>2. \A s \in sent' : s.num \in 1..used' /\ s.act <= s.at /\ s.at < s.act + Timeout
    BY <1>1, <1>2 DEF Inv, CallInv
  <2> QED BY <2>1, <2>2 DEF CallInv
<1>11. LevelInv'
  <2> SUFFICES ASSUME NEW g \in Grants'
               PROVE  now' - credit' >= g.act - Burst * Interval + (used' - g.num + 1) * Interval
    BY DEF LevelInv
  <2>1. CASE g \in Grants
    <3>1. now - credit >= g.act - Burst * Interval + (used - g.num + 1) * Interval
      BY <2>1 DEF Inv, LevelInv
    <3>2. used - g.num + 1 \in Int /\ used' - g.num + 1 = (used - g.num + 1) + 1 /\ g.act \in Int
      BY <1>1, <1>2, <1>8, <2>1
    <3>3. (used' - g.num + 1) * Interval = (used - g.num + 1) * Interval + Interval
          /\ (used - g.num + 1) * Interval \in Int
      BY <3>2, Times
    <3> HIDE DEF new
    <3> QED BY <1>1, <1>2, <3>1, <3>2, <3>3, Parameters
  <2>2. CASE g = new
    <3>1. used' - g.num + 1 = 1 /\ g.act = act
      BY <1>1, <1>2, <2>2
    <3>2. (used' - g.num + 1) * Interval = Interval
      BY <3>1, Parameters
    <3> QED BY <1>1, <1>2, <1>3, <1>7, <3>1, <3>2, Parameters
  <2> QED BY <1>6, <2>1, <2>2
<1>12. PairInv'
  <2> SUFFICES ASSUME NEW g \in Grants', NEW h \in Grants', g.num <= h.num
               PROVE  (h.num - g.num + 1) * Interval <= Burst * Interval + h.act - g.act
    BY DEF PairInv
  <2>1. CASE g \in Grants /\ h \in Grants
    BY <2>1 DEF Inv, PairInv
  <2>2. CASE g = new /\ h = new
    <3>1. h.num - g.num + 1 = 1 /\ h.act - g.act = 0
      BY <1>2, <1>7, <2>2
    <3> QED BY <3>1, <1>7, <2>2, Parameters
  <2>3. CASE g = new /\ h \in Grants
    BY <1>2, <1>8, <2>3
  <2>4. CASE g \in Grants /\ h = new
    <3>1. now - credit >= g.act - Burst * Interval + (used - g.num + 1) * Interval
      BY <2>4 DEF Inv, LevelInv
    <3>2. used - g.num + 1 \in Int /\ h.num - g.num + 1 = (used - g.num + 1) + 1
          /\ g.act \in Int /\ h.act = act
      BY <1>2, <1>8, <2>4
    <3>3. (h.num - g.num + 1) * Interval = (used - g.num + 1) * Interval + Interval
          /\ (used - g.num + 1) * Interval \in Int
      BY <3>2, Times
    <3> HIDE DEF new
    <3> QED BY <1>2, <1>3, <1>7, <3>1, <3>2, <3>3, Parameters
  <2> QED BY <1>6, <2>1, <2>2, <2>3, <2>4
<1>13. DistinctInv'
  BY <1>1, <1>2, <1>5 DEF Inv, DistinctInv, CallInv, Holds
<1>14. QueueInv'
  <2> SUFFICES ASSUME NEW d \in Callers, call'[d].pc = "waiting", call'[d].act >= now'
               PROVE  /\ lastEvent' = now' - credit'
                      /\ lastEvent' = call'[d].act + (used' - call'[d].num) * Interval
    BY DEF QueueInv
  <2>1. CASE d = c
    <3>1. Delay = Interval - credit /\ call'[d].act = act /\ used' - call'[d].num = 0
      BY <1>1, <1>2, <1>3, <1>5, <2>1
    <3>2. (used' - call'[d].num) * Interval = 0
      BY <3>1, Parameters
    <3>3. lastEvent' = act /\ now' - credit' = act
      BY <1>1, <1>2, <1>7, <3>1, Parameters
    <3> QED BY <1>1, <1>7, <3>1, <3>2, <3>3
  <2>2. CASE d # c
    <3>1. /\ call'[d] = call[d] /\ lastEvent = now - credit /\ call[d].act >= now
          /\ lastEvent = call[d].act + (used - call[d].num) * Interval
      BY <1>1, <1>5, <2>2 DEF Inv, QueueInv
    <3>2. call[d].num \in 1..used /\ call[d].act \in Int
      BY <1>5, <2>2, CallTypes DEF Inv, CallInv, Holds
    <3>3. used - call[d].num \in Int /\ used' - call'[d].num = (used - call[d].num) + 1
          /\ used - call[d].num >= 0
      BY <1>1, <1>2, <3>1, <3>2
    <3>4. (used' - call'[d].num) * Interval = (used - call[d].num) * Interval + Interval
          /\ (used - call[d].num) * Interval \in Int /\ (used - call[d].num) * Interval >= 0
      BY <3>3, Times
    <3>5. credit <= 0 /\ Delay = Interval - credit
      BY <1>2, <1>3, <3>1, <3>2, <3>4, Parameters
    <3> DEFINE behind == (used - call[d].num) * Interval
    <3>6. behind \in Int /\ lastEvent = call[d].act + behind
          /\ (used' - call'[d].num) * Interval = behind + Interval
      BY <1>1, <3>1, <3>4
    <3> HIDE DEF behind
    <3> QED BY <1>1, <1>2, <1>7, <3>1, <3>2, <3>5, <3>6, Parameters
  <2> QED BY <2>1, <2>2
<1>15. DebtInv'
  <2> SUFFICES ASSUME credit - Interval < Interval - Timeout
               PROVE  \E d \in Callers : call'[d].pc = "waiting" /\ call'[d].act = now - credit + Interval
    BY <1>1, <1>2, Parameters DEF DebtInv
  <2>1. Delay = Interval - credit /\ Delay # 0
    BY <1>2, <1>3, Parameters
  <2> QED BY <1>2, <1>5, <1>7, <2>1, Parameters
<1> QED BY <1>9, <1>10, <1>11, <1>12, <1>13, <1>14, <1>15 DEF Inv

(* The requests that hold a grant keep it, but for one that leaves.        *)
LEMMA SendInv ==
  ASSUME Inv, NEW c \in Callers, Send(c)
  PROVE  Inv'
<1> DEFINE s0 == [num |-> call[c].num, act |-> call[c].act, at |-> now]
<1>1. /\ call[c].pc \in {"waiting", "admitted"} /\ Holds(c) /\ Open(c)
      /\ call[c].act <= now /\ now < call[c].deadline
      /\ sent' = sent \cup {s0}
      /\ now' = now /\ credit' = credit /\ lastEvent' = lastEvent /\ used' = used
      /\ call' = [call EXCEPT ![c].pc = "sent"]
  BY DEF Send, Holds, Open, limiter
<1>2. /\ now \in 0..MaxTime /\ credit \in -Timeout..Burst * Interval /\ used \in Nat
      /\ call[c].act \in 0..MaxTime /\ call[c].deadline \in 0..MaxTime /\ call[c].num \in Nat
  BY CallTypes DEF Inv
<1>3. /\ call'[c].pc = "sent" /\ call'[c].act = call[c].act /\ call'[c].num = call[c].num
      /\ call'[c].deadline = call[c].deadline
      /\ \A d \in Callers \ {c} : call'[d] = call[d]
  BY <1>1 DEF Inv, TypeOK
<1>4. TypeOK'
  <2>1. s0 \in [num : Nat, act : 0..MaxTime, at : 0..MaxTime]
    BY <1>2
  <2> QED BY <1>1, <2>1 DEF Inv, TypeOK
<1>5. Grants' = Grants
  <2>1. [num |-> call[c].num, act |-> call[c].act] \in Grants
    BY <1>1 DEF Grants
  <2>2. \A d \in Callers : Holds(d)' <=> (Holds(d) /\ d # c)
    BY <1>1, <1>3 DEF Holds
  <2>3. Grants' \subseteq Grants
    BY <1>1, <1>3, <2>1, <2>2 DEF Grants
  <2>4. Grants \subseteq Grants'
    <3>1. \A s \in sent : [num |-> s.num, act |-> s.act] \in Grants'
      BY <1>1 DEF Grants
    <3>2. \A d \in Callers : Holds(d) => [num |-> call[d].num, act |-> call[d].act] \in Grants'
      <4> SUFFICES ASSUME NEW d \in Callers, Holds(d)
                   PROVE  [num |-> call[d].num, act |-> call[d].act] \in Grants'
        OBVIOUS
      <4>1. CASE d = c
        <5>1. [num |-> call[d].num, act |-> call[d].act] = [num |-> s0.num, act |-> s0.act] /\ s0 \in sent'
          BY <1>1, <4>1
        <5> QED BY <5>1 DEF Grants
      <4>2. CASE d # c
        BY <1>3, <2>2, <4>2 DEF Grants
      <4> QED BY <4>1, <4>2
    <3> QED BY <3>1, <3>2 DEF Grants
  <2> QED BY <2>3, <2>4
<1>6. CallInv'
  <2>1. s0.num \in 1..used' /\ s0.act <= s0.at /\ s0.at < s0.act + Timeout
    BY <1>1, <1>2, Parameters DEF Inv, CallInv
  <2>2. \A d \in Callers : /\ Holds(d)' => call'[d].num \in 1..used'
                           /\ Open(d)' => call'[d].deadline <= call'[d].act + Timeout /\ now' <= call'[d].deadline
                           /\ call'[d].pc = "admitted" => call'[d].act <= now'
    BY <1>1, <1>3 DEF Inv, CallInv, Holds, Open
  <2>3. \A s \in sent' : s.num \in 1..used' /\ s.act <= s.at /\ s.at < s.act + Timeout
    BY <1>1, <2>1 DEF Inv, CallInv
  <2> QED BY <2>2, <2>3 DEF CallInv
<1>7. LevelInv' /\ PairInv'
  BY <1>1, <1>5 DEF Inv, LevelInv, PairInv
<1>8. DistinctInv'
  <2>1. \A s \in sent : s.num # s0.num
    BY <1>1 DEF Inv, DistinctInv
  <2> QED BY <1>1, <1>3, <2>1 DEF Inv, DistinctInv, Holds
<1>9. QueueInv'
  BY <1>1, <1>3 DEF Inv, QueueInv
<1>10. DebtInv'
  <2>1. call[c].pc = "waiting" => call[c].act <= now
    BY <1>1
  <2>2. credit < Interval - Timeout => call[c].act # now - credit
    BY <1>1, <1>2, Parameters
  <2> QED BY <1>1, <1>3, <2>2 DEF Inv, DebtInv
<1> QED BY <1>4, <1>6, <1>7, <1>8, <1>9, <1>10 DEF Inv

(* A request ends: its grant is gone, and the limiter unchanged.           *)
LEMMA EndInv ==
  ASSUME Inv, NEW c \in Callers, NEW outcome \in {"answered", "failed"},
         call' = [call EXCEPT ![c] = Ended(outcome)], sent' = sent, now' = now,
         UNCHANGED limiter,
         call[c].pc = "waiting" => call[c].act <= now \/ call[c].num # used
  PROVE  Inv'
<1>1. /\ call' \in [Callers -> [pc : {"waiting", "admitted", "sent", "answered", "failed"},
                                act : 0..MaxTime, deadline : 0..MaxTime, num : Nat]]
      /\ call'[c].pc \in {"answered", "failed"} /\ ~ Holds(c)' /\ ~ Open(c)'
      /\ \A d \in Callers \ {c} : call'[d] = call[d]
      /\ credit' = credit /\ lastEvent' = lastEvent /\ used' = used
  <2>1. Ended(outcome) \in [pc : {"waiting", "admitted", "sent", "answered", "failed"},
                            act : 0..MaxTime, deadline : 0..MaxTime, num : Nat]
        /\ Ended(outcome).pc = outcome
    BY Parameters DEF Ended
  <2> QED BY <2>1 DEF Inv, TypeOK, Holds, Open, limiter
<1>2. TypeOK'
  BY <1>1 DEF Inv, TypeOK
<1>3. Grants' \subseteq Grants
  BY <1>1 DEF Grants, Holds
<1>4. CallInv' /\ DistinctInv' /\ QueueInv'
  BY <1>1 DEF Inv, CallInv, DistinctInv, QueueInv, Holds, Open
<1>5. LevelInv' /\ PairInv'
  BY <1>1, <1>3 DEF Inv, LevelInv, PairInv
<1>6. DebtInv'
  <2>1. SUFFICES ASSUME credit < Interval - Timeout
                 PROVE  \E d \in Callers : call'[d].pc = "waiting" /\ call'[d].act = now - credit
    BY <1>1 DEF DebtInv
  <2>2. PICK d \in Callers : call[d].pc = "waiting" /\ call[d].act = now - credit
    BY <2>1 DEF Inv, DebtInv
  <2>3. /\ now \in Int /\ credit \in Int /\ used \in Nat /\ call[d].act \in Int /\ call[d].num \in Nat
    BY CallTypes, Parameters DEF Inv
  <2>4. call[d].act > now
    BY <2>1, <2>2, <2>3, Parameters
  <2>5. lastEvent = call[d].act /\ (used - call[d].num) * Interval = 0
    <3>1. /\ lastEvent = now - credit
          /\ lastEvent = call[d].act + (used - call[d].num) * Interval
      BY <2>2, <2>3, <2>4 DEF Inv, QueueInv
    <3> DEFINE behind == (used - call[d].num) * Interval
    <3>2. behind \in Int
      BY <2>3, Times
    <3>3. lastEvent = call[d].act /\ lastEvent = call[d].act + behind
      BY <2>2, <3>1
    <3> HIDE DEF behind
    <3>4. behind = 0
      BY <2>3, <3>2, <3>3
    <3> QED BY <3>3, <3>4 DEF behind
  <2>6. call[d].num = used
    <3>1. CASE used - call[d].num = 0
      BY <2>3, <3>1
    <3>2. CASE used - call[d].num # 0
      BY <2>3, <2>5, <3>2, RateAssumption
    <3> QED BY <3>1, <3>2
  <2>7. d # c
    BY <2>2, <2>3, <2>4, <2>6
  <2> QED BY <1>1, <2>2, <2>7
<1> QED BY <1>2, <1>4, <1>5, <1>6 DEF Inv

(* Only the newest reservation is given back, and wholly.                  *)
LEMMA GivesBackNewest ==
  ASSUME Inv, NEW c \in Callers, call[c].pc = "waiting", call[c].act >= now
  PROVE  /\ GivesBack(c) <=> call[c].num = used
         /\ GivesBack(c) => /\ Returned(c) = Interval /\ lastEvent = call[c].act
                            /\ credit + Interval <= Burst * Interval
<1> DEFINE behind == (used - call[c].num) * Interval
<1>1. /\ now \in Int /\ credit \in Int /\ used \in Nat /\ call[c].act \in Int /\ lastEvent \in Int
      /\ call[c].num \in 1..used
  BY CallTypes, Parameters DEF Inv, CallInv, Holds
<1>2. lastEvent = call[c].act + behind /\ lastEvent = now - credit
  BY DEF Inv, QueueInv
<1>3. behind \in Int
  BY <1>1, Times
<1>4. CASE call[c].num = used
  <2>1. behind = 0
    BY <1>1, <1>4, RateAssumption
  <2> HIDE DEF behind
  <2> QED BY <1>1, <1>2, <1>4, <2>1, Parameters DEF GivesBack, Returned
<1>5. CASE call[c].num # used
  <2>1. PICK k \in Nat : used - call[c].num = k + 1
    <3>1. used - call[c].num - 1 \in Nat /\ used - call[c].num = (used - call[c].num - 1) + 1
      BY <1>1, <1>5
    <3> QED BY <3>1
  <2>2. behind = k * Interval + Interval /\ k * Interval >= 0 /\ k * Interval \in Int
    BY <2>1, Times
  <2> DEFINE more == k * Interval
  <2>3. behind = more + Interval /\ more >= 0 /\ more \in Int
    BY <2>2
  <2> HIDE DEF behind, more
  <2> QED BY <1>1, <1>2, <1>5, <2>3, Parameters DEF GivesBack, Returned
<1> QED BY <1>4, <1>5

(* The newest reservation is given back: its token can be taken again.     *)
LEMMA CancelInv ==
  ASSUME Inv, NEW c \in Callers, Leave(c),
         call[c].pc = "waiting", call[c].act >= now, call[c].num = used, CancelReservation(c)
  PROVE  Inv'
<1>1. /\ call' = [call EXCEPT ![c] = Ended("failed")] /\ now' = now /\ sent' = sent
      /\ Returned(c) = Interval /\ lastEvent = call[c].act /\ credit + Interval <= Burst * Interval
      /\ lastEvent = now - credit /\ GivesBack(c)
  BY GivesBackNewest DEF Leave, Inv, QueueInv
<1>2. /\ now \in 0..MaxTime /\ credit \in -Timeout..Burst * Interval /\ used \in Nat
      /\ lastEvent \in 0..MaxTime /\ call[c].num \in 1..used
  BY CallTypes DEF Inv, CallInv, Holds
<1>3. credit' = credit + Interval /\ used' = used - 1
      /\ lastEvent' = IF lastEvent - Interval >= now THEN lastEvent - Interval ELSE lastEvent
  BY <1>1, <1>2, Parameters DEF CancelReservation, Smaller
<1>4. /\ call' \in [Callers -> [pc : {"waiting", "admitted", "sent", "answered", "failed"},
                                act : 0..MaxTime, deadline : 0..MaxTime, num : Nat]]
      /\ call'[c].pc = "failed" /\ ~ Holds(c)' /\ ~ Open(c)'
      /\ \A d \in Callers \ {c} : call'[d] = call[d]
  <2>1. Ended("failed") \in [pc : {"waiting", "admitted", "sent", "answered", "failed"},
                             act : 0..MaxTime, deadline : 0..MaxTime, num : Nat]
        /\ Ended("failed").pc = "failed"
    BY Parameters DEF Ended
  <2> QED BY <1>1, <2>1 DEF Inv, TypeOK, Holds, Open
<1>5. \A d \in Callers \ {c} : Holds(d) => call[d].num \in 1..used - 1
  BY <1>2, CallTypes DEF Inv, CallInv, DistinctInv, Holds
<1>6. \A s \in sent : s.num \in 1..used - 1
  BY <1>2 DEF Inv, CallInv, DistinctInv, Holds, TypeOK
<1>7. Grants' \subseteq Grants
  BY <1>1, <1>4 DEF Grants, Holds
<1>8. TypeOK'
  BY <1>1, <1>2, <1>3, <1>4, Parameters DEF Inv, TypeOK
<1>9. CallInv'
  <2>1. \A d \in Callers : /\ Holds(d)' => call'[d].num \in 1..used'
                           /\ Open(d)' => call'[d].deadline <= call'[d].act + Timeout /\ now' <= call'[d].deadline
                           /\ call'[d].pc = "admitted" => call'[d].act <= now'
    <3> SUFFICES ASSUME NEW d \in Callers, d # c
                 PROVE /\ Holds(d)' => call'[d].num \in 1..used'
                       /\ Open(d)' => call'[d].deadline <= call'[d].act + Timeout /\ now' <= call'[d].deadline
                       /\ call'[d].pc = "admitted" => call'[d].act <= now'
      BY <1>4
    <3> QED BY <1>1, <1>3, <1>4, <1>5 DEF Inv, CallInv, Holds, Open
  <2>2. \A s \in sent' : s.num \in 1..used' /\ s.act <= s.at /\ s.at < s.act + Timeout
    BY <1>1, <1>3, <1>6 DEF Inv, CallInv
  <2> QED BY <2>1, <2>2 DEF CallInv
<1>10. LevelInv'
  <2> SUFFICES ASSUME NEW g \in Grants'
               PROVE  now' - credit' >= g.act - Burst * Interval + (used' - g.num + 1) * Interval
    BY DEF LevelInv
  <2>1. /\ now - credit >= g.act - Burst * Interval + (used - g.num + 1) * Interval
        /\ g.act \in Int /\ g.num \in Nat
    BY <1>7, GrantRange DEF Inv, LevelInv
  <2>2. used - g.num + 1 \in Int /\ used' - g.num + 1 = (used - g.num + 1) - 1
    BY <1>2, <1>3, <2>1
  <2>3. (used' - g.num + 1) * Interval = (used - g.num + 1) * Interval - Interval
        /\ (used - g.num + 1) * Interval \in Int
    BY <2>2, Times
  <2> QED BY <1>1, <1>2, <1>3, <2>1, <2>3, Parameters
<1>11. PairInv'
  BY <1>7 DEF Inv, PairInv
<1>12. DistinctInv'
  BY <1>1, <1>4 DEF Inv, DistinctInv, Holds
<1>13. QueueInv'
  <2> SUFFICES ASSUME NEW d \in Callers, call'[d].pc = "waiting", call'[d].act >= now'
               PROVE  /\ lastEvent' = now' - credit'
                      /\ lastEvent' = call'[d].act + (used' - call'[d].num) * Interval
    BY DEF QueueInv
  <2>1. d # c /\ call'[d] = call[d] /\ Holds(d)
    BY <1>4 DEF Holds
  <2>2. call[d].num \in 1..used - 1 /\ call[d].act \in Int /\ call[d].act >= now
    BY <1>1, <1>5, <2>1, CallTypes DEF Inv
  <2> DEFINE behind == (used - 1 - call[d].num) * Interval
  <2>3. used - 1 - call[d].num \in Int /\ used - 1 - call[d].num >= 0
        /\ used - call[d].num = (used - 1 - call[d].num) + 1
        /\ used' - call'[d].num = used - 1 - call[d].num
    BY <1>2, <1>3, <2>1, <2>2
  <2>4. behind \in Int /\ behind >= 0 /\ (used - call[d].num) * Interval = behind + Interval
    BY <2>3, Times
  <2>5. (used' - call'[d].num) * Interval = behind
    BY <2>3
  <2>6. lastEvent = call[d].act + (behind + Interval)
    BY <2>1, <2>2, <2>4 DEF Inv, QueueInv
  <2> HIDE DEF behind
  <2>7. lastEvent - Interval >= now /\ lastEvent' = lastEvent - Interval
    BY <1>2, <1>3, <2>2, <2>4, <2>6, Parameters
  <2>8. lastEvent' = call[d].act + behind
    BY <1>2, <2>2, <2>4, <2>6, <2>7, Parameters
  <2>9. lastEvent - Interval = now - (credit + Interval)
    BY <1>1, <1>2, Parameters
  <2>10. lastEvent' = now' - credit'
    BY <1>1, <1>3, <2>7, <2>9
  <2> QED BY <2>1, <2>5, <2>8, <2>10
<1>14. DebtInv'
  BY <1>2, <1>3, Parameters DEF DebtInv
<1> QED BY <1>8, <1>9, <1>10, <1>11, <1>12, <1>13, <1>14 DEF Inv

LEMMA LeaveInv ==
  ASSUME Inv, NEW c \in Callers, Leave(c)
  PROVE  Inv'
<1>1. call' = [call EXCEPT ![c] = Ended("failed")] /\ now' = now /\ sent' = sent
  BY DEF Leave
<1>2. CASE call[c].pc = "waiting" /\ call[c].act >= now /\ CancelReservation(c)
  <2>1. CASE call[c].num = used
    BY <1>2, <2>1, CancelInv
  <2>2. CASE call[c].num # used
    <3>1. UNCHANGED limiter
      BY <1>2, <2>2, GivesBackNewest DEF CancelReservation
    <3> QED BY <1>1, <2>2, <3>1, EndInv
  <2> QED BY <2>1, <2>2
<1>3. CASE (call[c].pc = "waiting" => call[c].act <= now) /\ UNCHANGED limiter
  BY <1>1, <1>3, EndInv
<1> QED BY <1>2, <1>3 DEF Leave

(* Time passes.                                                            *)
LEMMA TickInv ==
  ASSUME Inv, Tick
  PROVE  Inv'
<1>1. /\ now' = now + 1 /\ now < MaxTime /\ lastEvent' = lastEvent /\ used' = used
      /\ call' = call /\ sent' = sent
      /\ \A c \in Callers : Open(c) => now < call[c].deadline
  BY DEF Tick
<1>2. /\ now \in 0..MaxTime /\ credit \in -Timeout..Burst * Interval /\ used \in Nat
      /\ lastEvent \in 0..MaxTime
  BY DEF Inv, TypeOK
<1>3. credit' \in -Timeout..Burst * Interval /\ now' - credit' >= now - credit
      /\ (credit < Burst * Interval => now' - credit' = now - credit)
  BY <1>1, <1>2, Parameters DEF Tick, Smaller
<1>4. TypeOK'
  BY <1>1, <1>2, <1>3, Parameters DEF Inv, TypeOK
<1>5. Grants' = Grants
  BY <1>1 DEF Grants, Holds
<1>6. CallInv'
  <2>1. \A c \in Callers : call[c].deadline \in Int /\ call[c].act \in Int
    BY CallTypes, Parameters DEF Inv
  <2> QED BY <1>1, <1>2, <2>1, Parameters DEF Inv, CallInv, Holds, Open
<1>7. LevelInv'
  <2> SUFFICES ASSUME NEW g \in Grants
               PROVE  now' - credit' >= g.act - Burst * Interval + (used' - g.num + 1) * Interval
    BY <1>5 DEF LevelInv
  <2>1. /\ now - credit >= g.act - Burst * Interval + (used - g.num + 1) * Interval
        /\ g.act \in Int /\ g.num \in Nat
    BY GrantRange, Parameters DEF Inv, LevelInv
  <2> DEFINE since == (used - g.num + 1) * Interval
  <2>2. since \in Int /\ now - credit >= g.act - Burst * Interval + since
    BY <1>2, <2>1, Times
  <2>3. (used' - g.num + 1) * Interval = since
    BY <1>1
  <2> DEFINE full == Burst * Interval
             before == now - credit
             after == now' - credit'
  <2>4. full \in Int /\ before \in Int /\ after \in Int
    BY <1>1, <1>2, <1>3, Parameters
  <2>5. before >= g.act - full + since /\ after >= before
    BY <1>3, <2>2
  <2> HIDE DEF since, full, before, after
  <2>6. after >= g.act - full + since
    BY <2>1, <2>2, <2>4, <2>5
  <2> QED BY <2>3, <2>6 DEF full, after
<1>8. PairInv' /\ DistinctInv'
  BY <1>1, <1>5 DEF Inv, PairInv, DistinctInv, Holds
<1>9. QueueInv'
  <2> SUFFICES ASSUME NEW c \in Callers, call[c].pc = "waiting", call[c].act >= now'
               PROVE  /\ lastEvent' = now' - credit'
                      /\ lastEvent' = call[c].act + (used' - call[c].num) * Interval
    BY <1>1 DEF QueueInv
  <2>1. call[c].act \in Int /\ call[c].act > now /\ call[c].num \in 1..used
    BY <1>1, <1>2, CallTypes DEF Inv, CallInv, Holds
  <2>2. lastEvent = now - credit /\ lastEvent = call[c].act + (used - call[c].num) * Interval
    BY <1>1, <1>2, <2>1 DEF Inv, QueueInv
  <2> DEFINE behind == (used - call[c].num) * Interval
  <2>3. behind \in Int /\ behind >= 0
    BY <1>2, <2>1, Times
  <2>4. lastEvent = call[c].act + behind
    BY <2>2
  <2> HIDE DEF behind
  <2>5. credit < 0
    BY <1>2, <2>1, <2>2, <2>3, <2>4
  <2>6. (used' - call[c].num) * Interval = behind
    BY <1>1 DEF behind
  <2>7. now' - credit' = now - credit
    BY <1>2, <1>3, <2>5, Parameters
  <2> QED BY <1>1, <2>2, <2>4, <2>6, <2>7
<1>10. DebtInv'
  <2> SUFFICES ASSUME credit' < Interval - Timeout
               PROVE  \E c \in Callers : call[c].pc = "waiting" /\ call[c].act = now' - credit'
    BY <1>1 DEF DebtInv
  <2>1. credit' < 0 /\ credit' \in Int /\ credit \in Int /\ now \in Int
    BY <1>2, <1>3, Parameters
  <2>2. credit' = Smaller(credit + 1, Burst * Interval)
    BY DEF Tick
  <2>3. credit' = credit + 1
    BY <2>1, <2>2, Parameters DEF Smaller
  <2>4. now' - credit' = now - credit /\ credit < Interval - Timeout
    BY <1>1, <2>1, <2>3, Parameters
  <2> QED BY <2>4 DEF Inv, DebtInv
<1> QED BY <1>4, <1>6, <1>7, <1>8, <1>9, <1>10 DEF Inv

(* A refused request took nothing.                                         *)
LEMMA RefuseInv ==
  ASSUME Inv, NEW c \in Callers, Refuse(c)
  PROVE  Inv'
BY EndInv DEF Refuse, Open

LEMMA NextInv == Inv /\ [Next]_vars => Inv'
<1> SUFFICES ASSUME Inv, [Next]_vars PROVE Inv'
  OBVIOUS
<1>1. ASSUME NEW c \in Callers, Start(c) PROVE Inv'
  BY <1>1, StartInv
<1>2. ASSUME NEW c \in Callers, Refuse(c) PROVE Inv'
  BY <1>2, RefuseInv
<1>3. ASSUME NEW c \in Callers, Send(c) PROVE Inv'
  BY <1>3, SendInv
<1>4. ASSUME NEW c \in Callers, HangUp(c) PROVE Inv'
  BY <1>4, LeaveInv DEF HangUp
<1>5. ASSUME NEW c \in Callers, Expire(c) PROVE Inv'
  BY <1>5, LeaveInv DEF Expire
<1>6. ASSUME NEW c \in Callers, Respond(c) PROVE Inv'
  BY <1>6, EndInv DEF Respond
<1>7. CASE Tick
  BY <1>7, TickInv
<1>8. CASE UNCHANGED vars
  BY <1>8 DEF vars, limiter, Inv, TypeOK, CallInv, LevelInv, PairInv, DistinctInv, QueueInv, DebtInv,
              Grants, Holds, Open
<1> QED BY <1>1, <1>2, <1>3, <1>4, <1>5, <1>6, <1>7, <1>8 DEF Next

-----------------------------------------------------------------------------
LEMMA InvHolds == Spec => []Inv
<1>1. Init => Inv
  BY InitInv
<1>2. Inv /\ [Next]_vars => Inv'
  BY NextInv
<1> QED BY <1>1, <1>2, PTL DEF Spec

(* The limiter never promises more than a request may wait for, nor holds  *)
(* more than its burst.                                                    *)
THEOREM TypeCorrect == Spec => []TypeOK
BY InvHolds, PTL DEF Inv

(* Requests leave no faster than the bucket refills, whatever was refused, *)
(* cancelled or late.                                                      *)
THEOREM RequestsArePaced == Spec => []Paced
<1>1. Inv => Paced
  <2> SUFFICES ASSUME Inv PROVE Paced
    OBVIOUS
  <2>1. \A s, t \in sent : s.num <= t.num =>
          (t.num - s.num + 1) * Interval <= Burst * Interval + t.act - s.act
    <3> SUFFICES ASSUME NEW s \in sent, NEW t \in sent, s.num <= t.num
                 PROVE  (t.num - s.num + 1) * Interval <= Burst * Interval + t.act - s.act
      OBVIOUS
    <3> DEFINE g == [num |-> s.num, act |-> s.act]
               h == [num |-> t.num, act |-> t.act]
    <3>1. g \in Grants /\ h \in Grants
      BY DEF Grants
    <3> QED BY <3>1 DEF Inv, PairInv
  <2> QED BY <2>1 DEF Inv, DistinctInv, Paced
<1> QED BY <1>1, InvHolds, PTL

(* A tool call that runs alone is never refused a token in time.           *)
THEOREM LoneCallerIsAdmitted == Spec => []LoneCallerAdmitted
<1>1. Inv => LoneCallerAdmitted
  BY Parameters DEF Inv, TypeOK, DebtInv, LoneCallerAdmitted, Admits, Delay, Larger
<1> QED BY <1>1, InvHolds, PTL

(* A nonempty set of numbers has a smallest one.                           *)
LEMMA Smallest ==
  ASSUME NEW S \in SUBSET Nat, S # {}
  PROVE  \E m \in S : \A n \in S : m <= n
<1>1. PICK m \in S : \A n \in S : ~ (<<n, m>> \in OpToRel(<, Nat))
  BY NatLessThanWellFounded, WFMin
<1>2. \A n \in S : ~ (n < m)
  BY <1>1 DEF OpToRel
<1> QED BY <1>2

(* No window of the length YNAB counts in sees more requests than it       *)
(* accepts, for any rate and burst that fit the limit.                     *)
THEOREM QuotaIsKept == Spec => []QuotaKept
<1>1. Inv => QuotaKept
  <2> SUFFICES ASSUME Inv, NEW from \in 0..MaxTime
               PROVE  Cardinality({s \in sent : s.at \in from..from + Window}) <= Quota
    BY DEF QuotaKept
  <2> DEFINE S == {s \in sent : s.at \in from..from + Window}
             nums == {s.num : s \in S}
  <2>1. CASE S = {}
    BY <2>1, FS_EmptySet, RateAssumption
  <2>2. CASE S # {}
    <3>1. \A s \in S : s.num \in Nat /\ s.act \in Int /\ s.at \in Int
                       /\ s.act <= s.at /\ s.at < s.act + Timeout
                       /\ from <= s.at /\ s.at <= from + Window
      BY DEF Inv, TypeOK, CallInv
    <3>2. PICK first \in S : \A s \in S : first.num <= s.num
      <4>1. nums \in SUBSET Nat /\ nums # {}
        BY <2>2, <3>1
      <4>2. PICK m \in nums : \A n \in nums : m <= n
        BY <4>1, Smallest
      <4> QED BY <4>2
    <3>3. first.num \in Nat
      BY <3>1
    <3> DEFINE T == first.num..first.num + Quota - 1
    <3>4. \A s \in S : s.num \in T
      <4> SUFFICES ASSUME NEW s \in S PROVE s.num \in T
        OBVIOUS
      <4> DEFINE n == s.num - first.num
                 g == [num |-> first.num, act |-> first.act]
                 h == [num |-> s.num, act |-> s.act]
      <4>1. n \in Nat /\ s.num \in Nat
        BY <3>1, <3>2
      <4>2. g \in Grants /\ h \in Grants
        BY DEF Grants
      <4>3. (s.num - first.num + 1) * Interval <= Burst * Interval + s.act - first.act
        BY <3>2, <4>2 DEF Inv, PairInv
      <4>4. s.act - first.act < Window + Timeout
        BY <3>1, RateAssumption
      <4>5. CASE n >= Quota
        <5>1. PICK k \in Nat : n = Quota + k
          <6>1. n - Quota \in Nat /\ n = Quota + (n - Quota)
            BY <4>1, <4>5, RateAssumption
          <6> QED BY <6>1
        <5>2. s.num - first.num + 1 = (Quota + 1) + k
          BY <3>3, <4>1, <5>1, RateAssumption
        <5>3. (s.num - first.num + 1) * Interval = (Quota + 1) * Interval + k * Interval
              /\ k * Interval >= 0 /\ k * Interval \in Int /\ (Quota + 1) * Interval \in Int
          BY <5>2, RateAssumption
        <5> DEFINE more == k * Interval
                   full == (Quota + 1) * Interval
                   cap == Burst * Interval
        <5>4. full + more <= cap + s.act - first.act /\ cap + Window + Timeout <= full
              /\ more >= 0 /\ more \in Int /\ full \in Int /\ cap \in Int
          BY <4>3, <5>3, QuotaAssumption, Parameters
        <5> HIDE DEF more, full, cap
        <5> QED BY <3>1, <4>4, <5>4, RateAssumption
      <4> QED BY <3>3, <4>1, <4>5, RateAssumption
    <3>5. IsFiniteSet(T) /\ Cardinality(T) = Quota
      <4> DEFINE last == first.num + Quota - 1
      <4>1. first.num \in Int /\ last \in Int /\ Quota \in Nat
        BY <3>3, RateAssumption
      <4>2. /\ IsFiniteSet(first.num..last)
            /\ Cardinality(first.num..last) = IF first.num > last THEN 0 ELSE last - first.num + 1
        BY <4>1, FS_Interval
      <4>3. (IF first.num > last THEN 0 ELSE last - first.num + 1) = Quota
        BY <4>1
      <4> QED BY <4>2, <4>3
    <3> DEFINE number == [s \in S |-> s.num]
    <3>6. number \in Injection(S, T)
      <4>1. number \in [S -> T]
        BY <3>4
      <4>2. \A s, t \in S : number[s] = number[t] => s = t
        BY DEF Inv, DistinctInv
      <4> QED BY <4>1, <4>2 DEF Injection, IsInjective
    <3> HIDE DEF T, number, S
    <3>7. Cardinality(S) <= Cardinality(T)
      BY <3>5, <3>6, FS_Injection
    <3> QED BY <3>5, <3>7 DEF S
  <2> QED BY <2>1, <2>2
<1> QED BY <1>1, InvHolds, PTL

(* For any number of callers and whatever is cancelled, no two requests    *)
(* take one token, requests leave no faster than the bucket refills, and   *)
(* no window sees more of them than the quota.                             *)
THEOREM RateIsKept == Spec => []RateKept
BY RequestsArePaced, QuotaIsKept, PTL DEF RateKept
=============================================================================
