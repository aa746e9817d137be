-------------------------- MODULE RateLimitedClient --------------------------
(***************************************************************************)
(* The HTTP client every handler shares: concurrent tool calls issue their *)
(* requests through one token bucket, under one timeout per request.       *)
(* http.Client.Timeout is the deadline of the request's context, so the    *)
(* time spent waiting for the limiter counts against it, and the limiter   *)
(* refuses at once a request whose turn would come after the deadline.     *)
(*                                                                         *)
(* Time is a number of ticks.  A token takes Interval ticks to refill, so  *)
(* the bucket is counted in ticks too: credit is what it holds, negative   *)
(* when it has promised tokens it does not hold yet.                       *)
(***************************************************************************)
EXTENDS Integers, FiniteSets

CONSTANTS
  Callers,    \* tool calls running concurrently
  Interval,   \* ticks per token (defaultRate, 20 s)
  Burst,      \* tokens the bucket holds (defaultBurst, 10)
  Timeout,    \* requestTimeout (30 s)
  Window,     \* the window of YNAB's limit (an hour)
  Quota,      \* requests YNAB accepts in a window (200)
  MaxTime     \* bound on the clock

ASSUME RateAssumption ==
  /\ Interval \in Nat \ {0} /\ Burst \in Nat \ {0} /\ Timeout \in Nat /\ Window \in Nat
  /\ Quota \in Nat /\ MaxTime \in Nat
  /\ Interval <= Timeout

(* The rate and the burst fit YNAB's limit, with a timeout to spare: a     *)
(* request that was let through may be that late.                          *)
ASSUME QuotaAssumption ==
  Burst * Interval + Window + Timeout <= (Quota + 1) * Interval

VARIABLES
  now,
  credit, lastEvent,   \* the limiter: its tokens and the time of its last grant
  call,                \* the request each caller has in progress
  used,                \* tokens taken and not given back
  sent                 \* the requests that left, with the time they reached YNAB

limiter == <<credit, lastEvent, used>>
vars == <<now, limiter, call, sent>>

Larger(a, b) == IF a > b THEN a ELSE b
Smaller(a, b) == IF a < b THEN a ELSE b

(* The outcome of a caller's last request, if it has none in progress.     *)
Ended(outcome) == [pc |-> outcome, act |-> 0, deadline |-> 0, num |-> 0]

(* waiting for its token, on its way, or at YNAB                           *)
Open(c) == call[c].pc \in {"waiting", "admitted", "sent"}

Init ==
  /\ now = 0
  /\ credit = Burst * Interval /\ lastEvent = 0 /\ used = 0
  /\ call = [c \in Callers |-> Ended("answered")]
  /\ sent = {}

-----------------------------------------------------------------------------
(* Mutated forms, for mutation testing.                                    *)

AnyDelay(delay) == TRUE

WholeToken(c) == Interval

NothingReturned(c) == 0

ExpireWaiting(c) ==
  /\ call[c].pc = "waiting" /\ now = call[c].deadline
  /\ call' = [call EXCEPT ![c] = Ended("failed")]
  /\ UNCHANGED <<now, limiter, sent>>

TickTwice ==
  /\ now < MaxTime
  /\ \A c \in Callers : Open(c) => now < call[c].deadline
  /\ now' = now + 1
  /\ credit' = Smaller(credit + 2, Burst * Interval)
  /\ UNCHANGED <<lastEvent, used, call, sent>>

-----------------------------------------------------------------------------
(* How long the next request would have to wait for its token.             *)
Delay == Larger(0, Interval - credit)

Admits(delay) == delay <= Timeout

(* RoundTrip: Wait reserves a token, in the order of arrival.  A tool call *)
(* issues its requests one after the other.                                *)
Start(c) ==
  /\ ~ Open(c)
  /\ now + Timeout <= MaxTime
  /\ Admits(Delay)
  /\ credit' = credit - Interval
  /\ lastEvent' = now + Delay
  /\ used' = used + 1
  /\ call' = [call EXCEPT ![c] = [pc |-> IF Delay = 0 THEN "admitted" ELSE "waiting", act |-> now + Delay,
                                  deadline |-> now + Timeout, num |-> used + 1]]
  /\ UNCHANGED <<now, sent>>

(* "rate limit wait": the turn would come too late, and nothing is taken.  *)
Refuse(c) ==
  /\ ~ Open(c)
  /\ now + Timeout <= MaxTime
  /\ ~ Admits(Delay)
  /\ call' = [call EXCEPT ![c] = Ended("failed")]
  /\ UNCHANGED <<now, limiter, sent>>

(* The request reaches YNAB, at any time after its turn and before its     *)
(* deadline.                                                               *)
Send(c) ==
  /\ call[c].pc \in {"waiting", "admitted"}
  /\ call[c].act <= now /\ now < call[c].deadline
  /\ call' = [call EXCEPT ![c].pc = "sent"]
  /\ sent' = sent \cup {[num |-> call[c].num, act |-> call[c].act, at |-> now]}
  /\ UNCHANGED <<now, limiter>>

(* Reservation.Cancel gives back what later reservations do not build on.  *)
Returned(c) == Interval - (lastEvent - call[c].act)

GivesBack(c) == Returned(c) > 0

CancelReservation(c) ==
  IF GivesBack(c)
    THEN /\ credit' = Smaller(credit + Returned(c), Burst * Interval)
         /\ lastEvent' = IF call[c].act = lastEvent /\ lastEvent - Interval >= now
                           THEN lastEvent - Interval ELSE lastEvent
         /\ used' = used - 1
    ELSE UNCHANGED limiter

(* A request that gives up while it waits cancels its reservation; when    *)
(* its turn comes at this very moment, either may win.                     *)
Leave(c) ==
  /\ Open(c)
  /\ \/ call[c].pc = "waiting" /\ call[c].act >= now /\ CancelReservation(c)
     \/ (call[c].pc = "waiting" => call[c].act <= now) /\ UNCHANGED limiter
  /\ call' = [call EXCEPT ![c] = Ended("failed")]
  /\ UNCHANGED <<now, sent>>

(* The caller's context is cancelled: the MCP client hung up.              *)
HangUp(c) == Leave(c)

(* The deadline passes.                                                    *)
Expire(c) == now = call[c].deadline /\ Leave(c)

(* doJSONWithBody: a 2xx answer within the cap that decodes is a result;   *)
(* any other status, a longer body, or one that does not decode, is not.   *)
Respond(c) ==
  /\ call[c].pc = "sent"
  /\ \E outcome \in {"answered", "failed"} : call' = [call EXCEPT ![c] = Ended(outcome)]
  /\ UNCHANGED <<now, limiter, sent>>

Tick ==
  /\ now < MaxTime
  /\ \A c \in Callers : Open(c) => now < call[c].deadline
  /\ now' = now + 1
  /\ credit' = Smaller(credit + 1, Burst * Interval)
  /\ UNCHANGED <<lastEvent, used, call, sent>>

Next ==
  \/ \E c \in Callers :
       Start(c) \/ Refuse(c) \/ Send(c) \/ HangUp(c) \/ Expire(c) \/ Respond(c)
  \/ Tick

Spec == Init /\ [][Next]_vars

(* Time passes, and timers fire.                                           *)
FairSpec == Spec /\ WF_vars(Tick) /\ \A c \in Callers : WF_vars(Expire(c))

-----------------------------------------------------------------------------
(* Properties                                                              *)

(* The variables have their types; a reservation is at most a request's    *)
(* timeout into debt.                                                      *)
TypeOK ==
  /\ now \in 0..MaxTime
  /\ credit \in -Timeout..Burst * Interval
  /\ lastEvent \in 0..MaxTime
  /\ used \in Nat
  /\ call \in [Callers -> [pc : {"waiting", "admitted", "sent", "answered", "failed"},
                           act : 0..MaxTime, deadline : 0..MaxTime, num : Nat]]
  /\ sent \subseteq [num : Nat, act : 0..MaxTime, at : 0..MaxTime]

(* Whatever is cancelled, refused or late, no window sees more requests    *)
(* than YNAB accepts: client.go budgets for "well under the 200/hr         *)
(* ceiling".                                                               *)
QuotaKept ==
  \A from \in 0..MaxTime :
    Cardinality({s \in sent : s.at \in from..from + Window}) <= Quota

Holds(c) == call[c].pc \in {"waiting", "admitted"}

(* No two requests take the same token, and counting from any request that *)
(* left, those after it are let through no faster than the bucket refills, *)
(* also when reservations between them were cancelled.                     *)
Paced ==
  /\ \A c \in Callers : Holds(c) =>
       /\ \A d \in Callers \ {c} : Holds(d) => call[d].num # call[c].num
       /\ \A s \in sent : s.num # call[c].num
  /\ \A s, t \in sent : s.num <= t.num =>
       (t.num - s.num + 1) * Interval <= Burst * Interval + t.act - s.act

(* The rate kept, from request to request and in any window.               *)
RateKept == Paced /\ QuotaKept

(* Only competition makes the limiter refuse: when no other request waits, *)
(* its turn comes before its deadline, so a tool call that runs alone is   *)
(* never cut short between two of its requests, however many it makes and  *)
(* whichever requests gave up before.                                      *)
LoneCallerAdmitted ==
  (\A c \in Callers : call[c].pc # "waiting") => Admits(Delay)

(* Every request ends, with a result or without.                           *)
EveryRequestEnds ==
  \A c \in Callers : Open(c) ~> ~ Open(c)
=============================================================================
