---------------------------- MODULE CategoryWrites ---------------------------
(***************************************************************************)
(* update_category_budgeted: set the assigned amount of one category in    *)
(* one month, which other calls and other YNAB clients set as well.        *)
(*                                                                         *)
(*   Begin   the call passes the env gate and its arguments are well       *)
(*           formed (Refuse: they are not);                                *)
(*   Read    the GET of the before snapshot is answered;                   *)
(*   Check   the cap is applied to the difference;                         *)
(*   Answer  the user is shown the difference and answers, at any time;    *)
(*   Apply   YNAB carries the PATCH out;                                   *)
(*   Report  its response arrives and the call returns both snapshots;     *)
(*   Fail    a request ends in an error.  A PATCH that timed out may still *)
(*           be carried out later: `wire' holds the PATCHes YNAB may yet   *)
(*           see.                                                          *)
(*                                                                         *)
(* The balance in the snapshots, the category's name and the month's       *)
(* resolution from 'current' are left out.                                 *)
(***************************************************************************)
EXTENDS WriteGuards, Sequences, FiniteSets

CONSTANTS
  Calls,        \* invocations of the tool; a retry is another call
  Other,        \* any other client of YNAB
  Amounts,      \* the amounts callers pass
  MaxAmount,    \* YNAB stores amounts in -MaxAmount..MaxAmount
  MaxChanges    \* bound on the changes made by others

ASSUME CategoryAssumption ==
  /\ Other \notin Calls
  /\ Amounts \subseteq Int64
  /\ MaxAmount \in Nat /\ MaxAmount + Cap <= MaxInt
  /\ MaxChanges \in Nat

YnabAmounts == - MaxAmount..MaxAmount

VARIABLES
  budgeted,   \* the server: the category's assigned amount
  log,        \* history: the changes of budgeted, with their author
  wire,       \* calls whose PATCH YNAB may still carry out
  pc,         \* where each call is
  new,        \* in.NewBudgetedMilliunits
  override,   \* in.AmountOverrideMilliunits
  before,     \* beforeWire.Data.Category.Budgeted
  readAt,     \* history: the length of log when `before' was read
  answer,     \* how the elicitation ended
  result      \* the Before and After returned to the caller

server == <<budgeted, log, wire>>
input == <<new, override>>
vars == <<server, pc, input, before, readAt, answer, result>>

NoResult == [before |-> 0, after |-> 0]

Init ==
  /\ budgeted \in YnabAmounts
  /\ log = <<>>
  /\ wire = {}
  /\ pc = [c \in Calls |-> "new"]
  /\ new = [c \in Calls |-> 0]
  /\ override = [c \in Calls |-> 0]
  /\ before = [c \in Calls |-> 0]
  /\ readAt = [c \in Calls |-> 0]
  /\ answer = [c \in Calls |-> "none"]
  /\ result = [c \in Calls |-> NoResult]

Goto(c, there) == pc' = [pc EXCEPT ![c] = there]

Record(who, amount) ==
  /\ log' = Append(log, [by |-> who, from |-> budgeted, to |-> amount])
  /\ budgeted' = amount

-----------------------------------------------------------------------------
(* The server's steps.                                                     *)

(* The changes made on behalf of a call.                                   *)
Entries(c) == {i \in DOMAIN log : log[i].by = c}

ChangedByOthers == {i \in DOMAIN log : log[i].by = Other}

Change ==
  /\ Cardinality(ChangedByOthers) < MaxChanges
  /\ \E amount \in YnabAmounts \ {budgeted} : Record(Other, amount)
  /\ UNCHANGED <<wire, pc, input, before, readAt, answer, result>>

(* The PATCH is carried out, whether or not the call still waits for it.   *)
Apply(c) ==
  /\ c \in wire
  /\ new[c] \in YnabAmounts
  /\ Record(c, new[c])
  /\ wire' = wire \ {c}
  /\ IF pc[c] = "patching" THEN Goto(c, "patched") ELSE UNCHANGED pc
  /\ UNCHANGED <<input, before, readAt, answer, result>>

(* It never arrives, or YNAB refuses the amount.                           *)
Drop(c) ==
  /\ c \in wire
  /\ wire' = wire \ {c}
  /\ UNCHANGED <<budgeted, log, pc, input, before, readAt, answer, result>>

-----------------------------------------------------------------------------
(* Mutated forms, for mutation testing.                                    *)

GuessedSnapshot(c) == new[c]

TargetNotDelta(c) == new[c]

SendsAnyway(c, a) ==
  /\ pc[c] = "confirming"
  /\ answer' = [answer EXCEPT ![c] = a]
  /\ Goto(c, IF Proceeds(a) THEN "patching" ELSE "rejected")
  /\ wire' = wire \cup {c}
  /\ UNCHANGED <<budgeted, log, input, before, readAt, result>>

BeforeFromAfter(c) == new[c]

(* The client without its timeout: only an error reply ends a request.     *)
WaitsForever == {"reading", "patched"}

-----------------------------------------------------------------------------
(* The handler's steps.                                                    *)

Begin(c, n, o) ==
  /\ pc[c] = "new"
  /\ Goto(c, "reading")
  /\ new' = [new EXCEPT ![c] = n]
  /\ override' = [override EXCEPT ![c] = o]
  /\ UNCHANGED <<server, before, readAt, answer, result>>

Refuse(c) ==
  /\ pc[c] = "new"
  /\ Goto(c, "rejected")
  /\ UNCHANGED <<server, input, before, readAt, answer, result>>

Snapshot(c) == budgeted

Read(c) ==
  /\ pc[c] = "reading"
  /\ Goto(c, "checking")
  /\ before' = [before EXCEPT ![c] = Snapshot(c)]
  /\ readAt' = [readAt EXCEPT ![c] = Len(log)]
  /\ UNCHANGED <<server, input, answer, result>>

Delta(c) == Wrap(new[c] - before[c])

Check(c) ==
  /\ pc[c] = "checking"
  /\ Goto(c, IF CheckAmountBound(Delta(c), override[c]) THEN "confirming" ELSE "rejected")
  /\ UNCHANGED <<server, input, before, readAt, answer, result>>

Answer(c, a) ==
  /\ pc[c] = "confirming"
  /\ answer' = [answer EXCEPT ![c] = a]
  /\ IF Proceeds(a)
       THEN Goto(c, "patching") /\ wire' = wire \cup {c}
       ELSE Goto(c, "rejected") /\ UNCHANGED wire
  /\ UNCHANGED <<budgeted, log, input, before, readAt, result>>

ReportedBefore(c) == before[c]

(* The response shows the category as the PATCH left it.                   *)
Report(c) ==
  /\ pc[c] = "patched"
  /\ Goto(c, "done")
  /\ \E i \in Entries(c) :
       result' = [result EXCEPT ![c] = [before |-> ReportedBefore(c), after |-> log[i].to]]
  /\ UNCHANGED <<server, input, before, readAt, answer>>

(* The states in which a request can end in an error.                      *)
MayFail == {"reading", "patching", "patched"}

Fail(c) ==
  /\ pc[c] \in MayFail
  /\ Goto(c, IF pc[c] = "reading" THEN "rejected" ELSE "failed")
  /\ UNCHANGED <<server, input, before, readAt, answer, result>>

-----------------------------------------------------------------------------
Next ==
  \/ Change
  \/ \E c \in Calls :
       \/ \E n, o \in Amounts : Begin(c, n, o)
       \/ \E a \in Answers : Answer(c, a)
       \/ Apply(c) \/ Drop(c)
       \/ Refuse(c) \/ Read(c) \/ Check(c) \/ Report(c) \/ Fail(c)

Spec == Init /\ [][Next]_vars

(* http.Client.Timeout ends every request (Fail), and a handler goroutine  *)
(* that is not waiting runs on.  Nothing makes the user answer.            *)
FairSpec == Spec /\ \A c \in Calls : WF_vars(Read(c) \/ Check(c) \/ Report(c) \/ Fail(c))

-----------------------------------------------------------------------------
(* Properties                                                              *)

Ended == {"done", "rejected", "failed"}

(* The variables have their types.                                         *)
TypeOK ==
  /\ budgeted \in YnabAmounts
  /\ log \in Seq([by : Calls \cup {Other}, from : YnabAmounts, to : YnabAmounts])
  /\ wire \subseteq Calls
  /\ pc \in [Calls -> {"new", "reading", "checking", "confirming", "patching", "patched"} \cup Ended]
  /\ new \in [Calls -> Int64]
  /\ override \in [Calls -> Int64]
  /\ before \in [Calls -> YnabAmounts]
  /\ readAt \in [Calls -> Nat]
  /\ answer \in [Calls -> Answers \cup {"none"}]
  /\ result \in [Calls -> [before : Int64, after : Int64]]

(* The difference the user is shown, as an integer that does not wrap.     *)
Shown(c) == new[c] - before[c]

(* Whatever YNAB does on behalf of a call, now or later, the user accepted *)
(* (or could not be asked), and the true difference to the before snapshot *)
(* is within the cap, or the override repeats it as an int64.  In          *)
(* particular wraparound lets no large difference through unacknowledged.  *)
ChecksPrecedeEffects ==
  \A c \in Calls :
    c \in wire \/ Entries(c) # {} =>
      /\ answer[c] \in {"accept", "error"}
      /\ Abs(Shown(c)) <= Cap \/ override[c] = Wrap(Shown(c))

(* A call that reports success changed the category once, to what it says; *)
(* one that was rejected changed nothing and never will.                   *)
OutcomesTell ==
  \A c \in Calls :
    /\ pc[c] = "done" =>
         \E i \in DOMAIN log :
           Entries(c) = {i} /\ log[i].to = result[c].after /\ result[c].after = new[c]
    /\ pc[c] = "rejected" => c \notin wire /\ Entries(c) = {}

(* The snapshots of a successful call are what its PATCH replaced and put, *)
(* unless another change came between its read and its PATCH.              *)
AuditUnlessDisturbed ==
  \A c \in Calls : \A i \in Entries(c) :
    pc[c] = "done" /\ readAt[c] + 1 = i => result[c].before = log[i].from

(* A call does not wait forever, except for the user's answer.             *)
CallsEnd == \A c \in Calls : <>[](pc[c] \in {"new", "confirming"} \cup Ended)

-----------------------------------------------------------------------------
(* What the documentation says of the tool.                                *)

(* The snapshots give the exact difference the PATCH made.                 *)
AuditIsExact ==
  \A c \in Calls : \A i \in Entries(c) :
    pc[c] = "done" => result[c].before = log[i].from

(* No PATCH moves the amount by more than the cap without an override that *)
(* repeats the difference.                                                 *)
CapBoundsChange ==
  \A c \in Calls : \A i \in Entries(c) :
    LET moved == log[i].to - log[i].from
    IN  Abs(moved) <= Cap \/ override[c] = moved

(* A new amount over the threshold, repeated as the override, passes the   *)
(* cap.                                                                    *)
EchoIsAccepted ==
  \A c \in Calls :
    pc[c] = "checking" /\ Abs(new[c]) > Cap /\ override[c] = new[c] =>
      CheckAmountBound(Delta(c), override[c])

(* With a client that supports elicitation, YNAB changes nothing that the  *)
(* user did not accept.                                                    *)
AcceptedByUser ==
  Elicits => \A c \in Calls : Entries(c) # {} => answer[c] = "accept"
=============================================================================
