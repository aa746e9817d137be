---------------------------- MODULE SnapshotReads ---------------------------
(***************************************************************************)
(* What list_accounts promises to its callers, with the cache left out.    *)
(*                                                                         *)
(* delta.go calls its cache "purely a bandwidth/latency optimization": a   *)
(* call must answer as if it had read the whole endpoint from the server   *)
(* at one moment.  Here a call is issued, the server goes on changing, and *)
(* the call either fails or returns the visible rows of one server state   *)
(* that is not older than the call -- unless upstream itself may replay    *)
(* old responses (StaleReads), in which case any past state will do.       *)
(***************************************************************************)
EXTENDS Integers, Sequences

CONSTANTS
  Plans, Readers, Ids, NoRow, FullListsTombstones,
  StaleReads,    \* may upstream answer from an older state?
  MaxVersion     \* bound on the knowledge values of one plan

INSTANCE YnabServer

VARIABLES
  hist,     \* hist[p]: the states of plan p's endpoint, by knowledge value
  status,   \* status[r]: the state of reader r's current call
  plan,     \* plan[r]: the plan that call asks for
  start,    \* start[r]: knowledge of that plan when the call began
  view      \* view[r]: the rows the call returned

vars == <<hist, status, plan, start, view>>

NoItems == [i \in Ids |-> NoRow]

Floor(r) == IF StaleReads THEN 1 ELSE start[r]

Init ==
  /\ hist \in [Plans -> {<<s>> : s \in InitialStates}]
  /\ status = [r \in Readers |-> "idle"]
  /\ plan \in [Readers -> Plans]
  /\ start = [r \in Readers |-> 1]
  /\ view = [r \in Readers |-> NoItems]

Change(p) ==
  /\ Len(hist[p]) < MaxVersion
  /\ \E s \in Successors(hist[p][Len(hist[p])], Len(hist[p]) + 1) :
       hist' = [hist EXCEPT ![p] = Append(@, s)]
  /\ UNCHANGED <<status, plan, start, view>>

Call(r, p) ==
  /\ status[r] # "waiting"
  /\ status' = [status EXCEPT ![r] = "waiting"]
  /\ plan' = [plan EXCEPT ![r] = p]
  /\ start' = [start EXCEPT ![r] = Len(hist[p])]
  /\ view' = [view EXCEPT ![r] = NoItems]
  /\ UNCHANGED hist

Return(r) ==
  /\ status[r] = "waiting"
  /\ \E v \in Floor(r)..Len(hist[plan[r]]) :
       view' = [view EXCEPT ![r] = Visible(hist[plan[r]][v])]
  /\ status' = [status EXCEPT ![r] = "done"]
  /\ UNCHANGED <<hist, plan, start>>

Fail(r) ==
  /\ status[r] = "waiting"
  /\ status' = [status EXCEPT ![r] = "failed"]
  /\ UNCHANGED <<hist, plan, start, view>>

Next ==
  \/ \E p \in Plans : Change(p)
  \/ \E r \in Readers, p \in Plans : Call(r, p)
  \/ \E r \in Readers : Return(r) \/ Fail(r)

Spec == Init /\ [][Next]_vars
=============================================================================
