------------------------------ MODULE DeltaSync -----------------------------
(***************************************************************************)
(* list_accounts over the delta-sync cache: every tools/call runs in a     *)
(* goroutine of its own, so that calls interleave at the points where the  *)
(* cache mutex is not held.  A call                                        *)
(*   Call    reads the cached knowledge of its plan (under the mutex) and  *)
(*           builds the request, with last_knowledge_of_server if it is    *)
(*           positive;                                                     *)
(*   Serve   is answered by YNAB, at whatever state the plan then is in;   *)
(*   Merge   merges the response into the cache (under the mutex) and      *)
(*           returns the merged rows;                                      *)
(*   Fail    or ends in an error: no token from the rate limiter in time,  *)
(*           timeout, cancellation, HTTP status, body over the cap, or     *)
(*           JSON that does not decode.  The cache is then untouched.      *)
(*                                                                         *)
(* Callers name a plan by its id or by an alias ("last-used", "default"),  *)
(* which YNAB resolves and the user can re-point from the YNAB apps.       *)
(***************************************************************************)
EXTENDS DeltaCache, Sequences

CONSTANTS
  Plans,      \* plan UUIDs
  Aliases,    \* 'last-used' and 'default'
  Readers,    \* concurrent tools/call goroutines
  FullListsTombstones,
  StaleReads, \* may upstream answer from an older state (delta.go:139-141)?
  MaxVersion  \* bound on the knowledge values of one plan

ASSUME StaleReadsAssumption == StaleReads \in BOOLEAN
ASSUME MaxVersionAssumption == MaxVersion \in Nat
ASSUME PlansAssumption == Plans # {} /\ Plans \cap Aliases = {}

INSTANCE YnabServer

ASSUME FullListsTombstonesAssumption == FullListsTombstones \in BOOLEAN
ASSUME NoRowAssumption == NoRow \notin Row

Names == Plans \cup Aliases

VARIABLES
  hist,     \* the server: states of the accounts endpoint of each plan
  target,   \* the server: the plan each alias stands for
  cache,    \* Client.accountsDelta: an entry for each name
  pc,       \* where each call is
  name,     \* in.PlanID
  cursor,   \* the last_knowledge_of_server it sent, 0 if none
  reply,    \* which state of which plan its response shows
  view,     \* the rows it returned
  start     \* history: the plan's knowledge when the call began

server == <<hist, target>>
locals == <<pc, name, cursor, reply, view, start>>
vars == <<server, cache, locals>>

NoReply == [plan |-> CHOOSE p \in Plans : TRUE, knowledge |-> 0]

Resolve(n) == IF n \in Plans THEN n ELSE target[n]

Init ==
  /\ hist \in [Plans -> {<<s>> : s \in InitialStates}]
  /\ target \in [Aliases -> Plans]
  /\ cache = [n \in Names |-> EmptyEntry]
  /\ pc = [r \in Readers |-> "idle"]
  /\ name = [r \in Readers |-> NoReply.plan]
  /\ cursor = [r \in Readers |-> 0]
  /\ reply = [r \in Readers |-> NoReply]
  /\ view = [r \in Readers |-> NoItems]
  /\ start = [r \in Readers |-> 1]

-----------------------------------------------------------------------------
(* The server's own steps: other YNAB clients and bank imports.            *)

Change(p) ==
  /\ Len(hist[p]) < MaxVersion
  /\ \E s \in Successors(hist[p][Len(hist[p])], Len(hist[p]) + 1) :
       hist' = [hist EXCEPT ![p] = Append(@, s)]
  /\ UNCHANGED <<target, cache, locals>>

Repoint(a, p) ==
  /\ target[a] # p
  /\ target' = [target EXCEPT ![a] = p]
  /\ UNCHANGED <<hist, cache, locals>>

(* The request is answered from the plan's current state, or, if upstream  *)
(* may replay responses, from an older one.                                *)
Serve(r) ==
  /\ pc[r] = "asking"
  /\ LET p == Resolve(name[r])
         oldest == IF StaleReads THEN 1 ELSE Len(hist[p])
     IN  \E k \in oldest..Len(hist[p]) :
           reply' = [reply EXCEPT ![r] = [plan |-> p, knowledge |-> k]]
  /\ pc' = [pc EXCEPT ![r] = "served"]
  /\ UNCHANGED <<server, cache, name, cursor, view, start>>

-----------------------------------------------------------------------------
(* The call's steps.                                                       *)

(* A mutated form of Knowledge: entries not kept apart by plan.            *)
HighestKnowledge(n) ==
  LET m == CHOOSE m \in Names :
             \A o \in Names : cache[m].knowledge >= cache[o].knowledge
  IN  cache[m].knowledge

(* deltaCache.knowledge *)
Knowledge(n) == cache[n].knowledge

Call(r, n) ==
  /\ pc[r] \in {"idle", "done", "failed"}
  /\ pc' = [pc EXCEPT ![r] = "asking"]
  /\ name' = [name EXCEPT ![r] = n]
  /\ cursor' = [cursor EXCEPT ![r] = Knowledge(n)]
  /\ start' = [start EXCEPT ![r] = Len(hist[Resolve(n)])]
  /\ reply' = [reply EXCEPT ![r] = NoReply]
  /\ view' = [view EXCEPT ![r] = NoItems]
  /\ UNCHANGED <<server, cache>>

(* The rows of the response.                                               *)
Deltas(r) == Response(hist[reply[r].plan][reply[r].knowledge], cursor[r])

Merge(r) ==
  /\ pc[r] = "served"
  /\ view' = [view EXCEPT ![r] = MergedItems(cache[name[r]], reply[r].knowledge, Deltas(r))]
  /\ cache' = [cache EXCEPT ![name[r]] = MergedEntry(@, reply[r].knowledge, Deltas(r))]
  /\ pc' = [pc EXCEPT ![r] = "done"]
  /\ UNCHANGED <<server, name, cursor, reply, start>>

Fail(r) ==
  /\ pc[r] \in {"asking", "served"}
  /\ pc' = [pc EXCEPT ![r] = "failed"]
  /\ UNCHANGED <<server, cache, name, cursor, reply, view, start>>

-----------------------------------------------------------------------------
Next ==
  \/ \E p \in Plans : Change(p)
  \/ \E a \in Aliases, p \in Plans : Repoint(a, p)
  \/ \E r \in Readers, n \in Names : Call(r, n)
  \/ \E r \in Readers : Serve(r) \/ Merge(r) \/ Fail(r)

Spec == Init /\ [][Next]_vars

-----------------------------------------------------------------------------
(* Properties                                                              *)

Version(p) == 1..Len(hist[p])

(* The variables have their types; in particular the cache holds only live *)
(* rows, and a reader's cursor is one the server has handed out.           *)
TypeOK ==
  /\ hist \in [Plans -> Seq(State)]
  /\ target \in [Aliases -> Plans]
  /\ cache \in [Names -> [knowledge : Nat, items : [Ids -> LiveRow \cup {NoRow}]]]
  /\ pc \in [Readers -> {"idle", "asking", "served", "done", "failed"}]
  /\ name \in [Readers -> Names]
  /\ cursor \in [Readers -> Nat]
  /\ reply \in [Readers -> [plan : Plans, knowledge : Nat]]
  /\ view \in [Readers -> [Ids -> LiveRow \cup {NoRow}]]
  /\ start \in [Readers -> Nat]

(* An entry keyed by a plan id is empty or is exactly the set of live rows *)
(* the server had at the entry's knowledge: no row of another moment, no   *)
(* deleted row that never goes away, no missing row.                       *)
CacheIsSnapshot ==
  \A p \in Plans :
    \/ cache[p] = EmptyEntry
    \/ /\ cache[p].knowledge \in Version(p)
       /\ cache[p].items = Visible(hist[p][cache[p].knowledge])

(* The oldest state a call may show: not older than the call itself, and,  *)
(* where upstream may replay old responses, not older than what the cache  *)
(* already had when the call began.                                        *)
Floor(r) == IF StaleReads THEN cursor[r] ELSE start[r]

(* A call for a plan id that succeeds returns the complete live rows of    *)
(* one server state, and never one older than Floor: concurrent calls and  *)
(* responses merged out of order do not send a reader back in time.        *)
ReadsAreSnapshots ==
  \A r \in Readers :
    pc[r] = "done" /\ name[r] \in Plans =>
      \E k \in Version(name[r]) :
        /\ k >= Floor(r)
        /\ view[r] = Visible(hist[name[r]][k])

(* The same, without the floor, for a call that names a plan by an alias:  *)
(* it returns the rows of some plan, not a mixture of two.                 *)
AliasReadsAreSnapshots ==
  \A r \in Readers :
    pc[r] = "done" /\ name[r] \in Aliases =>
      \E p \in Plans : \E k \in Version(p) : view[r] = Visible(hist[p][k])

(* The calls and their results, with the cache hidden, are calls that read *)
(* the server directly (without aliases).                                  *)
Status(r) == IF pc[r] \in {"asking", "served"} THEN "waiting" ELSE pc[r]

Abstract == INSTANCE SnapshotReads
              WITH status <- [r \in Readers |-> Status(r)], plan <- name

(* list_accounts over the cache implements list_accounts without it.       *)
ImplementsSnapshotReads == Abstract!Spec
=============================================================================
