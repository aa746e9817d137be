--------------------------- MODULE TransactionSync --------------------------
(***************************************************************************)
(* list_transactions and the reads the task tools make for themselves, over *)
(* the second delta-sync cache.  All calls for a plan share one cache entry *)
(* whatever since_date they pass, and list_transactions consults the entry *)
(* twice: once to choose the date window, once to choose the cursor.       *)
(*                                                                         *)
(*   ListTransactions  reads the knowledge to decide the window: the       *)
(*           caller's since_date, or none if the cache is primed and the   *)
(*           call is unfiltered, or 90 days;                               *)
(*   Aggregate  a task tool's read: its since_date as it is, or none;      *)
(*   Build   reads the knowledge (again), for the cursor, unless the call  *)
(*           is filtered by type or scope;                                 *)
(*   Serve   YNAB answers;                                                 *)
(*   Finish  merges into the cache, or, for a filtered call, takes the     *)
(*           rows as they are;                                             *)
(*   Fail    the request fails and the cache is left alone.                *)
(*                                                                         *)
(* One plan is modelled: entries of different plans do not interact        *)
(* (DeltaSync has several).  Sorting, the caller's limit and the ceiling of *)
(* aggregation (TaskReads has it), which only shorten what is shown, and   *)
(* the predicate of a filter are left out.                                 *)
(***************************************************************************)
EXTENDS DeltaCache, Sequences

CONSTANTS
  Readers,             \* concurrent tools/call goroutines
  Dates,               \* dates of transactions; larger is later
  DefaultSince,        \* the date 90 days ago
  Sinces,              \* the explicit since_dates callers use
  FullListsTombstones,
  MaxVersion           \* bound on the plan's knowledge values

INSTANCE YnabTransactions

ASSUME TransactionAssumption ==
  /\ Dates \subseteq Nat \ {0}
  /\ DefaultSince \in Dates /\ Sinces \subseteq Dates
  /\ FullListsTombstones \in BOOLEAN /\ MaxVersion \in Nat
  /\ NoRow \notin Row

VARIABLES
  hist,      \* the server: the states of the plan's transactions
  entry,     \* Client.transactionsDelta.plans[plan]
  pc,        \* where each call is
  wanted,    \* the since_date the caller gave, NoSince if none
  filtered,  \* is a type or a scope filter set?
  since,     \* the since_date sent
  cursor,    \* the last_knowledge_of_server sent, 0 if none
  reply,     \* the knowledge of the state the response shows
  view,      \* the rows returned
  promised,  \* history: the date from which the caller is to get the rows
  start,     \* history: the plan's knowledge when the call began
  cold,      \* history: did an unfiltered call begin while the entry was empty?
  lost,      \* history: was the entry flushed between the call's two readings?
  fit,       \* history: when the call ended, was the entry fit for it?
  primedFrom,  \* history: the since_date of the response that filled the entry
  mixed      \* history: was a response merged that need not fit the entry?

request == <<wanted, filtered, since, cursor>>
history == <<promised, start, cold, lost, fit>>
locals == <<pc, request, reply, view, history>>
merged == <<primedFrom, mixed>>
vars == <<hist, entry, locals, merged>>

Init ==
  /\ hist \in {<<s>> : s \in InitialStates}
  /\ entry = EmptyEntry
  /\ pc = [r \in Readers |-> "idle"]
  /\ wanted = [r \in Readers |-> NoSince]
  /\ filtered = [r \in Readers |-> FALSE]
  /\ since = [r \in Readers |-> NoSince]
  /\ cursor = [r \in Readers |-> 0]
  /\ reply = [r \in Readers |-> 0]
  /\ view = [r \in Readers |-> NoItems]
  /\ promised = [r \in Readers |-> DefaultSince]
  /\ start = [r \in Readers |-> 1]
  /\ cold = [r \in Readers |-> FALSE]
  /\ lost = [r \in Readers |-> FALSE]
  /\ fit = [r \in Readers |-> FALSE]
  /\ primedFrom = NoSince
  /\ mixed = FALSE

Change ==
  /\ Len(hist) < MaxVersion
  /\ \E s \in Successors(hist[Len(hist)], Len(hist) + 1) : hist' = Append(hist, s)
  /\ UNCHANGED <<entry, locals, merged>>

-----------------------------------------------------------------------------
(* Mutated forms, for mutation testing.                                    *)

WindowUnprimed(s, f) == IF s # NoSince THEN s ELSE DefaultSince

AlwaysDeltaSync(f) == TRUE

-----------------------------------------------------------------------------
(* The switch on sinceDate in ListTransactions.                            *)
Window(s, f) ==
  IF s # NoSince THEN s
  ELSE IF ~ f /\ entry.knowledge > 0 THEN NoSince
  ELSE DefaultSince

(* Does fetchTransactions use the cache for this call?                     *)
CanDeltaSync(f) == ~ f

Cursor(f) == IF CanDeltaSync(f) THEN entry.knowledge ELSE 0

(* A call begins that sends since_date w and owes its caller the rows from  *)
(* date p on.                                                              *)
Begin(r, s, f, w, p) ==
  /\ pc[r] \in {"idle", "done", "failed"}
  /\ pc' = [pc EXCEPT ![r] = "windowed"]
  /\ wanted' = [wanted EXCEPT ![r] = s]
  /\ filtered' = [filtered EXCEPT ![r] = f]
  /\ since' = [since EXCEPT ![r] = w]
  /\ cursor' = [cursor EXCEPT ![r] = 0]
  /\ view' = [view EXCEPT ![r] = NoItems]
  /\ promised' = [promised EXCEPT ![r] = p]
  /\ start' = [start EXCEPT ![r] = Len(hist)]
  /\ cold' = [cold EXCEPT ![r] = ~ f /\ entry.knowledge = 0]
  /\ fit' = [fit EXCEPT ![r] = FALSE]
  /\ UNCHANGED <<hist, entry, reply, lost, merged>>

ListTransactions(r, s, f) ==
  Begin(r, s, f, Window(s, f), IF s = NoSince THEN DefaultSince ELSE s)

(* Read by a task tool: the transactions of a category (tools_tasks.go:1347) *)
(* or of a period (1062) since a date, or all that are unapproved, with no *)
(* date (774, 1124).                                                       *)
Aggregate(r, s, f) ==
  /\ s # NoSince \/ f
  /\ Begin(r, s, f, s, s)

Build(r) ==
  /\ pc[r] = "windowed"
  /\ cursor' = [cursor EXCEPT ![r] = Cursor(filtered[r])]
  /\ pc' = [pc EXCEPT ![r] = "asking"]
  /\ UNCHANGED <<hist, entry, wanted, filtered, since, reply, view, history, merged>>

Serve(r) ==
  /\ pc[r] = "asking"
  /\ reply' = [reply EXCEPT ![r] = Len(hist)]
  /\ pc' = [pc EXCEPT ![r] = "served"]
  /\ UNCHANGED <<hist, entry, request, view, history, merged>>

Deltas(r) == Response(hist[reply[r]], cursor[r], since[r])

(* plainToTransactions, hybridToTransactions: deleted rows are dropped.    *)
WithoutDeleted(rows) ==
  [i \in Ids |-> IF rows[i] # NoRow /\ rows[i].deleted THEN NoRow ELSE rows[i]]

(* Bookkeeping for ExactUnlessMixed.  What fits an empty entry is a full    *)
(* response; what fits any other is the changes since a state it has seen, *)
(* asked for by a call that wanted no window and found the entry filled.   *)
Misfits(r) ==
  \/ cursor[r] > entry.knowledge
  \/ /\ entry.knowledge > 0 /\ ~ Regresses(entry, reply[r])
     /\ wanted[r] # NoSince \/ cold[r] \/ cursor[r] = 0

Mixes(r) == mixed \/ Misfits(r)

(* The date from which the entry has the plan's rows after the merge.      *)
Covers(r) == IF entry.knowledge = 0 THEN since[r] ELSE primedFrom

Record(r) ==
  /\ fit' = [fit EXCEPT ![r] = ~ Mixes(r) /\ Covers(r) <= promised[r]]
  /\ mixed' = (Mixes(r) /\ entry'.knowledge > 0)
  /\ primedFrom' = IF entry'.knowledge > 0 THEN Covers(r) ELSE NoSince

(* When a call ends, so do its locals; what it returned and what it was    *)
(* asked for are kept for the properties.                                  *)
Return(r) ==
  /\ since' = [since EXCEPT ![r] = NoSince]
  /\ cursor' = [cursor EXCEPT ![r] = 0]
  /\ reply' = [reply EXCEPT ![r] = 0]
  /\ cold' = [cold EXCEPT ![r] = FALSE]
  /\ lost' = [q \in Readers |->
       q # r /\ (lost[q] \/ (pc[q] = "windowed" /\ entry.knowledge > 0 /\ entry'.knowledge = 0))]
  /\ UNCHANGED <<hist, wanted, filtered, promised, start>>

Finish(r) ==
  /\ pc[r] = "served"
  /\ IF CanDeltaSync(filtered[r])
       THEN /\ view' = [view EXCEPT ![r] = MergedItems(entry, reply[r], Deltas(r))]
            /\ entry' = MergedEntry(entry, reply[r], Deltas(r))
            /\ Record(r)
       ELSE /\ view' = [view EXCEPT ![r] = WithoutDeleted(Deltas(r))]
            /\ UNCHANGED <<entry, fit, merged>>
  /\ pc' = [pc EXCEPT ![r] = "done"]
  /\ Return(r)

(* A failure that takes the cached entry with it, for mutation testing.    *)
FailDropsEntry(r) ==
  /\ pc[r] \in {"asking", "served"}
  /\ pc' = [pc EXCEPT ![r] = "failed"]
  /\ entry' = EmptyEntry
  /\ since' = [since EXCEPT ![r] = NoSince]
  /\ cursor' = [cursor EXCEPT ![r] = 0]
  /\ reply' = [reply EXCEPT ![r] = 0]
  /\ cold' = [cold EXCEPT ![r] = FALSE]
  /\ lost' = [lost EXCEPT ![r] = FALSE]
  /\ UNCHANGED <<hist, wanted, filtered, promised, start, view, fit, merged>>

Fail(r) ==
  /\ pc[r] \in {"asking", "served"}
  /\ pc' = [pc EXCEPT ![r] = "failed"]
  /\ entry' = entry
  /\ Return(r)
  /\ UNCHANGED <<view, fit, merged>>

Next ==
  \/ Change
  \/ \E r \in Readers, s \in Sinces \cup {NoSince}, f \in BOOLEAN :
       ListTransactions(r, s, f) \/ Aggregate(r, s, f)
  \/ \E r \in Readers : Build(r) \/ Serve(r) \/ Finish(r) \/ Fail(r)

Spec == Init /\ [][Next]_vars

-----------------------------------------------------------------------------
(* Properties                                                              *)

(* The variables have their types.                                         *)
TypeOK ==
  /\ hist \in Seq(State)
  /\ entry \in [knowledge : Nat, items : [Ids -> LiveRow \cup {NoRow}]]
  /\ pc \in [Readers -> {"idle", "windowed", "asking", "served", "done", "failed"}]
  /\ wanted \in [Readers -> Sinces \cup {NoSince}]
  /\ filtered \in [Readers -> BOOLEAN]
  /\ since \in [Readers -> Dates \cup {NoSince}]
  /\ cursor \in [Readers -> Nat]
  /\ reply \in [Readers -> Nat]
  /\ view \in [Readers -> [Ids -> LiveRow \cup {NoRow}]]
  /\ promised \in [Readers -> Dates \cup {NoSince}]
  /\ start \in [Readers -> Nat]
  /\ cold \in [Readers -> BOOLEAN]
  /\ lost \in [Readers -> BOOLEAN]
  /\ fit \in [Readers -> BOOLEAN]
  /\ primedFrom \in Dates \cup {NoSince}
  /\ mixed \in BOOLEAN

(* The rows dated w or later.                                              *)
From(rows, w) ==
  [i \in Ids |-> IF rows[i] # NoRow /\ rows[i].date >= w THEN rows[i] ELSE NoRow]

ShowsWindow(r, w) ==
  \E k \in start[r]..Len(hist) :
    From(view[r], w) = From(WithoutDeleted(hist[k]), w)

(* A successful call shows, for the dates in its window, exactly the live  *)
(* transactions of one moment during the call: sums over it are sums over  *)
(* the plan.  The window is the caller's since_date or, if there is none,  *)
(* 90 days for list_transactions and everything for a task tool.           *)
WindowReads ==
  \A r \in Readers : pc[r] = "done" => ShowsWindow(r, promised[r])

(* A call reads its window exactly if the entry was filled from no later a *)
(* date and nothing was merged into it that need not fit: no response of a *)
(* call with an explicit since_date, of one that saw the entry empty, or   *)
(* to a cursor from before a flush.  Bare calls that do not overlap on a   *)
(* cold cache always do, whatever filtered calls run beside them, and also *)
(* when the entry overflows and is filled again.                           *)
ExactUnlessMixed ==
  \A r \in Readers : pc[r] = "done" /\ fit[r] => ShowsWindow(r, promised[r])

(* A call filtered by type or scope is answered from a full fetch of its   *)
(* window, or of the whole plan for a task tool that gives no date, and    *)
(* from nothing else, whatever the shared cache went through.              *)
FilteredReadsExact ==
  \A r \in Readers :
    pc[r] = "done" /\ filtered[r] =>
      /\ ShowsWindow(r, promised[r])
      /\ view[r] = From(view[r], promised[r])

(* No transaction dated before an explicit since_date is returned.         *)
SinceHonoured ==
  \A r \in Readers :
    pc[r] = "done" /\ wanted[r] # NoSince => view[r] = From(view[r], wanted[r])

(* The request list_transactions was to avoid (tools.go:345): one that asks *)
(* for a plan's whole history, with neither a window nor a cursor.  (The   *)
(* task tools send such requests on purpose, for what is unapproved.)      *)
Unbounded(r) ==
  pc[r] = "asking" /\ since[r] = NoSince /\ cursor[r] = 0 /\ promised[r] # NoSince

(* Only a flush between the two readings of the knowledge makes            *)
(* list_transactions send an unbounded request: no failure of another      *)
(* call, late response or filter does.                                     *)
UnboundedOnlyByFlush == \A r \in Readers : Unbounded(r) => lost[r]

(* list_transactions sends no unbounded request.                           *)
NeverUnbounded == \A r \in Readers : ~ Unbounded(r)

(* No call, however late its response, brings back a version of a          *)
(* transaction older than the one the cache shows, nor a deleted one.      *)
NoRevival ==
  [][\A i \in Ids :
       entry.items[i] # entry'.items[i] /\ entry'.items[i] # NoRow =>
         /\ entry.items[i] # NoRow => entry'.items[i].at > entry.items[i].at
         /\ hist[entry'.knowledge][i] = entry'.items[i]]_vars
=============================================================================
