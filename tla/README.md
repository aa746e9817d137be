# A TLA+ model of mcp-ynab

mcp-ynab is an MCP server: a Go process that an MCP client (an LLM agent)
drives over stdio and that reads and writes a user's YNAB plans over HTTPS. This
directory specifies the parts of it where a state machine says more than a unit
test: the delta-sync cache under concurrent calls, the write path against other
clients and lost requests, the tools composed of several reads, the debt simulation
and the waterfall, the rate limiter, and the expansion of recurring transactions.

## The system

| Component | Source | State it keeps | Operations | What makes it correct |
|---|---|---|---|---|
| Delta-sync cache | `delta.go` | per plan name: last `server_knowledge`, rows by id | `knowledge`, `merge` | an entry is empty or exactly one server state; merging out of order, overflowing and failing do no harm |
| Read handlers | `tools.go` | none of their own; two caches of the `Client` | `list_accounts`, `list_transactions`, `fetchTransactions` for aggregation, seven plain GETs | a call returns what YNAB had at one moment of the call, for the window it was asked for |
| HTTP client | `client.go` | token bucket, connection pool | `doJSONWithBody`, host lock, rate limit, 30 s timeout, 8 MiB cap | every request ends; never more requests in an hour than YNAB accepts; a lone call is never refused a token |
| Write guards | `writes.go` | environment | env gate, amount cap with override, elicitation | no write passes without them |
| Write handlers | `tools_writes.go` | none | `create_transaction`, `update_category_budgeted`, `update_transaction`, `approve_transaction` | what is applied is what was checked and confirmed; before and after say what the write did |
| Task tools | `tools_tasks.go` | none | debt snapshot (avalanche simulation), status, weekly check-in, spending check, waterfall assignment | conservation of money, termination, consistent composed reads |
| Recurrence | `recurrence.go` | none | occurrences of a schedule in a window | every occurrence once, none skipped or out of the window |
| Money | `money.go` | none | milliunit formatting | (a conversion) |
| Token, errors | `token.go`, `errors.go` | the token | redaction, sanitized errors | (string processing) |
| Process | `main.go`, `clock.go` | none | start-up, `store-token`, clock seam | the token source order |
| External | YNAB, MCP SDK, `x/time/rate`, keyring | the plan; one goroutine per `tools/call` | | |

Interaction. The SDK runs every `tools/call` in a goroutine of its own, so calls
interleave wherever a handler waits for HTTP or for the user's confirmation. They
share the `Client`: the two caches (each behind a mutex held only within
`knowledge` and `merge`), and the token bucket inside the transport. The plan
itself is shared with the user's phone, the web app and bank imports. Nothing is
persisted: a restart empties the caches.

Hard behaviour. State read before an HTTP request and used after it (the cursor,
the "before" snapshot); responses merged out of order; a cache entry flushed
under a request in flight; one cache entry shared by calls with different
parameters; a request that YNAB carried out but whose response is lost; a user
who answers a confirmation minutes later. `PROJECT.json` lists each hazard at its
line with the properties that watch it.

## Modules

| Module | Models | Depends on |
|---|---|---|
| `DeltaCache` | the data of `delta.go`: `Regresses`, `Apply`, `Overflows`, `MergedItems`, `MergedEntry` | |
| `YnabServer` | external: the accounts endpoint of a plan as the sequence of its states | |
| `DeltaSync` | `list_accounts` over the cache, concurrent callers, plan names and aliases | `DeltaCache`, `YnabServer` |
| `SnapshotReads` | abstract: `list_accounts` without a cache | `YnabServer` |
| `DeltaSyncProofs` | theorems about `DeltaSync` | `DeltaSync` |
| `YnabTransactions` | external: the transactions endpoint, rows with dates | |
| `TransactionSync` | `list_transactions` and the aggregation reads over the second cache | `DeltaCache`, `YnabTransactions` |
| `WriteGuards` | `checkAmountBound` on wrapping integers, the outcomes of `elicitConfirmation` | |
| `CategoryWrites` | `update_category_budgeted` | `WriteGuards` |
| `CategoryWritesProofs` | theorems about `CategoryWrites` | `CategoryWrites` |
| `TransactionCreates` | `create_transaction` with import ids and retries | `WriteGuards` |
| `TransactionUpdates` | `update_transaction`, `approve_transaction` | `WriteGuards` |
| `DebtSnapshot` | `ynab_debt_snapshot` and `simulateAvalanche` | |
| `WaterfallAssignment` | `ynab_waterfall_assignment` | |
| `MoneyProofs` | lemmas about sums; theorems about `WaterfallAssignment` and `DebtSnapshot` | `WaterfallAssignment`, `DebtSnapshot` |
| `TransactionSyncProofs` | theorems about `TransactionSync` | `TransactionSync` |
| `TransactionCreatesProofs` | theorems about `TransactionCreates` | `TransactionCreates` |
| `TransactionUpdatesProofs` | theorems about `TransactionUpdates` | `TransactionUpdates` |
| `TaskReads` | `ynab_spending_check` and `ynab_weekly_checkin`: several reads of a plan that changes | `DeltaCache`, `Calendar` |
| `Calendar` | Go's dates: `AddDate` with its normalization, `daysBetween` | |
| `Recurrence` | `FrequencyOccurrences` | `Calendar` |
| `CalendarProofs` | lemmas about dates; theorems about `Recurrence` and `TaskReads` | `Recurrence`, `TaskReads`, `MoneyProofs` |
| `RateLimitedClient` | the token bucket and the request timeout under concurrent calls | |
| `RateLimitedClientProofs` | theorems about `RateLimitedClient` | `RateLimitedClient` |
| `MC...` | instances for TLC (symmetry sets) | the module of that name |

### The cache and list_accounts

A cache entry is a record `[knowledge, items]`; `items` maps every id to a row or
`NoRow`. A row is `[at, deleted]`: `at`, the knowledge value of its last change,
stands for the content, so two rows are equal exactly when the rows of the
program would be. `merge` is two operators, what it returns (`MergedItems`) and
what it leaves behind (`MergedEntry`); they differ only when the entry overflows.

A call of `list_accounts` is `Call` (the knowledge is read under the mutex and
becomes the cursor), `Serve` (YNAB answers, at that moment or, with `StaleReads`,
from an older state, the case the comment at `delta.go:139` names), and `Merge`
(one critical section). `Fail` stands for every error of `doJSONWithBody`, before
and after YNAB has seen the request. `Change` is any other client of YNAB;
`Repoint` lets an alias ("last-used") stand for another plan.

`SnapshotReads` is the promise of `delta.go:4`, "purely a bandwidth/latency
optimization": a call waits and then fails or returns the visible rows of one
server state between its start and its end. `ImplementsSnapshotReads` is the
refinement, with the cache, the cursors and the responses hidden.

### list_transactions

All calls for a plan share one entry, whatever `since_date` they pass, and
`list_transactions` reads the knowledge twice: to choose the window
(`ListTransactions`, operator `Window`) and, in `fetchTransactions`, to choose the
cursor (`Build`, operators `CanDeltaSync` and `Cursor`). `Aggregate` is a read of a
task tool, which has no part in the first: the spending check and the weeks of a
check-in give a date, and what `ynab_status` and the check-in ask of the unapproved
(`tools_tasks.go:774`, `1124`) has none, nor, being filtered, a cursor, so it asks for
the whole plan. `Begin` is what the two have in common. `Finish` merges, or, for a
call filtered by type or scope, drops deleted rows and leaves the cache alone. Rows
have dates here; dates are small numbers, `DefaultSince` stands for 90 days ago.

History variables say what a call owes its caller and when the shared entry is fit
for it. `promised` is the date from which the caller is to get the rows, none for
everything. `primedFrom` is the `since_date` of the response that filled the entry.
`cold` marks a call that began while it was empty, `lost` one whose entry was flushed
between the two readings. `mixed` becomes true when a response is merged that need not
fit the entry: into a filled entry, that of a call with a `since_date` or of one that
began while it was empty; into an empty entry, a delta. An entry that overflows and
is flushed is no longer mixed. `fit` keeps, for a call that ended, whether its entry
was unmixed and filled from no later date than `promised`: `ExactUnlessMixed` says
that such a call returns exactly its window. Filtered calls are exact always, and
only a flush makes `list_transactions` ask for a whole plan (`UnboundedOnlyByFlush`).

### The write path

An element of `Calls` is one invocation of a tool and takes place once; a retry
is another call. What YNAB holds is changed by `Change` (any other client) and by
the request of a call: from the moment a call sends its PATCH, PUT or POST, the
call is in `wire`, and as long as it is there YNAB may carry the request out
(`Apply`, `Post`) or never see it (`Drop`), also after the call gave up (`Fail`).
`log` and `readAt` are history variables: each change with its author, and where
the log was when the call read its "before" snapshot.

In `CategoryWrites` the "after" of a report is taken from the answer of YNAB, which
shows the category as the PATCH left it. Nothing in the code keeps a PATCH that comes
late from undoing a retry; the model lets it.

`Begin` and `Refuse` stand for the environment gate and the checks of fields: the
gate is constant for a process, and which strings pass is not modelled. `Answer`
is the elicitation with every outcome of `session.Elicit` (`Answers`), of which
`Proceeds` lets two through. In `CategoryWrites` and `WriteGuards` integers wrap
at `MaxInt`, so that the difference of two of them may wrap.

In `TransactionCreates` the account is the sequence of its transactions, and a
balance is the number of them it covers. In `TransactionUpdates` a transaction is
its fields, of which `approved` is one; a call names some and keeps the others.

### The debt snapshot

The three steps of a simulated month are three actions. Their loops over accounts
are functions of the balances: the minimums are independent of each other, and the
extra payment reaches a row after all rows sorted before it (`OwedBefore`).
`order` is any order by descending APR, as `sort.Slice` is not stable. `due` is a
history variable, what was owed after this month's interest. An APR is in parts
of a basis point, so that the rounding of `aprToBasisPoints` is modelled;
`Divisor` stands for 120000 and `MaxMonths` for 600.

### The waterfall

One action per entry of a tier and one per tier. `PriorityRespected` and
`StopsWithNothingLeft` together say something the schema of `stop_if_unfunded`
does not: a tier that is short has used up the money, so the flag never changes
an allocation. `Executed` is what the categories have once the caller carries the
plan out, which the tool's output is made for.

### Composed reads

`ynab_spending_check` sends one request per category, `ynab_weekly_checkin` one for
two weeks of transactions, one for those not approved, and two for the months. In
`TaskReads` a call is `Begin`, one `FetchRows` or `FetchMonth` per request and
`Finish`, and `Change` alters the plan between any two of them. `got` keeps the
answers with the knowledge at which each was given; the fields of the report are
operators on `got`. An item is what the user sees as one transaction: a transfer is
two rows. The period fetch goes through the transaction cache with a `since_date`,
so it starts from an entry an earlier call may have filled (`Primings`). `CacheFits`
says when that does no harm: the entry was empty, or filled for both weeks, and no
row in it has been re-dated out of them. It is a condition of `CheckInTrue`, and
without it the property fails (`WeeksAlwaysExact` below). Two things are assumed: an
edit does not turn a transfer into something else, and the two rows of a transfer
are approved together.

### Recurrence

`Calendar` has dates as month numbers and days; `AddDate` lets a day that its month
does not have run over into the next, as Go does. `Recurrence` is one call of
`FrequencyOccurrences`, one action per iteration. The reference it is compared with,
`Due`, does not step: a date is due if its distance from `date_next` is a multiple
of the period, or if it is the same day, or the last, of an n-th month.

### The HTTP client

`RateLimitedClient` counts the bucket in ticks, so that no fraction is left out: a
token is `Interval` ticks and `credit` is negative while tokens are promised that
are not there yet. A tick of ten seconds gives the real 20 s and 30 s as 2 and 3.
`Start` is a reservation; `Refuse` is the limiter's answer to a request whose turn
would come after its deadline, since `http.Client.Timeout` covers the wait; `Leave`
is a request that gives up, and `CancelReservation` is what `x/time/rate` gives
back for it, which is less than a token when later requests build on it. `sent` is
a history variable.

## Runs

| Run | Question | Bounds |
|---|---|---|
| `DeltaSync_concurrent` | Is the cache exact, and not to be told from uncached reads, for two concurrent callers, also if upstream replays old responses? | 2 ids, 2 callers, 1 plan, 3 server states, entry fits |
| `DeltaSync_aliases` | Does an alias, or an entry that overflows, disturb reads by plan id? | 2 plans, 1 alias, 2 states each, cap 1 |
| `TransactionSync_mixed` | Which guarantees survive any mixture of calls, and what must happen before the others are lost? | 2 ids, 2 callers, 2 dates, 2 states, cap 1 |
| `CategoryWrites_concurrent` | Are effects checked, outcomes true, snapshots exact, and does every call end? | 2 calls, 4-bit integers, amounts -8, 1, 2, 7, cap 1, 1 change by others |
| `TransactionCreates_retried` | One transaction per import id, whatever is lost or late? | 2 calls, 1 import id, 3 transactions |
| `TransactionUpdates_concurrent` | Do disjoint edits survive, do only approvals go unasked? | 2 calls, 2 fields of 2 values, 1 change |
| `DebtSnapshot_projections` | Does every month spend its capacity in avalanche order, and are payments that suffice never refused? | 2 rows, 2 accounts, debts to 8, minimums to 3, extra 0, 1, 3 |
| `WaterfallAssignment_plan` | Does money go by priority, and does the plan move what it says? | 2 tiers of 2 entries, 2 categories, 4-bit integers |
| `TaskReads_composed` | Are the reports of composed reads true although the plan changes between them? | 3 items, 2 states, ceiling 2, months February and March 2024 |
| `TaskReads_month_end` (violation) | Does a check-in compare with the month before? | 27 to 31 March |
| `Recurrence_windows` | Are the occurrences those the calendar calls for? | 12 starts, 7 windows, 12 iterations |
| `RateLimitedClient_burst` | Is the rate kept and no call starved, whatever is cancelled or late? | 2 callers, 7 ticks, burst 2, quota 5 |

Why the bounds are enough. Two callers give every order of the two critical
sections against each other and against the server; a third caller is another
copy of either. Two ids distinguish "this row is stale" from "this row is
missing while another is new", and with a cap of one they overflow an entry, in
`TransactionSync_mixed` also between the two readings of a call.
Three states give a base, a first change (perhaps a deletion) and a second one
that reverses the order of two responses; `TransactionSync_mixed` has two states, and
passes too with three when there is one id and the cap is two, while two ids with
three states are too many. `MaxVersion` bounds only the server.
Two write calls are a call and its retry, or a call and a rival; one change by
others puts a change at any point of either. With four-bit integers a difference
can wrap in both directions; the amounts are the two extremes (the smallest has
no absolute value) and a small difference within the cap and beyond it, and
`CategoryWritesProofs` covers all amounts and widths. Two debts make one that
gets the extra payment and one that waits; balances to 8 and minimums to 3 give
payoffs with and without leftover in several months of which both may be
growing. Eight months suffice to pay eight milliunits one by one, so the cap
`MaxMonths` = 12 is not what refuses a debt that shrinks; the real cap of 600
months can be. That a simulation which stalls was hopeless holds within these
bounds and is false with three rows (`StalledMeansHopeless` below), which is why
the run checks `AmortizingConverges`, and `MoneyProofs` proves it for any number.

Three items with dates at both edges of both weeks give a row in each week and one
that is cut by a ceiling of two, a transfer among them; amounts are powers of two, so
that no wrong sum is right by chance. Two states of the plan, the second made between
any two requests, are what a change during a call is. The starts of `MCRecurrence`
are the month ends, the leap day and 2100, which has none; the windows run from a day
to three years, and twelve iterations are used up by some and not by others. Seven
ticks are three and a half refills of a bucket of two; `Quota` is the smallest that
the rate allows, so one request too many breaks it. Every invariant of the runs is
also proved, where there are no bounds.

Deadlock. `CHECK_DEADLOCK FALSE` is in the configurations in which every call
happens once and the system stops when all have ended (the write path, the debt
snapshot, the composed reads, the recurrence), or in which the clock ends (the
rate limiter).

Fairness. Two runs assume any. `CategoryWrites_concurrent` (`FairSpec`): weak fairness
of the handler's own steps and of the end of a request, which `requestTimeout`
(30 s, `client.go:63`) guarantees whatever YNAB does. Nothing makes the user
answer, and `CallsEnd` lets a call wait for that. `Apply` and `Drop` are not fair.
`RateLimitedClient_burst` (`FairSpec`): time passes and timers fire, `WF(Tick)` and
`WF(Expire)`; neither the limiter's turn nor an answer of YNAB is fair.

## What the source says and the code does not do

The first of these is a violation run and a finding in `PROJECT.json`. The others are
definitions of the modules that no run checks; TLC finds each violated when it
replaces the invariants of the configuration named, with the changes given.

| What the source says | Where | Definition | Configuration |
|---|---|---|---|
| a check-in compares the current with the prior month; on the last days of a month longer than the one before, `AddDate(0, -1, 0)` stays in the month | `tools_tasks.go:1136` | `ComparesPriorMonth` | `TaskReads_month_end` |
| a call with `since_date` always does a full fetch; the code sends the shared cursor, and a wide call after a narrow one misses rows | `README.md:261`, `delta.go:16` | `WindowReads` | `TransactionSync_mixed`, `Readers = {r1}`, `DefaultSince = 1`, `Sinces = {1, 2}` |
| a paid-off debt's minimum rolls to the next debt; it is freed only as that month's leftover | `tools_tasks.go:344` | `FreedMinimumsRoll` | `DebtSnapshot_projections` |
| at the cap the worst case is one extra fetch; a delta merged after another call's flush is returned as the whole list | `delta.go:29` | `ReadsAreSnapshots` | `DeltaSync_concurrent`, `MaxItems` = 1 |
| entries are keyed by a UUID; `last-used` and `default` are keys too, and mix two plans | `delta.go:35` | `AliasReadsAreSnapshots` | `DeltaSync_aliases`, `MaxVersion` = 3 |
| only transactions on or after `since_date` are included; a primed entry is returned whole | `tools.go:149` | `SinceHonoured` | as for `WindowReads` |
| no unbounded request once the cache is populated; the knowledge is read twice, and a flush may come between | `tools.go:343` | `NeverUnbounded` | `TransactionSync_mixed` |
| before and after give the exact delta applied; another client may change the amount between GET and PATCH | `tools_writes.go:104` | `AuditIsExact` | `CategoryWrites_concurrent` |
| the cap guards the difference to YNAB's actual state; the same | `tools_writes.go:512` | `CapBoundsChange` | `CategoryWrites_concurrent` |
| the override equals the new amount; it is compared with the difference | `tools_writes.go:101`, `README.md:256` | `EchoIsAccepted` | `CategoryWrites_concurrent` |
| every write of an eliciting client is confirmed; most elicitation errors count as lack of support | `README.md:255` | `AcceptedByUser` | `CategoryWrites_concurrent` |
| snapshots hold only the fields that changed; they hold the fields that were set | `tools_writes.go:143` | `SnapshotsOnlyOfChanges` | `TransactionUpdates_concurrent` |
| `payoff_order` has every account; one paid off exactly by its minimum is missing | `tools_tasks.go:69` | `EveryDebtHasMilestone` | `DebtSnapshot_projections` |
| the extra payment is faster; as freed minimums are lost it can be slower | `tools.go:805` | `ExtraIsNotSlower` | `DebtSnapshot_projections` |
| a debt is refused if it does not converge within the cap; the progress check gives up in a month in which one debt loses no more than the others grow, although going on would end them all within the cap | `tools_tasks.go:500` | `StalledMeansHopeless` | `DebtSnapshot_projections`, `Accounts` of three, `MaxRows` = 3, `Debts` {5, 26, 32}, no `Credits`, `Aprs` {0, 6, 14}, `Minimums` {5, 8, 29}, `Extras` {0}, `MaxAnnual` = 100 |
| a minimum below the interest is non-fatal; the minimums-only projection fails the call | `tools_tasks.go:83` | `WarningIsNotFatal` | `DebtSnapshot_projections` |
| rounding never changes the number of months; it can end a debt a month early | `tools_tasks.go:331` | `FloorKeepsMonths` | `DebtSnapshot_projections` |
| `new_budgeted` is the value to write; for a category in two tiers the second write undoes the first | `tools_tasks.go:1485` | `ExecutedPlanAddsUp` | `WaterfallAssignment_plan` |
| a check-in's fetch must not be "wrong without any indication"; a row re-dated out of the two weeks still counts as the cache has it, and a cache filled for a later date lacks rows | `tools_tasks.go:1053` | `WeeksAlwaysExact` | `TaskReads_composed` |
| with a truncated fetch the weekly deltas are lower bounds; a difference of lower bounds is not one | `tools_tasks.go:1006` | `DeltasAreLowerBounds` | `TaskReads_composed` |
| with a truncated fetch the amounts of a spending check are lower bounds; the rows cut off may be refunds | `tools_tasks.go:1234` | `SpendingIsLowerBound` | `TaskReads_composed` |
| a spending check adds up the categories listed; a transaction moved between two of them during the call may be in neither answer | `tools_tasks.go:1346` | `SpendingMissesNothing` | `TaskReads_composed` |

Two more remarks have no definition. `client.go:47` counts 190 calls in an hour from
a full bucket; a request may reach YNAB up to a timeout after it was let through, so
the bound proved is 191, still below the 200 YNAB accepts. `income_received` is
described as inflows "categorized to Ready-to-Assign" (`tools_tasks.go:989`); the
code counts every positive row that is not a transfer, a refund included, and so
does the model.

## Assumptions about YNAB

The write path assumes that a PATCH or PUT sets exactly the fields of its body,
that a POST with an import id the account knows inserts nothing and is answered
with a duplicate, and that amounts stay so far inside int64 that the difference
of two of them and the cap does not overflow (`MaxAmount + Cap <= MaxInt`).

`server_knowledge` of a plan's endpoint grows with every change; a response with
a cursor has every row changed after it, deleted ones marked; a deleted row stays
deleted. Whether a response without a cursor lists deleted rows is not said in
the source, so it is a constant, `FullListsTombstones`. Where it matters the
README and the theorems say so: with it FALSE two cold calls that overlap a
deletion can leave a deleted row in the cache.

## Proofs

`DeltaSyncProofs` holds, for every value of the constants:

* `TypeCorrectness`: `Spec => []TypeOK`, with no further assumption. The
  strengthening adds that histories are not empty and that the state a response
  shows exists, without which the type of `Merge` cannot be established.
* `CacheCorrectness`, `ReadCorrectness`: `Spec => []CacheIsSnapshot` and
  `Spec => []ReadsAreSnapshots`, under `Discipline`: either calls do not overlap,
  or full responses list tombstones and all ids fit the cap. Both halves are
  needed: without the cap TLC finds the counterexample of the table above.
* `CacheIsTransparent`: under `Discipline` and without aliases,
  `Spec => ImplementsSnapshotReads`.

The inductive invariant `SnapshotInv` has six named parts. `HistoryOK`: along a
history, a row changes only to one stamped with the new knowledge, and a deleted
row stays deleted. `CacheShows`: `CacheIsSnapshot`. `CursorsOK`: a cursor in
flight is not above the knowledge of its entry (in the sequential case, equal to
it). `RepliesOK`: a response shows an existing state not older than its floor.
`StartsOK` bounds the history variable. The central lemma is `ApplyCatchesUp`:
merging the rows changed after cursor `c` into the visible rows of any state
between `c` and the response's state gives the visible rows of the response's
state; that the cache is ahead of the cursor is what makes late responses
harmless.

`TransactionSyncProofs` holds, for any number of callers, any dates, any cap and any
behaviour of the server, also while the entry overflows: `TypeCorrectness`,
`NothingRevived` (`NoRevival`), `FilteredCallsExact` (`FilteredReadsExact`),
`UnmixedCallsExact` (`ExactUnlessMixed`) and `OnlyFlushesUnbind`
(`UnboundedOnlyByFlush`).

The invariant `ExactInv` has a part for the server's history (`HistoryOK`), one for the
entry (`EntryOK`: its rows are of the history, none newer than its knowledge), one
for each call (`CallOK`: what its window and cursor may be, and what it showed when
it ended), and `PrimedOK`, the heart of it: unless mixed, the entry is exactly the
server's window from `primedFrom`, at its knowledge. `FullResponse`, `Fill`, `CatchUp`
and `Narrower` are the four things a response can be to it. Of `OnlyFlushesUnbind` the
invariant is `DroppedOK`: a call of `list_transactions` without a window found a filled
entry, which is still there when the call takes its cursor, or `lost` says that it is not.

`CategoryWritesProofs` holds, for any set of concurrent calls and any width of
the integers:

* `TypeCorrectness`, in which the category stays in YNAB's range;
* `GuardsHold`: `Spec => []ChecksPrecedeEffects`;
* `OutcomesAreTrue`: `Spec => []OutcomesTell`;
* `AuditsAreTrue`: `Spec => []AuditUnlessDisturbed`, by a further invariant
  (`Anchored`): the snapshot is what the log held where `readAt` points.

The inductive invariant gives every call two parts: `Guarded`, that a call past a
check has passed it, and `Once`, that its place, its entries in the log and its
presence in `wire` agree, so that a request is carried out at most once. A frame
lemma (`Undisturbed`) keeps the other calls out of each step's proof. `CapIsSound`
is the arithmetic: a wrapped difference that passes the cap is the true one.

`TransactionCreatesProofs` holds, for any number of calls, retries and import ids:
`TypeCorrectness`, `OneTransactionPerImportId` (`OncePerImportId`), `OutcomesAreTrue`
(`OutcomesTell`) and `ConfirmedFirst` (`NothingUnconfirmed`). The invariant adds to
them that a call past the prompt was let through (`Confirmed`), that a call has at
most one entry and none before it is sent (`Once`), what each answer says of the
ledger (`Told`), and that an import id is in the ledger once (`Distinct`), whoever
entered it.

`TransactionUpdatesProofs` holds, for any fields and values: `TypeCorrectness`,
`NothingOverwritten` (`OtherFieldsSurvive`), `OnlyApprovalsUnasked` and
`AuditsAreTrue`, by an invariant of the same three parts (`Checked`, `Once`,
`Anchored`).

`MoneyProofs` begins with sums over finite sets: what a change, a part or a
one-to-one renaming does to a sum.

About the waterfall it holds, for any number of tiers, any int64 amounts, and needs
whose sum overflows: `TypeCorrectness`, `Priority` and `ShortfallMeansSpent`. They
rest on `FundedSoFar`: while money remains, all needs met so far are funded in full,
hence the tier's needs add up to its allocation, which is below what came in, and
have not wrapped. That is why an overflow can make `short_by` wrong but can never
release money to a lower tier. `PlanExecution` (`PlanMovesWhatItSays`) adds
`PlanSoFar`: what is assigned and what remains are what came in, and each record
says what the category had and gets. In a plan without repeated categories the
writes do not touch each other. The wrap of `new_budgeted` is in the property: a
category that cannot hold the sum in an int64 does not gain it.

About the debt simulation it holds, for any number of accounts, any rates, balances,
minimums, extra payment and cap: `DebtTypes`, `AvalancheSpendsAll` (`AvalancheMonth`),
`Convergence` (`AmortizingConverges`) and `Milestones` (`MilestonesFitProjection`).
The inductive invariant `DebtIInv` says where a month is (`MonthSoFar`: the balances
are what the steps so far make of `due`), which accounts have ended (`EndedRows`),
that somebody ended in the month before unless it is the first (`LastRow`), and, on
payments that suffice, how far each account has come (`Converging`). The properties
of a month follow from `MonthPaid` alone. `CapacityIsSpent` adds up, in the order of
payment, what each account leaves of the extra payment to the next; `HighestRowFirst`
compares two places in that order. `Convergence` needs that interest never exceeds
that of the first month while balances do not grow, as a division rounded down does
not grow when what is divided shrinks, and that every account falls by its share
each month.

`CalendarProofs` begins with the calendar: months of 28 to 31 days, `MonthAfterMonth`
(each month begins in `DayNumber` where the one before it ends, over leap years and
centuries), `BeforeByDays` (the order of dates as strings, which the code compares, is
that of day numbers, which `daysBetween` subtracts), `DaysAdded` and `MonthsAdded` for
`AddDate`.

About `FrequencyOccurrences` it holds, for any starts, windows and iteration limit:
`TypeCorrect` (no step leaves the calendar), `AdvanceIsLater`,
`ResultStepsThroughWindow`, `ExactOccurrences` (`OccurrencesExact`) and
`OffOnlyAsAdmitted` (`OffAsAdmitted`). The last two compare a loop with a calendar it
does not look at, and rest on `TrackInv`: after k steps the loop is k periods after
`date_next`, or, in months from a day past the 28th, possibly in the first three days of
the month after; it has returned what of its track lies in the window and nothing
else; and each step took at least `LeastDays`, so that a call within the limit has
run past its window. If the track is exact (`ExactTrack`) the result is `Due`;
otherwise `DueIsNear` puts the two at most three days apart. For twiceAMonth, two
days of the same number in different months are four weeks apart (`SameDayApart`),
so in a week at most one date is due besides `date_next`.

About the composed reads it holds, for any items, contents, changes of the plan,
calls, cache and ceilings: `ReadsTyped` (`TypeOK`), `SpendingIsTrue` (`SpendingTrue`),
`VerdictsComplete` (`VerdictIsComplete`), `MonthsAreCompared` (`MonthsCompared`) and
`CheckInsAreTrue` (`CheckInTrue`). The inductive invariant `ReadsInv` has four parts:
`HistoryOK` (along the history a row changes only to one with a later stamp, and
keeps to its side of the item), `AnswersOK` (each answer is one the plan gives at its
time, whole or cut and marked; times ascend), `EntryOK` (until a check-in has its first
answer the cache is what the call found) and `CallTyped`. The properties then follow
from the answers of a call that is done: `PeriodIsPlan` says that under `CacheFits` the
merged entry is the plan for both weeks, `WeeksByAge` that the ends the code computes
cut out the days 0 to 6 and 7 to 13 before, `PartialSums` what a cut does to a sum of
one sign, and `MonthBefore` that up to the 28th `AddDate` finds the month before. The
assumption on the constants (`TaskAssumption`) is what the handlers validate and what
YNAB's data are: dates, whole amounts, at least one category, a finite plan whose
rows were entered at once. A check-in's date is after January of year 0, where the
calendar of the model begins.

`RateLimitedClientProofs` holds, for any number of callers, rate, burst and timeout:
`TypeCorrect` (the limiter's debt never exceeds the timeout), `RateIsKept` and
`LoneCallerIsAdmitted`. The assumptions are those the module states:
`RateAssumption`, in which a refill is no longer than a timeout, and
`QuotaAssumption`, `Burst * Interval + Window + Timeout <= (Quota + 1) * Interval`.
With 20 s, 10, an hour and 30 s it holds for every quota from 191. The inductive
invariant compares any two requests (`PairInv`: between the acts of two grants the
bucket has refilled), the bucket with each (`LevelInv`), and the queue with its end
(`QueueInv`), which is what cancelling a reservation must leave true. The window
bound then counts: requests in a window have distinct numbers in an interval no
longer than `Quota`.

The write path's `TypeOK` is proved and in no run. Every invariant and action
property of the passing runs is stated by a theorem. Only model-checked is the
liveness of calls and requests (`CallsEnd`, `EveryRequestEnds`), which is beyond the
prover. Nor does it take the library's induction theorems, which have a predicate as
a parameter; `ByStep`, `ByElement` and `BySize` in `MoneyProofs` have a set in its
place, whose smallest exception refutes itself, and the facts about sums and dates
rest on them.

## Not modelled

`ynab_status` is five reads one after the other, each of which another module
covers: the accounts (`DeltaSync`), the unapproved transactions (`Aggregate` of
`TransactionSync`) and their count (`UnapprovedCount` of `TaskReads`), scheduled transactions over seven days (`Recurrence`), the month and
the categories; what it adds are sign tests of balances. The parts may be of
different moments, as in `TaskReads`, and it promises nothing else.

The reads without a cache (`list_plans`, `list_months`, `get_month`,
`list_categories`, `list_payees`, `list_scheduled_transactions`) are one GET and a
conversion. Sorting, the caller's `limit` and name matching only shorten what is
shown. In the HTTP client, the host lock, the refusal of redirects, the retries
`net/http` makes on a dead connection and the loading of the token are left out.

String processing (redaction, error wording, money), JSON and URL construction, the
nil caches and sessions of tests, the wrap of a sum of huge minimums in the debt
snapshot (`tools_tasks.go:238`), prompts, names and dates of outputs, the sort of
milestones and limits on lengths are left out. A lasting reset of
`server_knowledge`, which freezes an entry as `delta.go:149` says, is listed as a
hazard and not modelled: it needs a second history of the plan.

## Plan

1. Delta sync: `DeltaCache`, `DeltaSync`, `SnapshotReads`, `TransactionSync` (done).
2. Write path: `WriteGuards`, `CategoryWrites`, `TransactionCreates`,
   `TransactionUpdates` (done).
3. Task tools: `DebtSnapshot`, `WaterfallAssignment`, `TaskReads` (done); `ynab_status`
   as a third tool of `TaskReads` (left).
4. HTTP client: `RateLimitedClient` with the bound on requests in any window (done).
5. Recurrence: `Calendar`, `Recurrence` (done).
6. Proofs: every safety property of the runs (done). Left: what the properties leave
   out, such as that a result of `FrequencyOccurrences` which the limit cuts short is
   the beginning of the whole one.
