--------------------------- MODULE DeltaSyncProofs --------------------------
(***************************************************************************)
(* Proofs about DeltaSync, for all plans, aliases, readers, identifiers    *)
(* and bounds.                                                             *)
(***************************************************************************)
EXTENDS DeltaSync, FiniteSetTheorems, TLAPS

Items == [Ids -> LiveRow \cup {NoRow}]

-----------------------------------------------------------------------------
(* Operators.                                                              *)

(* The visible rows of a state are live rows.                              *)
LEMMA VisibleType ==
  ASSUME NEW s \in State
  PROVE  Visible(s) \in Items
BY NoRowAssumption DEF Visible, State, Items, LiveRow

(* A response is made of rows of the state.                                *)
LEMMA ResponseType ==
  ASSUME NEW s \in State, NEW c
  PROVE  Response(s, c) \in State
BY DEF Response, State

(* Merging a response into live rows gives live rows.                      *)
LEMMA ApplyType ==
  ASSUME NEW items \in Items, NEW d \in State
  PROVE  Apply(items, d) \in Items
BY DEF Apply, State, Items, LiveRow

(* An entry has its type.                                                  *)
Entry == [knowledge : Nat, items : Items]

LEMMA EmptyEntryType == EmptyEntry \in Entry
BY DEF EmptyEntry, Entry, NoItems, Items

(* merge keeps the types of the entry and of what it returns.              *)
LEMMA MergedType ==
  ASSUME NEW e \in Entry, NEW k \in Nat, NEW d \in State
  PROVE  /\ MergedItems(e, k, d) \in Items
         /\ MergedEntry(e, k, d) \in Entry
<1>1. Apply(e.items, d) \in Items
  BY ApplyType DEF Entry
<1> QED
  BY <1>1, EmptyEntryType DEF MergedItems, MergedEntry, Entry

(* One change of the server leads from states to states.                   *)
LEMMA SuccessorsType ==
  ASSUME NEW s \in State, NEW k \in Nat \ {0}, NEW t \in Successors(s, k)
  PROVE  t \in State
BY DEF Successors, State, Row

-----------------------------------------------------------------------------
(* Type correctness.                                                       *)

LEMMA TypeInit == Init => TypeOK
<1> SUFFICES ASSUME Init PROVE TypeOK
  OBVIOUS
<1>1. hist \in [Plans -> Seq(State)]
  <2>1. [at |-> 1, deleted |-> FALSE] \in Row
    BY DEF Row
  <2>2. InitialStates \subseteq State
    BY <2>1 DEF State, InitialStates
  <2>3. \A s \in State : <<s>> \in Seq(State)
    OBVIOUS
  <2>4. \A p \in Plans : hist[p] \in Seq(State)
    BY <2>2, <2>3 DEF Init
  <2>5. hist = [p \in Plans |-> hist[p]]
    BY DEF Init
  <2> QED
    BY <2>4, <2>5
<1>2. cache \in [Names -> Entry]
  BY EmptyEntryType DEF Init
<1>3. NoReply \in [plan : Plans, knowledge : Nat]
  BY PlansAssumption DEF NoReply
<1>4. NoItems \in Items
  BY DEF NoItems, Items
<1> QED
  BY <1>1, <1>2, <1>3, <1>4 DEF Init, TypeOK, Names, Entry, Items

(* The knowledge value 0 never names a state: histories start at 1.        *)
NonEmptyHist == \A p \in Plans : Len(hist[p]) >= 1

LEMMA NonEmptyInit == Init => NonEmptyHist
<1> SUFFICES ASSUME Init, NEW p \in Plans PROVE Len(hist[p]) >= 1
  BY DEF NonEmptyHist
<1>1. PICK s \in InitialStates : hist[p] = <<s>>
  BY DEF Init
<1> QED
  BY <1>1

LEMMA NonEmptyStep == TypeOK /\ NonEmptyHist /\ [Next]_vars => NonEmptyHist'
<1> SUFFICES ASSUME TypeOK, NonEmptyHist, [Next]_vars PROVE NonEmptyHist'
  OBVIOUS
<1>1. ASSUME NEW p \in Plans, Change(p) PROVE NonEmptyHist'
  BY <1>1 DEF Change, NonEmptyHist, TypeOK
<1>2. ASSUME UNCHANGED hist PROVE NonEmptyHist'
  BY <1>2 DEF NonEmptyHist
<1> QED
  BY <1>1, <1>2 DEF Next, vars, server, Repoint, Call, Serve, Merge, Fail

(* A change appends one state to the history of its plan.                  *)
LEMMA ChangeAppends ==
  ASSUME TypeOK, NonEmptyHist, NEW p \in Plans, Change(p)
  PROVE  \E s \in State :
           /\ s \in Successors(hist[p][Len(hist[p])], Len(hist[p]) + 1)
           /\ hist' = [hist EXCEPT ![p] = Append(@, s)]
           /\ hist' \in [Plans -> Seq(State)]
<1>1. PICK s \in Successors(hist[p][Len(hist[p])], Len(hist[p]) + 1) :
        hist' = [hist EXCEPT ![p] = Append(@, s)]
  BY DEF Change
<1>2. /\ hist[p] \in Seq(State)
      /\ Len(hist[p]) \in Nat \ {0}
      /\ hist[p][Len(hist[p])] \in State
  BY DEF TypeOK, NonEmptyHist
<1>3. s \in State
  BY <1>2, SuccessorsType
<1>4. hist' \in [Plans -> Seq(State)]
  BY <1>1, <1>2, <1>3 DEF TypeOK
<1> QED
  BY <1>1, <1>3, <1>4

(* A served response shows a state of the plan it came from.               *)
RepliesExist ==
  \A r \in Readers :
    pc[r] = "served" => reply[r].knowledge \in Version(reply[r].plan)

(* Every step keeps the types.                                             *)
LEMMA TypeStep ==
  TypeOK /\ NonEmptyHist /\ RepliesExist /\ [Next]_vars => TypeOK'
<1> SUFFICES ASSUME TypeOK, NonEmptyHist, RepliesExist, [Next]_vars PROVE TypeOK'
  OBVIOUS
<1>t. cache \in [Names -> Entry] /\ view \in [Readers -> Items]
  BY DEF TypeOK, Entry, Items
<1>1. ASSUME NEW p \in Plans, Change(p) PROVE TypeOK'
  BY <1>1, ChangeAppends DEF Change, locals, TypeOK
<1>2. ASSUME NEW a \in Aliases, NEW p \in Plans, Repoint(a, p) PROVE TypeOK'
  BY <1>2 DEF Repoint, locals, TypeOK
<1>3. ASSUME NEW r \in Readers, NEW n \in Names, Call(r, n) PROVE TypeOK'
  <2>1. Resolve(n) \in Plans
    BY DEF Resolve, Names, TypeOK
  <2>2. Len(hist[Resolve(n)]) \in Nat /\ Knowledge(n) \in Nat
    BY <2>1 DEF Knowledge, TypeOK
  <2>3. NoReply \in [plan : Plans, knowledge : Nat]
    BY PlansAssumption DEF NoReply
  <2>4. view' \in [Readers -> Items]
    BY <1>3, <1>t DEF Call, NoItems, Items
  <2> QED
    BY <1>3, <2>2, <2>3, <2>4 DEF Call, server, Items, TypeOK
<1>4. ASSUME NEW r \in Readers, Serve(r) PROVE TypeOK'
  <2>1. Resolve(name[r]) \in Plans
    BY DEF Resolve, Names, TypeOK
  <2>2. Len(hist[Resolve(name[r])]) \in Nat
    BY <2>1 DEF TypeOK
  <2>3. PICK k \in (IF StaleReads THEN 1 ELSE Len(hist[Resolve(name[r])]))
                   ..Len(hist[Resolve(name[r])]) :
          reply' = [reply EXCEPT ![r] = [plan |-> Resolve(name[r]), knowledge |-> k]]
    BY <1>4 DEF Serve
  <2>4. k \in Nat
    BY <2>2
  <2> QED
    BY <1>4, <2>1, <2>3, <2>4 DEF Serve, server, TypeOK
<1>5. ASSUME NEW r \in Readers, Merge(r) PROVE TypeOK'
  <2>1. hist[reply[r].plan][reply[r].knowledge] \in State
    BY <1>5 DEF Merge, RepliesExist, Version, TypeOK
  <2>2. Deltas(r) \in State
    BY <2>1, ResponseType DEF Deltas
  <2>3. cache[name[r]] \in Entry /\ reply[r].knowledge \in Nat /\ name[r] \in Names
    BY <1>t DEF TypeOK
  <2>4. /\ MergedItems(cache[name[r]], reply[r].knowledge, Deltas(r)) \in Items
        /\ MergedEntry(cache[name[r]], reply[r].knowledge, Deltas(r)) \in Entry
    BY <2>2, <2>3, MergedType
  <2>5. cache' \in [Names -> Entry] /\ view' \in [Readers -> Items]
    BY <1>5, <1>t, <2>3, <2>4 DEF Merge
  <2> QED
    BY <1>5, <2>5 DEF Merge, server, Entry, Items, TypeOK
<1>6. ASSUME NEW r \in Readers, Fail(r) PROVE TypeOK'
  BY <1>6 DEF Fail, server, TypeOK
<1>7. ASSUME UNCHANGED vars PROVE TypeOK'
  BY <1>7 DEF vars, server, locals, TypeOK
<1> QED
  BY <1>1, <1>2, <1>3, <1>4, <1>5, <1>6, <1>7 DEF Next

(* Histories only grow: the states they had are still there.               *)
LEMMA HistoryGrows ==
  ASSUME TypeOK, NonEmptyHist, NEW p \in Plans, Change(p), NEW q \in Plans,
         NEW k \in Version(q)
  PROVE  k \in Version(q)' /\ hist'[q][k] = hist[q][k]
<1>1. PICK s \in State : hist' = [hist EXCEPT ![p] = Append(@, s)]
  BY ChangeAppends
<1>2. hist[q] \in Seq(State) /\ hist \in [Plans -> Seq(State)]
  BY DEF TypeOK
<1>3. CASE q = p
  BY <1>1, <1>2, <1>3 DEF Version
<1>4. CASE q # p
  BY <1>1, <1>2, <1>4 DEF Version
<1> QED
  BY <1>3, <1>4

LEMMA RepliesExistInit == Init => RepliesExist
BY DEF Init, RepliesExist

LEMMA RepliesExistStep ==
  TypeOK /\ NonEmptyHist /\ RepliesExist /\ [Next]_vars => RepliesExist'
<1> SUFFICES ASSUME TypeOK, NonEmptyHist, RepliesExist, [Next]_vars,
                    NEW r \in Readers, pc'[r] = "served"
             PROVE  (reply[r].knowledge \in Version(reply[r].plan))'
  BY DEF RepliesExist
<1>1. ASSUME NEW p \in Plans, Change(p)
      PROVE  (reply[r].knowledge \in Version(reply[r].plan))'
  <2>1. reply' = reply /\ pc' = pc
    BY <1>1 DEF Change, locals
  <2>2. reply[r].plan \in Plans /\ reply[r].knowledge \in Version(reply[r].plan)
    BY <2>1 DEF RepliesExist, TypeOK
  <2> QED
    BY <1>1, <2>1, <2>2, HistoryGrows
<1>2. ASSUME NEW q \in Readers, Serve(q)
      PROVE  (reply[r].knowledge \in Version(reply[r].plan))'
  <2>1. CASE q = r
    <3> DEFINE p == Resolve(name[r])
    <3>1. p \in Plans /\ Len(hist[p]) \in Nat /\ Len(hist[p]) >= 1
      BY DEF Resolve, Names, TypeOK, NonEmptyHist
    <3>2. PICK k \in (IF StaleReads THEN 1 ELSE Len(hist[p]))..Len(hist[p]) :
            reply' = [reply EXCEPT ![r] = [plan |-> p, knowledge |-> k]]
      BY <1>2, <2>1 DEF Serve
    <3>3. k \in 1..Len(hist[p])
      BY <3>1
    <3>4. reply'[r] = [plan |-> p, knowledge |-> k] /\ hist' = hist
      BY <1>2, <2>1, <3>2 DEF Serve, server, TypeOK
    <3> QED
      BY <3>3, <3>4 DEF Version
  <2>2. CASE q # r
    BY <1>2, <2>2 DEF Serve, server, RepliesExist, Version, TypeOK
  <2> QED
    BY <2>1, <2>2
<1>3. ASSUME NEW q \in Readers, NEW n \in Names, Call(q, n)
      PROVE  (reply[r].knowledge \in Version(reply[r].plan))'
  <2>1. q # r
    BY <1>3 DEF Call, TypeOK
  <2> QED
    BY <1>3, <2>1 DEF Call, server, RepliesExist, Version, TypeOK
<1>4. ASSUME NEW q \in Readers, Merge(q) \/ Fail(q)
      PROVE  (reply[r].knowledge \in Version(reply[r].plan))'
  <2>1. q # r
    BY <1>4 DEF Merge, Fail, TypeOK
  <2> QED
    BY <1>4, <2>1 DEF Merge, Fail, server, RepliesExist, Version, TypeOK
<1>5. ASSUME NEW a \in Aliases, NEW p \in Plans, Repoint(a, p)
      PROVE  (reply[r].knowledge \in Version(reply[r].plan))'
  BY <1>5 DEF Repoint, locals, RepliesExist, Version
<1>6. ASSUME UNCHANGED vars
      PROVE  (reply[r].knowledge \in Version(reply[r].plan))'
  BY <1>6 DEF vars, server, locals, RepliesExist, Version
<1> QED
  BY <1>1, <1>2, <1>3, <1>4, <1>5, <1>6 DEF Next

(* TypeOK needs to know that the response a call is about to merge is one  *)
(* the server gave: that is the inductive strengthening.                   *)
TypeInv == TypeOK /\ NonEmptyHist /\ RepliesExist

(* Whatever the callers, the aliases and upstream do, the cache holds live *)
(* rows under their own ids and every cursor is a knowledge value.         *)
THEOREM TypeCorrectness == Spec => []TypeOK
<1>1. Init => TypeInv
  BY TypeInit, NonEmptyInit, RepliesExistInit DEF TypeInv
<1>2. TypeInv /\ [Next]_vars => TypeInv'
  BY TypeStep, NonEmptyStep, RepliesExistStep DEF TypeInv
<1>3. TypeInv => TypeOK
  BY DEF TypeInv
<1> QED
  BY <1>1, <1>2, <1>3, PTL DEF Spec

-----------------------------------------------------------------------------
(* Merging.                                                                *)

(* A row carries the knowledge value of a state it was already part of.    *)
RowsDated(h) ==
  \A k \in 1..Len(h), i \in Ids : h[k][i] # NoRow => h[k][i].at <= k

(* Between two states of a history a row is the same or changed since.     *)
RowsMoveOn(h) ==
  \A k, l \in 1..Len(h), i \in Ids :
    k <= l => h[l][i] = h[k][i] \/ (h[l][i] # NoRow /\ h[l][i].at > k)

(* An entry that shows the history at its own knowledge.                   *)
Shows(e, h) ==
  \/ e = EmptyEntry
  \/ /\ e.knowledge \in 1..Len(h)
     /\ e.items = Visible(h[e.knowledge])

(* The heart of delta sync: rows up to date at K, merged with the response *)
(* for state l to a cursor c that is not ahead of K, are up to date at l.  *)
(* With c behind K the response must list deletions: they may be deletions *)
(* of rows the cache has and the cursor's owner never saw.                 *)
LEMMA ApplyCatchesUp ==
  ASSUME NEW h \in Seq(State), RowsMoveOn(h),
         NEW e \in Entry, Shows(e, h),
         NEW l \in 1..Len(h), e.knowledge <= l,
         NEW c \in Nat, c <= e.knowledge, c = e.knowledge \/ FullListsTombstones
  PROVE  Apply(e.items, Response(h[l], c)) = Visible(h[l])
<1> DEFINE K == e.knowledge
<1>1. h[l] \in State /\ K \in Nat
  BY DEF Entry
<1>2. K = 0 => e.items = NoItems
  BY <1>1 DEF Shows, EmptyEntry
<1>3. K # 0 => K \in 1..Len(h) /\ e.items = Visible(h[K]) /\ h[K] \in State
  BY <1>1 DEF Shows, EmptyEntry
<1>4. ASSUME NEW i \in Ids
      PROVE  Apply(e.items, Response(h[l], c))[i] = Visible(h[l])[i]
  <2> DEFINE x == h[l][i]
  <2>1. x \in Row \cup {NoRow}
    BY <1>1 DEF State
  <2>2. CASE x # NoRow /\ x.at > c
    <3>1. CASE ~ x.deleted \/ c > 0 \/ FullListsTombstones
      BY <2>2, <3>1 DEF Apply, Response, Delivered, Visible
    <3>2. CASE x.deleted /\ ~ (c > 0) /\ ~ FullListsTombstones
      <4>1. K = 0
        BY <3>2
      <4> QED
        BY <2>2, <3>2, <4>1, <1>2 DEF Apply, Response, Delivered, Visible, NoItems
    <3> QED
      BY <3>1, <3>2
  <2>3. CASE x # NoRow /\ ~ (x.at > c)
    <3>1. x.at \in Nat \ {0}
      BY <2>1, <2>3 DEF Row
    <3>2. K # 0 /\ ~ (x.at > K)
      BY <2>3, <3>1, <1>1
    <3>3. h[K][i] = x
      BY <3>2, <1>3 DEF RowsMoveOn
    <3> QED
      BY <2>3, <3>2, <3>3, <1>3 DEF Apply, Response, Delivered, Visible
  <2>4. CASE x = NoRow
    <3>1. K # 0 => h[K][i] = x
      BY <2>4, <1>3 DEF RowsMoveOn
    <3> QED
      BY <2>4, <3>1, <1>2, <1>3 DEF Apply, Response, Delivered, Visible, NoItems
  <2> QED
    BY <2>2, <2>3, <2>4
<1> QED
  BY <1>4 DEF Apply, Visible

(* What merge returns shows the newer of the entry and the response, and   *)
(* what it leaves in the cache shows what it returned, or is empty.        *)
LEMMA MergeShows ==
  ASSUME NEW h \in Seq(State), RowsMoveOn(h),
         NEW e \in Entry, Shows(e, h),
         NEW l \in 1..Len(h),
         NEW c \in Nat, c <= e.knowledge, c = e.knowledge \/ FullListsTombstones
  PROVE  /\ Shows(MergedEntry(e, l, Response(h[l], c)), h)
         /\ \E k \in 1..Len(h) :
              /\ k >= l /\ k >= e.knowledge
              /\ MergedItems(e, l, Response(h[l], c)) = Visible(h[k])
<1> DEFINE d == Response(h[l], c)
<1>1. e.knowledge \in Nat
  BY DEF Entry
<1>2. CASE Regresses(e, l)
  <2>1. e # EmptyEntry
    BY <1>2 DEF Regresses, EmptyEntry
  <2>2. e.knowledge \in 1..Len(h) /\ e.items = Visible(h[e.knowledge])
    BY <2>1 DEF Shows
  <2> QED
    BY <1>2, <2>2 DEF MergedEntry, MergedItems, Regresses
<1>3. CASE ~ Regresses(e, l)
  <2>1. e.knowledge <= l
    BY <1>1, <1>3 DEF Regresses
  <2>2. Apply(e.items, d) = Visible(h[l])
    BY <2>1, ApplyCatchesUp
  <2>3. MergedItems(e, l, d) = Visible(h[l])
    BY <1>3, <2>2 DEF MergedItems
  <2>4. Shows(MergedEntry(e, l, d), h)
    BY <1>3, <2>2 DEF MergedEntry, Shows
  <2> QED
    BY <2>1, <2>3, <2>4
<1> QED
  BY <1>2, <1>3

(* An endpoint that fits in the cache never overflows it.                  *)
LEMMA NoFlush ==
  ASSUME IsFiniteSet(Ids), Cardinality(Ids) <= MaxItems, NEW items
  PROVE  ~ Overflows(items)
<1>1. Held(items) \subseteq Ids
  BY DEF Held
<1>2. Cardinality(Held(items)) <= Cardinality(Ids)
  BY <1>1, FS_Subset
<1>3. Cardinality(Held(items)) \in Nat /\ Cardinality(Ids) \in Nat
  BY <1>1, FS_Subset, FS_CardinalityType
<1> QED
  BY <1>2, <1>3, MaxItemsAssumption DEF Overflows

-----------------------------------------------------------------------------
(* Snapshots.                                                              *)

(* What the result below asks of the outside: either calls do not overlap, *)
(* or a response without a cursor lists deletions and no endpoint outgrows *)
(* the cache.                                                              *)
Sequential == \A q, r \in Readers : q = r

Fits == IsFiniteSet(Ids) /\ Cardinality(Ids) <= MaxItems

Discipline == Sequential \/ (FullListsTombstones /\ Fits)

HistoryOK == \A p \in Plans : RowsDated(hist[p]) /\ RowsMoveOn(hist[p])

CacheShows == \A p \in Plans : Shows(cache[p], hist[p])

InFlight(r) == pc[r] \in {"asking", "served"} /\ name[r] \in Plans

(* The cursor of a call in flight is not ahead of the cache, and is behind *)
(* it only where that is harmless.                                         *)
CursorsOK ==
  \A r \in Readers :
    InFlight(r) => /\ cursor[r] <= cache[name[r]].knowledge
                   /\ cursor[r] = cache[name[r]].knowledge \/ FullListsTombstones

(* A response is for the plan that was asked for and not older than the    *)
(* call, unless upstream replays.                                          *)
RepliesOK ==
  \A r \in Readers :
    pc[r] = "served" /\ name[r] \in Plans =>
      /\ reply[r].plan = name[r]
      /\ StaleReads \/ reply[r].knowledge >= start[r]

(* A call did not begin in the future.                                     *)
StartsOK ==
  \A r \in Readers : InFlight(r) => start[r] <= Len(hist[name[r]])

SnapshotInv ==
  /\ TypeInv /\ HistoryOK /\ CacheShows /\ CursorsOK /\ RepliesOK
  /\ StartsOK /\ ReadsAreSnapshots

LEMMA ShowsIsSnapshot == CacheShows <=> CacheIsSnapshot
BY DEF CacheShows, Shows, CacheIsSnapshot, Version

LEMMA HistoryInit == Init => HistoryOK
<1> SUFFICES ASSUME Init, NEW p \in Plans
             PROVE  RowsDated(hist[p]) /\ RowsMoveOn(hist[p])
  BY DEF HistoryOK
<1>1. PICK s \in InitialStates : hist[p] = <<s>>
  BY DEF Init
<1>2. \A k \in 1..Len(hist[p]) : k = 1 /\ hist[p][k] = s
  BY <1>1
<1>3. \A i \in Ids : s[i] # NoRow => s[i].at = 1
  BY DEF InitialStates
<1> QED
  BY <1>2, <1>3 DEF RowsDated, RowsMoveOn

(* Appending a successor keeps the rows dated and moving on.               *)
LEMMA AppendOK ==
  ASSUME NEW h \in Seq(State), Len(h) >= 1, RowsDated(h), RowsMoveOn(h),
         NEW s \in State, s \in Successors(h[Len(h)], Len(h) + 1)
  PROVE  RowsDated(Append(h, s)) /\ RowsMoveOn(Append(h, s))
<1> DEFINE n == Len(h)
           g == Append(h, s)
<1>1. /\ n \in Nat \ {0} /\ Len(g) = n + 1 /\ g[n + 1] = s
      /\ \A k \in 1..n : g[k] = h[k]
  OBVIOUS
<1>2. \A i \in Ids : s[i] = h[n][i] \/ (s[i] # NoRow /\ s[i].at = n + 1)
  <2>1. \A b \in BOOLEAN : [at |-> n + 1, deleted |-> b] \in Row
    BY <1>1 DEF Row
  <2>2. \A i \in Ids : \/ s[i] = h[n][i]
                       \/ \E b \in BOOLEAN : s[i] = [at |-> n + 1, deleted |-> b]
    BY DEF Successors
  <2> SUFFICES ASSUME NEW i \in Ids, s[i] # h[n][i]
               PROVE  s[i] # NoRow /\ s[i].at = n + 1
    OBVIOUS
  <2>3. PICK b \in BOOLEAN : s[i] = [at |-> n + 1, deleted |-> b]
    BY <2>2
  <2>4. s[i] # NoRow
    BY <2>1, <2>3, NoRowAssumption
  <2>5. [at |-> n + 1, deleted |-> b].at = n + 1
    OBVIOUS
  <2> QED
    BY <2>3, <2>4, <2>5, Zenon
<1>3. \A k \in 1..n, i \in Ids : h[k][i] # NoRow => h[k][i].at <= k
  BY DEF RowsDated
<1>4. RowsDated(g)
  <2> SUFFICES ASSUME NEW k \in 1..Len(g), NEW i \in Ids, g[k][i] # NoRow
               PROVE  g[k][i].at <= k
    BY DEF RowsDated
  <2>1. CASE k <= n
    BY <1>1, <1>3, <2>1
  <2>2. CASE k = n + 1
    <3>1. h[n][i] # NoRow => h[n][i].at \in Nat /\ h[n][i].at <= n
      BY <1>1, <1>3 DEF State, Row
    <3> QED
      BY <1>1, <1>2, <2>2, <3>1
  <2> QED
    BY <1>1, <2>1, <2>2
<1>5. RowsMoveOn(g)
  <2> SUFFICES ASSUME NEW k \in 1..Len(g), NEW l \in 1..Len(g), NEW i \in Ids, k <= l
               PROVE  g[l][i] = g[k][i] \/ (g[l][i] # NoRow /\ g[l][i].at > k)
    BY DEF RowsMoveOn
  <2>1. CASE l <= n
    BY <1>1, <2>1 DEF RowsMoveOn
  <2>2. CASE l = n + 1 /\ k <= n
    <3>1. h[n][i] = h[k][i] \/ (h[n][i] # NoRow /\ h[n][i].at > k)
      BY <1>1, <2>2 DEF RowsMoveOn
    <3> QED
      BY <1>1, <1>2, <2>2, <3>1
  <2>3. CASE l = n + 1 /\ k = n + 1
    BY <2>3
  <2> QED
    BY <1>1, <2>1, <2>2, <2>3
<1> QED
  BY <1>4, <1>5

(* What holds of an old history still holds when the history has grown.    *)
LEMMA ChangeKeeps ==
  ASSUME TypeInv, HistoryOK, CacheShows, ReadsAreSnapshots, NEW p \in Plans, Change(p)
  PROVE  HistoryOK' /\ CacheShows' /\ ReadsAreSnapshots'
<1> USE DEF TypeInv
<1>1. PICK s \in State :
        /\ s \in Successors(hist[p][Len(hist[p])], Len(hist[p]) + 1)
        /\ hist' = [hist EXCEPT ![p] = Append(@, s)]
  BY ChangeAppends
<1>2. HistoryOK'
  <2>1. RowsDated(Append(hist[p], s)) /\ RowsMoveOn(Append(hist[p], s))
    BY <1>1, AppendOK DEF HistoryOK, TypeOK, NonEmptyHist
  <2> QED
    BY <1>1, <2>1 DEF HistoryOK, TypeOK
<1>3. \A q \in Plans : \A k \in 1..Len(hist[q]) :
        k \in 1..Len(hist'[q]) /\ hist'[q][k] = hist[q][k]
  BY HistoryGrows DEF Version
<1>4. CacheShows'
  BY <1>3 DEF Change, CacheShows, Shows
<1>5. ReadsAreSnapshots'
  BY <1>3 DEF Change, locals, ReadsAreSnapshots, Version, Floor
<1> QED
  BY <1>2, <1>4, <1>5

(* A merge in plan n's entry.                                              *)
LEMMA MergeKeeps ==
  ASSUME Discipline, SnapshotInv, NEW r \in Readers, Merge(r)
  PROVE  CacheShows' /\ CursorsOK' /\ ReadsAreSnapshots'
<1> USE DEF SnapshotInv, TypeInv
<1> DEFINE n == name[r]
           l == reply[r].knowledge
           e == cache[n]
           d == Deltas(r)
<1>t. /\ cache \in [Names -> Entry] /\ view \in [Readers -> Items]
      /\ n \in Names /\ e \in Entry /\ e.knowledge \in Nat /\ l \in Nat
      /\ cursor[r] \in Nat
  BY DEF TypeOK, Entry, Items
<1>m. /\ view' = [view EXCEPT ![r] = MergedItems(e, l, d)]
      /\ cache' = [cache EXCEPT ![n] = MergedEntry(e, l, d)]
      /\ pc' = [pc EXCEPT ![r] = "done"]
      /\ hist' = hist /\ name' = name /\ cursor' = cursor /\ start' = start
      /\ pc[r] = "served"
  BY DEF Merge, server
<1>p. \A q \in Readers : pc'[q] = IF q = r THEN "done" ELSE pc[q]
  BY <1>m DEF TypeOK
<1>1. CASE n \in Plans
  <2>1. /\ hist[n] \in Seq(State) /\ RowsMoveOn(hist[n]) /\ Shows(e, hist[n])
        /\ cursor[r] <= e.knowledge
        /\ cursor[r] = e.knowledge \/ FullListsTombstones
        /\ reply[r].plan = n /\ l \in 1..Len(hist[n])
        /\ StaleReads \/ l >= start[r]
    BY <1>1, <1>m
       DEF HistoryOK, CacheShows, CursorsOK, InFlight, RepliesOK, RepliesExist,
           Version, TypeOK
  <2>2. d = Response(hist[n][l], cursor[r])
    BY <2>1 DEF Deltas
  <2>3. /\ Shows(MergedEntry(e, l, d), hist[n])
        /\ \E k \in 1..Len(hist[n]) :
             k >= l /\ k >= e.knowledge /\ MergedItems(e, l, d) = Visible(hist[n][k])
    <3> HIDE DEF n, l, e, d
    <3>1. e \in Entry /\ cursor[r] \in Nat
      BY <1>t
    <3> QED
      BY <2>1, <2>2, <3>1, MergeShows
  <2>4. CacheShows'
    <3> SUFFICES ASSUME NEW p \in Plans PROVE Shows(cache'[p], hist[p])
      BY <1>m DEF CacheShows
    <3>1. p \in Names
      BY DEF Names
    <3>2. CASE p = n
      BY <1>m, <1>t, <2>3, <3>1, <3>2
    <3>3. CASE p # n
      BY <1>m, <1>t, <3>1, <3>3 DEF CacheShows
    <3> QED
      BY <3>2, <3>3
  <2>5. CursorsOK'
    <3> SUFFICES ASSUME NEW q \in Readers, InFlight(q)'
                 PROVE  /\ cursor[q] <= cache'[name[q]].knowledge
                        /\ \/ cursor[q] = cache'[name[q]].knowledge
                           \/ FullListsTombstones
      BY <1>m DEF CursorsOK
    <3>1. q # r /\ InFlight(q)
      BY <1>p, <1>m DEF InFlight
    <3>2. /\ FullListsTombstones /\ Fits
      BY <3>1 DEF Discipline, Sequential
    <3>3. cursor[q] \in Nat /\ name[q] \in Names /\ cursor[q] <= cache[name[q]].knowledge
      BY <3>1 DEF CursorsOK, TypeOK
    <3>4. MergedEntry(e, l, d).knowledge >= e.knowledge
      BY <3>2, <1>t, NoFlush DEF MergedEntry, Regresses, Fits
    <3>5. MergedEntry(e, l, d).knowledge \in Nat
      BY <1>t, <3>2, NoFlush DEF MergedEntry, Fits
    <3>6. CASE name[q] = n
      BY <3>2, <3>3, <3>4, <3>5, <3>6, <1>t, <1>m
    <3>7. CASE name[q] # n
      BY <3>2, <3>3, <3>7, <1>t, <1>m
    <3> QED
      BY <3>6, <3>7
  <2>6. ReadsAreSnapshots'
    <3> SUFFICES ASSUME NEW q \in Readers, pc'[q] = "done", name[q] \in Plans
                 PROVE  \E k \in 1..Len(hist[name[q]]) :
                          /\ k >= (IF StaleReads THEN cursor[q] ELSE start[q])
                          /\ view'[q] = Visible(hist[name[q]][k])
      BY <1>m DEF ReadsAreSnapshots, Version, Floor
    <3>1. CASE q = r
      <4>1. PICK k \in 1..Len(hist[n]) :
              k >= l /\ k >= e.knowledge /\ MergedItems(e, l, d) = Visible(hist[n][k])
        BY <2>3
      <4>2. view'[r] = Visible(hist[n][k])
        BY <1>m, <1>t, <4>1
      <4>3. start[r] \in Nat /\ k \in Nat
        BY <2>1 DEF TypeOK
      <4>4. k >= (IF StaleReads THEN cursor[r] ELSE start[r])
        BY <2>1, <4>1, <4>3, <1>t
      <4> QED
        BY <3>1, <4>2, <4>4
    <3>2. CASE q # r
      BY <3>2, <1>m, <1>p, <1>t DEF ReadsAreSnapshots, Version, Floor
    <3> QED
      BY <3>1, <3>2
  <2> QED
    BY <2>4, <2>5, <2>6
<1>2. CASE n \notin Plans
  <2>1. \A q \in Names : q # n => cache'[q] = cache[q]
    BY <1>m, <1>t
  <2>2. \A q \in Readers : q # r => view'[q] = view[q]
    BY <1>m, <1>t
  <2> QED
    BY <1>2, <1>m, <1>p, <2>1, <2>2
       DEF CacheShows, CursorsOK, InFlight, ReadsAreSnapshots, Version, Floor, Names
<1> QED
  BY <1>1, <1>2

LEMMA SnapshotStep ==
  ASSUME Discipline, SnapshotInv, [Next]_vars
  PROVE  SnapshotInv'
<1> USE DEF SnapshotInv
<1>0. TypeInv'
  BY TypeStep, NonEmptyStep, RepliesExistStep DEF TypeInv
<1>1. ASSUME NEW p \in Plans, Change(p) PROVE SnapshotInv'
  <2>1. HistoryOK' /\ CacheShows' /\ ReadsAreSnapshots'
    BY <1>1, ChangeKeeps
  <2>2. CursorsOK' /\ RepliesOK'
    BY <1>1 DEF Change, locals, CursorsOK, InFlight, RepliesOK
  <2>3. StartsOK'
    <3>1. \A q \in Plans : Len(hist'[q]) \in Nat /\ Len(hist[q]) \in Nat
                           /\ Len(hist'[q]) >= Len(hist[q])
      BY <1>1 DEF Change, TypeInv, TypeOK
    <3> QED
      BY <1>1, <3>1 DEF Change, locals, StartsOK, InFlight, TypeInv, TypeOK
  <2> QED
    BY <1>0, <2>1, <2>2, <2>3
<1>2. ASSUME NEW a \in Aliases, NEW p \in Plans, Repoint(a, p) PROVE SnapshotInv'
  BY <1>0, <1>2
     DEF Repoint, locals, HistoryOK, CacheShows, CursorsOK, InFlight, RepliesOK,
         StartsOK, ReadsAreSnapshots, Version, Floor
<1>3. ASSUME NEW r \in Readers, NEW n \in Names, Call(r, n) PROVE SnapshotInv'
  <2>1. HistoryOK' /\ CacheShows'
    BY <1>3 DEF Call, server, HistoryOK, CacheShows
  <2>2. \A q \in Readers :
          q # r => /\ pc'[q] = pc[q] /\ name'[q] = name[q] /\ cursor'[q] = cursor[q]
                   /\ reply'[q] = reply[q] /\ view'[q] = view[q] /\ start'[q] = start[q]
    BY <1>3 DEF Call, TypeInv, TypeOK
  <2>3. pc'[r] = "asking" /\ name'[r] = n /\ cursor'[r] = cache[n].knowledge
        /\ cache' = cache /\ hist' = hist /\ cache[n].knowledge \in Nat
    BY <1>3 DEF Call, server, Knowledge, TypeInv, TypeOK
  <2>4. CursorsOK'
    BY <2>2, <2>3 DEF CursorsOK, InFlight
  <2>5. RepliesOK' /\ ReadsAreSnapshots'
    BY <2>2, <2>3 DEF RepliesOK, ReadsAreSnapshots, Version, Floor
  <2>6. StartsOK'
    <3>1. n \in Plans => start'[r] = Len(hist[n]) /\ Len(hist[n]) \in Nat
      BY <1>3 DEF Call, Resolve, TypeInv, TypeOK
    <3> QED
      BY <2>2, <2>3, <3>1 DEF StartsOK, InFlight
  <2> QED
    BY <1>0, <2>1, <2>4, <2>5, <2>6
<1>4. ASSUME NEW r \in Readers, Serve(r) PROVE SnapshotInv'
  <2>1. HistoryOK' /\ CacheShows'
    BY <1>4 DEF Serve, server, HistoryOK, CacheShows
  <2>2. \A q \in Readers :
          /\ pc'[q] = (IF q = r THEN "served" ELSE pc[q])
          /\ q # r => reply'[q] = reply[q]
    BY <1>4 DEF Serve, TypeInv, TypeOK
  <2>3. /\ cache' = cache /\ hist' = hist /\ name' = name /\ cursor' = cursor
        /\ view' = view /\ start' = start /\ pc[r] = "asking"
    BY <1>4 DEF Serve, server
  <2>4. CursorsOK' /\ ReadsAreSnapshots' /\ StartsOK'
    BY <2>2, <2>3 DEF CursorsOK, InFlight, StartsOK, ReadsAreSnapshots, Version, Floor
  <2>5. RepliesOK'
    <3> SUFFICES ASSUME NEW q \in Readers, pc'[q] = "served", name[q] \in Plans
                 PROVE  /\ reply'[q].plan = name[q]
                        /\ StaleReads \/ reply'[q].knowledge >= start[q]
      BY <2>3 DEF RepliesOK
    <3>1. CASE q = r
      <4> DEFINE p == Resolve(name[r])
      <4>1. PICK k \in (IF StaleReads THEN 1 ELSE Len(hist[p]))..Len(hist[p]) :
              reply' = [reply EXCEPT ![r] = [plan |-> p, knowledge |-> k]]
        BY <1>4 DEF Serve
      <4>2. p = name[r] /\ reply'[r] = [plan |-> p, knowledge |-> k]
        BY <3>1, <4>1 DEF Resolve, TypeInv, TypeOK
      <4>3. StaleReads \/ (Len(hist[p]) \in Nat /\ k >= Len(hist[p]))
        BY <3>1, <4>2 DEF TypeInv, TypeOK
      <4>4. start[r] <= Len(hist[name[r]])
        BY <2>3, <3>1 DEF StartsOK, InFlight
      <4> QED
        BY <3>1, <4>2, <4>3, <4>4 DEF TypeInv, TypeOK
    <3>2. CASE q # r
      BY <2>2, <3>2 DEF RepliesOK
    <3> QED
      BY <3>1, <3>2
  <2> QED
    BY <1>0, <2>1, <2>4, <2>5
<1>5. ASSUME NEW r \in Readers, Merge(r) PROVE SnapshotInv'
  <2>1. CacheShows' /\ CursorsOK' /\ ReadsAreSnapshots'
    BY <1>5, MergeKeeps
  <2>2. HistoryOK' /\ RepliesOK' /\ StartsOK'
    BY <1>5 DEF Merge, server, HistoryOK, RepliesOK, StartsOK, InFlight, TypeInv, TypeOK
  <2> QED
    BY <1>0, <2>1, <2>2
<1>6. ASSUME NEW r \in Readers, Fail(r) PROVE SnapshotInv'
  <2>1. \A q \in Readers : pc'[q] = (IF q = r THEN "failed" ELSE pc[q])
    BY <1>6 DEF Fail, TypeInv, TypeOK
  <2> QED
    BY <1>0, <1>6, <2>1
       DEF Fail, server, HistoryOK, CacheShows, CursorsOK, InFlight, RepliesOK,
           StartsOK, ReadsAreSnapshots, Version, Floor
<1>7. ASSUME UNCHANGED vars PROVE SnapshotInv'
  BY <1>0, <1>7
     DEF vars, server, locals, HistoryOK, CacheShows, CursorsOK, InFlight, RepliesOK,
         StartsOK, ReadsAreSnapshots, Version, Floor
<1> QED
  BY <1>1, <1>2, <1>3, <1>4, <1>5, <1>6, <1>7 DEF Next

LEMMA SnapshotInit == Init => SnapshotInv
<1> SUFFICES ASSUME Init PROVE SnapshotInv
  OBVIOUS
<1>1. TypeInv
  BY TypeInit, NonEmptyInit, RepliesExistInit DEF TypeInv
<1>2. CacheShows
  BY DEF Init, CacheShows, Shows, Names
<1>3. CursorsOK /\ RepliesOK /\ StartsOK /\ ReadsAreSnapshots
  BY DEF Init, CursorsOK, RepliesOK, StartsOK, InFlight, ReadsAreSnapshots
<1> QED
  BY <1>1, <1>2, <1>3, HistoryInit DEF SnapshotInv

LEMMA SnapshotInvariance == ASSUME Discipline PROVE Spec => []SnapshotInv
<1>1. SnapshotInv /\ [Next]_vars => SnapshotInv'
  BY SnapshotStep
<1> QED
  BY <1>1, SnapshotInit, PTL DEF Spec

(* Under the discipline, an entry keyed by a plan id always shows one      *)
(* state of its plan, whatever responses were lost, failed or replayed.    *)
THEOREM CacheCorrectness == ASSUME Discipline PROVE Spec => []CacheIsSnapshot
<1>1. SnapshotInv => CacheIsSnapshot
  BY ShowsIsSnapshot DEF SnapshotInv
<1> QED
  BY <1>1, SnapshotInvariance, PTL

(* Under the discipline, every successful list_accounts for a plan id      *)
(* returns the complete live rows of one state, not older than the call.   *)
THEOREM ReadCorrectness == ASSUME Discipline PROVE Spec => []ReadsAreSnapshots
<1>1. SnapshotInv => ReadsAreSnapshots
  BY DEF SnapshotInv
<1> QED
  BY <1>1, SnapshotInvariance, PTL

-----------------------------------------------------------------------------
(* Refinement.                                                             *)

(* The abstract specification has the same server.                         *)
LEMMA SameServer ==
  /\ Abstract!InitialStates = InitialStates
  /\ \A s, k : Abstract!Successors(s, k) = Successors(s, k)
  /\ \A s : Abstract!Visible(s) = Visible(s)
  /\ Abstract!NoItems = NoItems
BY DEF Abstract!InitialStates, InitialStates, Abstract!Successors, Successors,
       Abstract!Live, Live, Abstract!Visible, Visible, Abstract!NoItems, NoItems

LEMMA RefinementInit == ASSUME Aliases = {} PROVE Init => Abstract!Init
<1> SUFFICES ASSUME Init PROVE Abstract!Init
  OBVIOUS
<1>1. [r \in Readers |-> Status(r)] = [r \in Readers |-> "idle"]
  BY DEF Init, Status
<1>2. NoReply.plan \in Plans
  BY PlansAssumption DEF NoReply
<1> QED
  BY <1>1, <1>2, SameServer DEF Init, Abstract!Init

(* A step changes the abstract status of one call only.                    *)
LEMMA StatusStep ==
  ASSUME TypeOK, NEW r \in Readers, NEW c, pc' = [pc EXCEPT ![r] = c]
  PROVE  [q \in Readers |-> Status(q)]' =
           [[q \in Readers |-> Status(q)] EXCEPT
              ![r] = IF c \in {"asking", "served"} THEN "waiting" ELSE c]
BY DEF TypeOK, Status

LEMMA RefinementStep ==
  ASSUME Discipline, Aliases = {}, SnapshotInv, SnapshotInv', [Next]_vars
  PROVE  [Abstract!Next]_(Abstract!vars)
<1> DEFINE st == [q \in Readers |-> Status(q)]
<1> USE DEF SnapshotInv, TypeInv
<1>n. Names = Plans /\ \A n \in Plans : Resolve(n) = n
  BY DEF Names, Resolve
<1>1. ASSUME NEW p \in Plans, Change(p) PROVE Abstract!Change(p)
  <2>1. st' = st
    BY <1>1 DEF Change, locals, Status
  <2> QED
    BY <1>1, <2>1, SameServer DEF Change, locals, Abstract!Change
<1>3. ASSUME NEW r \in Readers, NEW n \in Plans, Call(r, n) PROVE Abstract!Call(r, n)
  <2>1. st' = [st EXCEPT ![r] = "waiting"]
    BY <1>3, StatusStep DEF Call
  <2>2. st[r] # "waiting"
    BY <1>3 DEF Call, Status
  <2> QED
    BY <1>3, <1>n, <2>1, <2>2, SameServer DEF Call, server, Abstract!Call
<1>4. ASSUME NEW r \in Readers, Serve(r) PROVE UNCHANGED Abstract!vars
  <2>1. st' = [st EXCEPT ![r] = "waiting"]
    BY <1>4, StatusStep DEF Serve
  <2>2. st[r] = "waiting" /\ st = [q \in Readers |-> st[q]]
    BY <1>4 DEF Serve, Status
  <2>3. st' = st
    BY <2>1, <2>2
  <2> QED
    BY <1>4, <2>3 DEF Serve, server, Abstract!vars
<1>5. ASSUME NEW r \in Readers, Merge(r) PROVE Abstract!Return(r)
  <2>1. st' = [st EXCEPT ![r] = "done"]
    BY <1>5, StatusStep DEF Merge
  <2>2. st[r] = "waiting"
    BY <1>5 DEF Merge, Status
  <2>3. pc'[r] = "done" /\ name'[r] \in Plans /\ hist' = hist /\ name' = name
        /\ start' = start /\ cursor' = cursor
    BY <1>5, <1>n DEF Merge, server, TypeOK
  <2>4. \E k \in Version(name[r]) :
          k >= Floor(r) /\ view'[r] = Visible(hist[name[r]][k])
    BY <2>3 DEF ReadsAreSnapshots, Version, Floor
  <2>5. \E k \in Abstract!Floor(r)..Len(hist[name[r]]) :
          view'[r] = Visible(hist[name[r]][k])
    <3>1. Len(hist[name[r]]) \in Nat /\ start[r] \in Nat
      BY <1>n DEF TypeOK
    <3> QED
      BY <2>4, <3>1, StaleReadsAssumption DEF Abstract!Floor, Floor, Version
  <2>6. view' = [view EXCEPT ![r] = view'[r]]
    BY <1>5 DEF Merge, TypeOK
  <2> QED
    BY <1>5, <2>1, <2>2, <2>3, <2>5, <2>6, SameServer DEF Abstract!Return
<1>6. ASSUME NEW r \in Readers, Fail(r) PROVE Abstract!Fail(r)
  <2>1. st' = [st EXCEPT ![r] = "failed"]
    BY <1>6, StatusStep DEF Fail
  <2>2. st[r] = "waiting"
    BY <1>6 DEF Fail, Status
  <2> QED
    BY <1>6, <2>1, <2>2 DEF Fail, server, Abstract!Fail
<1>7. ASSUME UNCHANGED vars PROVE UNCHANGED Abstract!vars
  BY <1>7 DEF vars, server, locals, Status, Abstract!vars
<1> QED
  BY <1>1, <1>3, <1>4, <1>5, <1>6, <1>7, <1>n DEF Next, Abstract!Next

(* Under the discipline and without aliases, list_accounts with the cache  *)
(* is list_accounts without it.                                            *)
THEOREM CacheIsTransparent ==
  ASSUME Discipline, Aliases = {}
  PROVE  Spec => ImplementsSnapshotReads
<1>1. Init => Abstract!Init
  BY RefinementInit
<1>2. SnapshotInv /\ SnapshotInv' /\ [Next]_vars => [Abstract!Next]_(Abstract!vars)
  BY RefinementStep
<1> QED
  BY <1>1, <1>2, SnapshotInvariance, PTL DEF Spec, Abstract!Spec, ImplementsSnapshotReads
=============================================================================
