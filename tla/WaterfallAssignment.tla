------------------------ MODULE WaterfallAssignment -------------------------
(***************************************************************************)
(* ynab_waterfall_assignment: walk the tiers in order of priority and      *)
(* propose, for each of their categories, how much of the incoming amount  *)
(* to assign.  The tool writes nothing; a caller who approves the plan     *)
(* passes each new_budgeted to update_category_budgeted.                   *)
(*                                                                         *)
(*   CheckTiers  validation and get_month;                                 *)
(*   Skip        a category that the month does not have;                  *)
(*   Withhold    a category after a tier that stopped the waterfall;       *)
(*   Allocate    any other category;                                       *)
(*   CloseTier   the summary of a tier.                                    *)
(*                                                                         *)
(* Amounts are int64 milliunits; MaxInt takes the place of math.MaxInt64.  *)
(* Names and the texts of warnings are left out.                           *)
(***************************************************************************)
EXTENDS Integers, Sequences, Functions

CONSTANTS
  MaxInt,          \* math.MaxInt64
  Categories,      \* category ids
  Budgets,         \* amounts budgeted in the month
  Incomings,       \* incoming amounts callers pass
  Needs,           \* needs callers pass
  MaxTiers,        \* bound on the tiers of a call
  MaxEntries       \* bound on the categories of a tier

Int64 == (- MaxInt - 1)..MaxInt

ASSUME WaterfallAssumption ==
  /\ MaxInt \in Nat /\ MaxTiers \in Nat /\ MaxEntries \in Nat
  /\ Budgets \subseteq Int64 /\ Incomings \subseteq Int64 /\ Needs \subseteq Int64

VARIABLES
  budgeted,         \* the month: known categories and what they have
  incoming,         \* in.IncomingAmountMilliunits
  tiers,            \* in.PriorityTiers
  progress,         \* "called", "walking", "proposed" or "refused"
  tier, place,      \* where the walk is
  remaining, stopAllocatingRemainingTiers, tierNeeded, tierAllocated,
  allocations,      \* out.ProposedAllocations
  tierSummary       \* out.TierSummary

waterfallInputs == <<budgeted, incoming, tiers>>
walk == <<tier, place, remaining, stopAllocatingRemainingTiers, tierNeeded, tierAllocated>>
waterfallVars == <<waterfallInputs, progress, walk, allocations, tierSummary>>

(* Sequences of at most n elements of S.                                   *)
UpTo(n, S) == UNION {[1..k -> S] : k \in 0..n}

TierEntries == [category : Categories, need : Needs]

Tiers == [stop : BOOLEAN, categories : UpTo(MaxEntries, TierEntries)]

-----------------------------------------------------------------------------
(* Mutated forms, for mutation testing.                                    *)

RemainingUntouched(alloc) == remaining

AllocEvenly(need) == IF need > remaining THEN remaining \div 2 ELSE need

AllocFromIncoming(need) == IF need > incoming THEN incoming ELSE need

NewFromAllocation(c, alloc) == alloc

-----------------------------------------------------------------------------
Wrap(x) ==
  IF x > MaxInt THEN x - 2 * (MaxInt + 1)
  ELSE IF x < - MaxInt - 1 THEN x + 2 * (MaxInt + 1)
  ELSE x

ValidTiers ==
  /\ incoming >= 0
  /\ tiers # <<>>
  /\ \A t \in DOMAIN tiers :
       /\ tiers[t].categories # <<>>
       /\ \A k \in DOMAIN tiers[t].categories : tiers[t].categories[k].need >= 0

Alloc(need) == IF need > remaining THEN remaining ELSE need

RemainingAfter(alloc) == remaining - alloc

NewBudgeted(c, alloc) == Wrap(budgeted[c] + alloc)

WaterfallInit ==
  /\ budgeted \in UNION {[S -> Budgets] : S \in SUBSET Categories}
  /\ incoming \in Incomings
  /\ tiers \in UpTo(MaxTiers, Tiers)
  /\ progress = "called"
  /\ tier = 1 /\ place = 1 /\ remaining = incoming
  /\ stopAllocatingRemainingTiers = FALSE /\ tierNeeded = 0 /\ tierAllocated = 0
  /\ allocations = <<>> /\ tierSummary = <<>>

(* Validation first, then get_month, which may fail.                       *)
CheckTiers ==
  /\ progress = "called"
  /\ progress' \in IF ValidTiers THEN {"walking", "refused"} ELSE {"refused"}
  /\ UNCHANGED <<waterfallInputs, walk, allocations, tierSummary>>

AtEntry ==
  progress = "walking" /\ tier <= Len(tiers) /\ place <= Len(tiers[tier].categories)

Current == tiers[tier].categories[place]

(* One record of the plan, at the position of the walk.                    *)
Propose(alloc) ==
  allocations' = Append(allocations,
    [tier |-> tier, place |-> place, category |-> Current.category,
     assigned |-> alloc, newBudgeted |-> NewBudgeted(Current.category, alloc)])

Skip ==
  /\ AtEntry /\ Current.category \notin DOMAIN budgeted
  /\ place' = place + 1
  /\ UNCHANGED <<waterfallInputs, progress, tier, remaining, stopAllocatingRemainingTiers,
                 tierNeeded, tierAllocated, allocations, tierSummary>>

Withhold ==
  /\ AtEntry /\ Current.category \in DOMAIN budgeted /\ stopAllocatingRemainingTiers
  /\ tierNeeded' = Wrap(tierNeeded + Current.need)
  /\ Propose(0)
  /\ place' = place + 1
  /\ UNCHANGED <<waterfallInputs, progress, tier, remaining, stopAllocatingRemainingTiers,
                 tierAllocated, tierSummary>>

Allocate ==
  /\ AtEntry /\ Current.category \in DOMAIN budgeted /\ ~ stopAllocatingRemainingTiers
  /\ tierNeeded' = Wrap(tierNeeded + Current.need)
  /\ tierAllocated' = tierAllocated + Alloc(Current.need)
  /\ remaining' = RemainingAfter(Alloc(Current.need))
  /\ Propose(Alloc(Current.need))
  /\ place' = place + 1
  /\ UNCHANGED <<waterfallInputs, progress, tier, stopAllocatingRemainingTiers, tierSummary>>

CloseTier ==
  /\ progress = "walking" /\ tier <= Len(tiers) /\ place > Len(tiers[tier].categories)
  /\ tierSummary' = Append(tierSummary,
       [needed |-> tierNeeded, allocated |-> tierAllocated,
        shortBy |-> Wrap(tierNeeded - tierAllocated)])
  /\ stopAllocatingRemainingTiers' =
       (stopAllocatingRemainingTiers \/ (tiers[tier].stop /\ tierAllocated < tierNeeded))
  /\ tier' = tier + 1 /\ place' = 1
  /\ tierNeeded' = 0 /\ tierAllocated' = 0
  /\ progress' = IF tier = Len(tiers) THEN "proposed" ELSE "walking"
  /\ UNCHANGED <<waterfallInputs, remaining, allocations>>

WaterfallNext == CheckTiers \/ Skip \/ Withhold \/ Allocate \/ CloseTier

WaterfallSpec == WaterfallInit /\ [][WaterfallNext]_waterfallVars

-----------------------------------------------------------------------------
(* Types; the money left is never negative nor more than came in, and the  *)
(* money of a tier never overflows, whatever the needs.                    *)
WaterfallTypeOK ==
  /\ progress \in {"called", "walking", "proposed", "refused"}
  /\ tier \in Nat /\ place \in Nat
  /\ progress \in {"walking", "proposed"} =>
       /\ remaining \in 0..incoming
       /\ tierAllocated \in 0..(incoming - remaining)
  /\ tierNeeded \in Int64
  /\ stopAllocatingRemainingTiers \in BOOLEAN
  /\ allocations \in Seq([tier : Nat, place : Nat, category : Categories,
                           assigned : Nat, newBudgeted : Int64])
  /\ tierSummary \in Seq([needed : Int64, allocated : Nat, shortBy : Int64])

NeedOf(a) == tiers[a.tier].categories[a.place].need

(* Priority: a category that gets less than its need is the last to get    *)
(* any money, in its tier and in those after it.                           *)
PriorityRespected ==
  \A i, j \in DOMAIN allocations :
    i < j /\ allocations[i].assigned < NeedOf(allocations[i]) => allocations[j].assigned = 0

(* A tier that stops the waterfall has spent everything: stop_if_unfunded  *)
(* withholds no money that a walk without it would assign.  It also holds  *)
(* when the needs of a tier overflow.                                      *)
StopsWithNothingLeft == stopAllocatingRemainingTiers => remaining = 0

(* short_by is zero for a tier that got all its needs, and the money that  *)
(* remains at the end means that every tier did.                           *)
FundedUnlessSpent ==
  progress = "proposed" /\ remaining > 0 =>
    \A t \in DOMAIN tierSummary : tierSummary[t].shortBy = 0

(* A need is left unmet, or a tier withheld, only when the money is spent. *)
ShortMeansSpent == StopsWithNothingLeft /\ FundedUnlessSpent

-----------------------------------------------------------------------------
Total == SumFunction([i \in DOMAIN allocations |-> allocations[i].assigned])

(* What the categories have once the plan is carried out in its order by   *)
(* update_category_budgeted, which sets a category to new_budgeted.        *)
Executed ==
  [c \in DOMAIN budgeted |->
     LET own == {i \in DOMAIN allocations : allocations[i].category = c}
     IN  IF own = {} THEN budgeted[c]
         ELSE allocations[CHOOSE i \in own : \A j \in own : j <= i].newBudgeted]

Gained(c) == Executed[c] - budgeted[c]

NoCategoryTwice ==
  \A i, j \in DOMAIN allocations : allocations[i].category = allocations[j].category => i = j

(* What the tool reports as assigned and the remainder are what came in.   *)
(* When no category comes twice, carrying the plan out moves just what it  *)
(* says, to each category whose int64 can hold it.                         *)
PlanMovesWhatItSays ==
  /\ progress \in {"walking", "proposed"} => Total + remaining = incoming
  /\ NoCategoryTwice =>
       \A i \in DOMAIN allocations :
         LET a == allocations[i]
         IN  budgeted[a.category] + a.assigned <= MaxInt => Gained(a.category) = a.assigned

-----------------------------------------------------------------------------
(* What the source says and the code does not do.                          *)

(* tools_tasks.go:1485-1487: new_budgeted is current_budgeted with the     *)
(* additional assignment, to pass to update_category_budgeted.  So a       *)
(* category gains all that the plan assigns to it.                         *)
ExecutedPlanAddsUp ==
  progress = "proposed" =>
    \A c \in DOMAIN budgeted :
      Gained(c) = SumFunction([i \in DOMAIN allocations |->
        IF allocations[i].category = c THEN allocations[i].assigned ELSE 0])
=============================================================================
