----------------------------- MODULE WriteGuards ----------------------------
(***************************************************************************)
(* The guards of writes.go: the amount cap with its echo-back override,    *)
(* and the per-call confirmation.  Amounts are Go's int64; MaxInt takes    *)
(* the place of math.MaxInt64 so that small instances wrap around too.     *)
(*                                                                         *)
(* The first guard, YNAB_ALLOW_WRITES, is constant for the life of the     *)
(* process; the modules of the handlers describe a process that has it.    *)
(***************************************************************************)
EXTENDS Integers

CONSTANTS
  MaxInt,    \* math.MaxInt64
  Cap,       \* amountBoundMilliunits
  Elicits    \* does the MCP client support elicitation?

ASSUME GuardAssumption ==
  /\ MaxInt \in Nat /\ Cap \in Nat /\ Cap <= MaxInt
  /\ Elicits \in BOOLEAN

MinInt == - MaxInt - 1

Int64 == MinInt..MaxInt

(* The int64 that a sum or a difference x of two int64s yields.            *)
Wrap(x) ==
  IF x > MaxInt THEN x - 2 * (MaxInt + 1)
  ELSE IF x < MinInt THEN x + 2 * (MaxInt + 1)
  ELSE x

Abs(n) == IF n < 0 THEN - n ELSE n

-----------------------------------------------------------------------------
(* Mutated forms, for mutation testing.                                    *)

AcceptsAnyOverride(amount, override) ==
  amount # MinInt /\ (Abs(amount) <= Cap \/ override # 0)

ProceedsWhenDeclined(answer) == answer \notin {"cancel", "expired"}

-----------------------------------------------------------------------------
(* checkAmountBound returns no error.                                      *)
CheckAmountBound(amount, override) ==
  /\ amount # MinInt
  /\ Abs(amount) <= Cap \/ override = amount

(* How session.Elicit can end: the user's action, the end of the call's    *)
(* context, or any other error.  A client without elicitation always gives *)
(* an error, and one that has it may give one too.                         *)
Answers ==
  IF Elicits THEN {"accept", "decline", "cancel", "expired", "error"} ELSE {"error"}

(* elicitConfirmation returns no error: an error other than the end of the *)
(* context counts as "elicitation not supported".                          *)
Proceeds(answer) == answer \in {"accept", "error"}
=============================================================================
