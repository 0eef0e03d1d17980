------------------------------- MODULE Counter -------------------------------
(***************************************************************************)
(* The counter example (examples/counter): the contract and the adapter that  *)
(* runs it in the harness.  The contract's i64 is scaled to MaxI64.            *)
(***************************************************************************)
EXTENDS Harness

CONSTANTS CounterAdmin, MaxI64

ASSUME AdminAssumption == CounterAdmin \in Addresses
ASSUME I64Assumption == MaxI64 \in Nat

VARIABLES
    count,     \* COUNT in the contract's storage
    expectedCount   \* CounterModel::expected_count

counterVars == <<steps, verdict, count, expectedCount>>

MinI64 == -MaxI64 - 1
I64 == MinI64..MaxI64

CounterInit == InitRun /\ count = 0 /\ expectedCount = 0

(* CounterValueMatchesModel reads the count back through get().               *)
CounterValueMatchesModel == count = expectedCount

JudgeCounter(outcome) ==
    verdict' = IF outcome = "UndeclaredPanic" THEN "no-undeclared-panic"
               ELSE IF CounterValueMatchesModel' THEN "running"
               ELSE "counter-value-matches-model"

(* The step of a command that, when the contract accepts it, sets the count to *)
(* value and the model to expectedValue; no auth is needed when signer is {}.  *)
ApplyCounter(result, signer, signed, value, expectedValue) ==
    LET outcome == FromTryResult(result, signer \subseteq signed) IN
    /\ TakeStep
    /\ count' = IF result = "ok" THEN value ELSE count
    /\ expectedCount' = IF outcome = "Ok" THEN expectedValue ELSE expectedCount
    /\ JudgeCounter(outcome)

SaturatingAddI64(x, y) ==
    IF x + y > MaxI64 THEN MaxI64 ELSE IF x + y < MinI64 THEN MinI64 ELSE x + y

(* checked_add and checked_sub: Overflow or Underflow instead of a wrap.       *)
Checked(x) == IF Fits(x, MinI64, MaxI64) THEN "ok" ELSE "error"

(* admin.require_auth(): without the admin's signature the call aborts.        *)
AdminOnly(signed) == IF CounterAdmin \in signed THEN "ok" ELSE "abort"

(* Mutation: checked_add replaced by an addition that never fails. *)
IncrementUnchecked(signed) ==
    ApplyCounter("ok", {}, signed, count + 1, SaturatingAddI64(expectedCount, 1))

Increment(signed) ==
    ApplyCounter(Checked(count + 1), {}, signed, count + 1,
                 SaturatingAddI64(expectedCount, 1))

(* Mutation: decrement saturates at zero. *)
DecrementToZero(signed) ==
    ApplyCounter(Checked(count - 1), {}, signed, IF count = 0 THEN 0 ELSE count - 1,
          SaturatingAddI64(expectedCount, -1))

Decrement(signed) ==
    ApplyCounter(Checked(count - 1), {}, signed, count - 1,
                 SaturatingAddI64(expectedCount, -1))

Reset(signed) == ApplyCounter(AdminOnly(signed), {CounterAdmin}, signed, 0, 0)

Set(value, signed) == ApplyCounter(AdminOnly(signed), {CounterAdmin}, signed, value, value)

CounterNext ==
    \/ \E signed \in AuthSelection :
         \/ Increment(signed) \/ Decrement(signed) \/ Reset(signed)
         \/ \E value \in I64 : Set(value, signed)
    \/ EndRun /\ UNCHANGED <<count, expectedCount>>

CounterSpec == CounterInit /\ [][CounterNext]_counterVars

CounterTypeOK ==
    /\ steps \in 0..CommandsPerRun
    /\ count \in I64 /\ expectedCount \in I64

(* The counter's fuzz target never reports anything: whichever commands hit    *)
(* the ends of i64 and whichever signatures are withheld, the contract fails   *)
(* exactly where its model stands still.                                     *)
CounterNeverReported ==
    verdict \notin {"no-undeclared-panic", "counter-value-matches-model"}

=============================================================================
