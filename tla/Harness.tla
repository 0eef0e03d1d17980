------------------------------- MODULE Harness -------------------------------
(***************************************************************************)
(* Harness::run (crates/core/src/harness.rs): a generated sequence of steps   *)
(* against one fresh contract.  A step executes a command with a chosen set   *)
(* of addresses having signed, applies it to the shadow model and checks the  *)
(* registered invariants; the run stops at the first violation.              *)
(*                                                                         *)
(* The contract, its model and its invariants are the modules that extend      *)
(* this one: Counter, Escrow and Token.                                      *)
(***************************************************************************)
EXTENDS Integers, FiniteSets

CONSTANTS Addresses,      \* the AddressPool
          CommandsPerRun

ASSUME AddressesAssumption == IsFiniteSet(Addresses)
ASSUME CommandsAssumption == CommandsPerRun \in Nat \ {0}

VARIABLES
    steps,     \* steps executed
    verdict    \* "running", "passed" or the name of the violated invariant

(* AddressPool::resolve: indices modulo the size, so any subset of the pool.   *)
AuthSelection == SUBSET Addresses

Outcome == {"Ok", "DeclaredError", "Rejected", "UndeclaredPanic"}

(* Outcome::from_try_result.  A contract call returns "ok", "error" or, for a   *)
(* failed require_auth and for a panic alike, "abort".                       *)
FromTryResult(result, authSatisfied) ==
    CASE result = "ok" -> "Ok"
      [] result = "error" -> "DeclaredError"
      [] result = "abort" /\ authSatisfied -> "UndeclaredPanic"
      [] result = "abort" /\ ~authSatisfied -> "Rejected"

InitRun == steps = 0 /\ verdict = "running"

(* The next step of the run; what was generated beyond the bound is cut off.   *)
TakeStep ==
    /\ verdict = "running" /\ steps < CommandsPerRun
    /\ steps' = steps + 1

(* The generated run is at its end, after however many steps.                 *)
EndRun == verdict = "running" /\ verdict' = "passed" /\ UNCHANGED steps

(* A fixed-width integer: what fits between min and max.                      *)
Fits(x, min, max) == min <= x /\ x <= max

=============================================================================
