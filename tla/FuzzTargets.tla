----------------------------- MODULE FuzzTargets -----------------------------
(***************************************************************************)
(* The three binaries of fuzz/fuzz_targets and their proptest mirrors: each    *)
(* builds the Harness of one example's adapter, registers its invariants and   *)
(* runs what was generated.  A violation becomes a panic, which is the finding   *)
(* libFuzzer saves.                                                         *)
(***************************************************************************)
EXTENDS Counter, Escrow, Token

VARIABLE target    \* the binary that runs

vars == <<target, steps, verdict, count, expectedCount, now, status, expectedStatus,
          balance, totalSupply, modelBalance, modelSupply, created>>

Targets == {"counter_fuzz", "escrow_fuzz", "token_fuzz"}

(* Harness::run deploys the target's contract in a fresh Env; what the other    *)
(* two would start from stays as it is.                                      *)
Init == target \in Targets /\ CounterInit /\ EscrowInit /\ TokenInit

counterOnly == <<count, expectedCount>>
escrowOnly == <<now, status, expectedStatus>>
tokenOnly == <<contractVars, modelVars, created>>

CounterFuzz ==
    /\ target = "counter_fuzz" /\ CounterNext
    /\ UNCHANGED <<target, escrowOnly, tokenOnly>>

EscrowFuzz ==
    /\ target = "escrow_fuzz" /\ EscrowNext
    /\ UNCHANGED <<target, counterOnly, tokenOnly>>

TokenFuzz ==
    /\ target = "token_fuzz" /\ TokenNext
    /\ UNCHANGED <<target, counterOnly, escrowOnly>>

Next == CounterFuzz \/ EscrowFuzz \/ TokenFuzz

Spec == Init /\ [][Next]_vars

(* Every example's state keeps its type, the verdict is one the target's own     *)
(* registered invariants give, and no target reports the invariant of another.  *)
TypeOK ==
    /\ target \in Targets
    /\ CounterTypeOK /\ EscrowTypeOK /\ TokenTypeOK
    /\ verdict \in {"running", "passed"} \cup
         CASE target = "counter_fuzz" ->
                {"no-undeclared-panic", "counter-value-matches-model"}
           [] target = "escrow_fuzz" ->
                {"no-undeclared-panic", "escrow-status-matches-model"}
           [] target = "token_fuzz" ->
                {"no-undeclared-panic", "model overflow", "no-negative-balance",
                 "supply-conservation", "auth-required-for-mutation"}

=============================================================================
