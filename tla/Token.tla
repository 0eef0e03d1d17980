-------------------------------- MODULE Token --------------------------------
(***************************************************************************)
(* The token example (examples/token) in the harness, with the three shared    *)
(* invariants of crates/invariants that its fuzz target registers.  They look  *)
(* at the shadow model, not at the contract.                                 *)
(***************************************************************************)
EXTENDS Harness, Functions

CONSTANTS TokenAdmin, InitialHolder,   \* pool index 0 and 1; the same in a pool of one
          InitialSupply,
          MaxI128                 \* i128::MAX, scaled

ASSUME RolesAssumption == TokenAdmin \in Addresses /\ InitialHolder \in Addresses
ASSUME SupplyAssumption == MaxI128 \in Nat /\ InitialSupply \in 0..MaxI128

VARIABLES
    balance,        \* DataKey::Balance, 0 when there is no entry
    totalSupply,    \* DataKey::TotalSupply
    modelBalance,   \* TokenModel::balances, 0 for an address not in the list
    modelSupply,    \* TokenModel::total_supply
    created         \* history: what each address gained by transfers to itself

contractVars == <<balance, totalSupply>>
modelVars == <<modelBalance, modelSupply>>
tokenVars == <<steps, verdict, balance, totalSupply, modelBalance, modelSupply, created>>

I128(x) == Fits(x, -MaxI128 - 1, MaxI128)

InitialBalance == [a \in Addresses |-> IF a = InitialHolder THEN InitialSupply ELSE 0]

TokenInit ==
    /\ InitRun
    /\ balance = InitialBalance /\ totalSupply = InitialSupply
    /\ modelBalance = InitialBalance /\ modelSupply = InitialSupply
    /\ created = [a \in Addresses |-> 0]

(***************************************************************************)
(* The registered invariants, in the order the fuzz target registers them.     *)
(* The sum cannot overflow: every summand is non-negative by then, and the     *)
(* total is the model's supply.                                              *)
(***************************************************************************)
NoNegativeBalance == \A a \in Addresses : modelBalance[a] >= 0

SupplyConservation == FoldFunction(+, 0, modelBalance) = modelSupply

AuthRequiredForMutation(outcome, signer, signed) == outcome = "Ok" => signer \in signed

(* apply_to_model computes in i128 and runs outside catch_unwind: where the     *)
(* build checks overflow, one takes the whole process down.                  *)
ModelFits == I128(modelSupply) /\ \A a \in Addresses : I128(modelBalance[a])

JudgeToken(outcome, signer, signed) ==
    verdict' = IF outcome = "UndeclaredPanic" THEN "no-undeclared-panic"
               ELSE IF ~ModelFits' THEN "model overflow"
               ELSE IF ~NoNegativeBalance' THEN "no-negative-balance"
               ELSE IF ~SupplyConservation' THEN "supply-conservation"
               ELSE IF ~AuthRequiredForMutation(outcome, signer, signed)
                    THEN "auth-required-for-mutation"
               ELSE "running"

(* A step of the run: the contract takes its new state when it returns "ok",   *)
(* the model when the outcome is Ok.                                          *)
Contract(result, newBalance, newSupply) ==
    IF result = "ok" THEN balance' = newBalance /\ totalSupply' = newSupply
                     ELSE UNCHANGED contractVars

Model(outcome, newBalance, newSupply) ==
    IF outcome = "Ok" THEN modelBalance' = newBalance /\ modelSupply' = newSupply
                      ELSE UNCHANGED modelVars

(***************************************************************************)
(* mint and burn.                                                          *)
(***************************************************************************)
MintResult(to, amount, signed) ==
    IF amount < 0 THEN "error"
    ELSE IF TokenAdmin \notin signed THEN "abort"
    ELSE IF I128(balance[to] + amount) /\ I128(totalSupply + amount) THEN "ok" ELSE "error"

(* Mutation: mint only asks for some signature. *)
MintAnySigner(to, amount, signed) ==
    LET result == IF signed = {} THEN "abort"
                  ELSE IF I128(balance[to] + amount) /\ I128(totalSupply + amount)
                       THEN "ok" ELSE "error"
        outcome == FromTryResult(result, TokenAdmin \in signed) IN
    /\ TakeStep
    /\ Contract(result, [balance EXCEPT ![to] = @ + amount], totalSupply + amount)
    /\ Model(outcome, [modelBalance EXCEPT ![to] = @ + amount], modelSupply + amount)
    /\ JudgeToken(outcome, TokenAdmin, signed)
    /\ UNCHANGED created

Mint(to, amount, signed) ==
    LET result == MintResult(to, amount, signed)
        outcome == FromTryResult(result, TokenAdmin \in signed) IN
    /\ TakeStep
    /\ Contract(result, [balance EXCEPT ![to] = @ + amount], totalSupply + amount)
    /\ Model(outcome, [modelBalance EXCEPT ![to] = @ + amount], modelSupply + amount)
    /\ JudgeToken(outcome, TokenAdmin, signed)
    /\ UNCHANGED created

(* Mutation: checked_sub is taken for a test of the balance. *)
BurnIntoDebt(from, amount, signed) ==
    IF amount < 0 THEN "error"
    ELSE IF from \notin signed THEN "abort"
    ELSE IF I128(balance[from] - amount) /\ I128(totalSupply - amount)
         THEN "ok" ELSE "error"

BurnResult(from, amount, signed) ==
    IF amount < 0 THEN "error"
    ELSE IF from \notin signed THEN "abort"
    ELSE IF amount <= balance[from] /\ I128(totalSupply - amount) THEN "ok" ELSE "error"

(* Mutation: apply_to_model forgets the supply. *)
BurnKeepsModelSupply(from, amount, signed) ==
    LET result == BurnResult(from, amount, signed)
        outcome == FromTryResult(result, from \in signed) IN
    /\ TakeStep
    /\ Contract(result, [balance EXCEPT ![from] = @ - amount], totalSupply - amount)
    /\ Model(outcome, [modelBalance EXCEPT ![from] = @ - amount], modelSupply)
    /\ JudgeToken(outcome, from, signed)
    /\ UNCHANGED created

Burn(from, amount, signed) ==
    LET result == BurnResult(from, amount, signed)
        outcome == FromTryResult(result, from \in signed) IN
    /\ TakeStep
    /\ Contract(result, [balance EXCEPT ![from] = @ - amount], totalSupply - amount)
    /\ Model(outcome, [modelBalance EXCEPT ![from] = @ - amount], modelSupply - amount)
    /\ JudgeToken(outcome, from, signed)
    /\ UNCHANGED created

(***************************************************************************)
(* transfer computes both new balances before it stores the first, so a         *)
(* transfer to oneself stores the increased one last.  The model subtracts     *)
(* and then adds.                                                           *)
(***************************************************************************)
TransferResult(from, to, amount, signed) ==
    IF amount < 0 THEN "error"
    ELSE IF from \notin signed THEN "abort"
    ELSE IF amount <= balance[from] /\ I128(balance[to] + amount) THEN "ok" ELSE "error"

(* Mutation: the sender's new balance is stored last. *)
StoreSenderLast(from, to, amount) ==
    [balance EXCEPT ![to] = balance[to] + amount, ![from] = balance[from] - amount]

StoreTransfer(from, to, amount) ==
    [balance EXCEPT ![from] = balance[from] - amount, ![to] = balance[to] + amount]

Transfer(from, to, amount, signed) ==
    LET result == TransferResult(from, to, amount, signed)
        outcome == FromTryResult(result, from \in signed) IN
    /\ TakeStep
    /\ Contract(result, StoreTransfer(from, to, amount), totalSupply)
    /\ Model(outcome, [[modelBalance EXCEPT ![from] = @ - amount]
                         EXCEPT ![to] = @ + amount], modelSupply)
    /\ JudgeToken(outcome, from, signed)
    /\ created' = IF result = "ok" /\ from = to
                  THEN [created EXCEPT ![to] = @ + amount] ELSE created

-----------------------------------------------------------------------------
(* The generated amounts are NonNegativeI128.                                 *)
Amounts == 0..MaxI128

TokenNext ==
    \/ \E to \in Addresses, amount \in Amounts, signed \in AuthSelection :
         Mint(to, amount, signed)
    \/ \E from \in Addresses, amount \in Amounts, signed \in AuthSelection :
         Burn(from, amount, signed)
    \/ \E from, to \in Addresses, amount \in Amounts, signed \in AuthSelection :
         Transfer(from, to, amount, signed)
    \/ EndRun /\ UNCHANGED <<contractVars, modelVars, created>>

TokenSpec == TokenInit /\ [][TokenNext]_tokenVars

(***************************************************************************)
(* Properties.                                                             *)
(***************************************************************************)
TokenTypeOK ==
    /\ steps \in 0..CommandsPerRun
    /\ balance \in [Addresses -> 0..MaxI128]
    /\ totalSupply \in Int /\ I128(totalSupply)
    /\ modelBalance \in [Addresses -> Int]
    /\ modelSupply \in Int
    /\ created \in [Addresses -> Nat]

(* The contract and its model drift apart in one way only: each address holds  *)
(* exactly what it gained by transfers to itself more than the model says,     *)
(* and the supplies always agree.                                           *)
DriftIsSelfTransfer ==
    /\ \A a \in Addresses : balance[a] = modelBalance[a] + created[a]
    /\ totalSupply = modelSupply

(* A negative balance is reported only after somebody transferred to himself,   *)
(* and nothing else is, but for a supply: no panic, no overflow of the model   *)
(* outside catch_unwind, no unauthorized success.                            *)
OnlySelfTransferIsReported ==
    /\ verdict \in {"running", "passed", "no-negative-balance", "supply-conservation"}
    /\ verdict = "no-negative-balance" => \E a \in Addresses : created[a] > 0

(* The invariant SupplyConservation is never what is reported: it asks the      *)
(* model, which counts nothing twice, and so never notices what the contract   *)
(* creates.                                                                 *)
ModelSupplyIsConserved == verdict # "supply-conservation"

(* examples/token/tests/proptest_mirror.rs:18-22: no generated run violates an  *)
(* invariant.                                                               *)
TokenStaysConsistent == verdict \in {"running", "passed"}

=============================================================================
