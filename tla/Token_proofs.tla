----------------------------- MODULE Token_proofs -----------------------------
(***************************************************************************)
(* The token example's contract and model drift apart by self-transfers only.  *)
(*                                                                         *)
(* That drift is the inductive core: while the run goes on the model is        *)
(* non-negative and, by the drift, at most the contract's balance, which is an  *)
(* i128.  So apply_to_model cannot overflow, and a model balance can only      *)
(* become negative at an address that gained something from itself.           *)
(***************************************************************************)
EXTENDS Token, FiniteSetTheorems, WellFoundedInduction, TLAPS

-----------------------------------------------------------------------------
(***************************************************************************)
(* Sums.                                                                    *)
(***************************************************************************)
(* Induction over Nat as a fact about sets.                                  *)
LEMMA InductionInNat ==
    ASSUME NEW N, 0 \in N, \A n \in Nat : n \in N => n + 1 \in N
    PROVE  Nat \subseteq N
<1> SUFFICES ASSUME Nat \ N # {} PROVE FALSE
  OBVIOUS
<1>1. PICK m \in Nat \ N : \A k \in Nat \ N : <<k, m>> \notin OpToRel(<, Nat)
  BY NatLessThanWellFounded, WFMin
<1>2. m # 0
  OBVIOUS
<1>3. m - 1 \in Nat \ N => m - 1 < m /\ m - 1 \in Nat
  BY <1>2
<1>4. m - 1 \notin Nat \ N
  BY <1>1, <1>3 DEF OpToRel
<1>5. m - 1 \in Nat /\ m - 1 \in N
  BY <1>2, <1>4
<1>6. m - 1 + 1 = m
  OBVIOUS
<1> QED
  BY <1>5, <1>6

(* A set of subsets of a finite set that has the empty set, and each set that   *)
(* is one of its own elements larger than a member, has them all.             *)
LEMMA InductionOnSubsets ==
    ASSUME NEW S, IsFiniteSet(S), NEW F, {} \in F,
           \A T \in SUBSET S : T # {} => \E x \in T : (T \ {x} \in F => T \in F)
    PROVE  S \in F
<1> DEFINE N == {n \in Nat : \A T \in SUBSET S : Cardinality(T) = n => T \in F}
<1>1. \A T \in SUBSET S : IsFiniteSet(T) /\ Cardinality(T) \in Nat
  BY FS_Subset, FS_CardinalityType
<1>2. 0 \in N
  BY <1>1, FS_EmptySet
<1>3. ASSUME NEW n \in Nat, n \in N PROVE n + 1 \in N
  <2> SUFFICES ASSUME NEW T \in SUBSET S, Cardinality(T) = n + 1 PROVE T \in F
    OBVIOUS
  <2>1. T # {}
    BY <1>3, FS_EmptySet
  <2>2. PICK x \in T : (T \ {x} \in F => T \in F)
    BY <2>1
  <2>3. Cardinality(T \ {x}) = n
    <3>1. IsFiniteSet(T)
      BY <1>1
    <3>2. Cardinality(T \ {x}) = Cardinality(T) - 1
      BY <3>1, FS_RemoveElement
    <3> QED BY <3>2
  <2> QED BY <1>3, <2>2, <2>3
<1>4. Nat \subseteq N
  <2> HIDE DEF N
  <2> QED BY <1>2, <1>3, InductionInNat
<1> QED BY <1>1, <1>4

(***************************************************************************)
(* The sum of a function is computed over the subsets of its domain.            *)
(***************************************************************************)
Pick(s) == CHOOSE x \in s : TRUE

Add(fun, totals, s) == IF s = {} THEN 0 ELSE fun[Pick(s)] + totals[s \ {Pick(s)}]

Totals(fun) == CHOOSE totals : totals = [s \in SUBSET (DOMAIN fun) |-> Add(fun, totals, s)]

SumOf(fun) == FoldFunction(+, 0, fun)

LEMMA SumIsTotal ==
    ASSUME NEW fun
    PROVE  SumOf(fun) = Totals(fun)[DOMAIN fun]
BY DEF SumOf, FoldFunction, FoldFunctionOnSet, MapThenFoldSet, Totals, Add, Pick

(* On a finite domain that recursion defines a function.                      *)
LEMMA TotalsDef ==
    ASSUME NEW fun, IsFiniteSet(DOMAIN fun)
    PROVE  \A s \in SUBSET (DOMAIN fun) : Totals(fun)[s] = Add(fun, Totals(fun), s)
<1> DEFINE S == DOMAIN fun
           Upto(n) == {s \in SUBSET S : Cardinality(s) <= n}
           Approx(n) == \E t : t = [s \in Upto(n) |-> Add(fun, t, s)]
           N == {n \in Nat : Approx(n)}
<1>1. \A s \in SUBSET S : IsFiniteSet(s) /\ Cardinality(s) \in Nat
  BY FS_Subset, FS_CardinalityType
<1>2. \A s \in SUBSET S : s # {} =>
         /\ Pick(s) \in s
         /\ s \ {Pick(s)} \in SUBSET S
         /\ Cardinality(s \ {Pick(s)}) = Cardinality(s) - 1
  BY <1>1, FS_RemoveElement DEF Pick
<1>3. 0 \in N
  <2> DEFINE z == [s \in Upto(0) |-> 0]
  <2>1. ASSUME NEW s \in Upto(0) PROVE Add(fun, z, s) = 0
    BY <1>1, FS_EmptySet DEF Add
  <2>2. z = [s \in Upto(0) |-> Add(fun, z, s)]
    BY <2>1
  <2> QED BY <2>2
<1>4. ASSUME NEW n \in Nat, n \in N PROVE n + 1 \in N
  <2>1. PICK t : t = [s \in Upto(n) |-> Add(fun, t, s)]
    BY <1>4
  <2> DEFINE u == [s \in Upto(n + 1) |-> Add(fun, t, s)]
  <2>2. ASSUME NEW s \in Upto(n) PROVE s \in Upto(n + 1) /\ u[s] = t[s]
    <3>1. s \in Upto(n + 1)
      BY <1>1
    <3>2. t[s] = Add(fun, t, s)
      BY <2>1
    <3> QED BY <3>1, <3>2
  <2>3. ASSUME NEW s \in Upto(n + 1) PROVE Add(fun, t, s) = Add(fun, u, s)
    <3>1. CASE s = {}
      BY <3>1 DEF Add
    <3>2. CASE s # {}
      <4>1. s \ {Pick(s)} \in Upto(n)
        BY <1>1, <1>2, <3>2
      <4>2. u[s \ {Pick(s)}] = t[s \ {Pick(s)}]
        BY <2>2, <4>1
      <4> HIDE DEF u
      <4> QED BY <4>2, <3>2 DEF Add
    <3> QED BY <3>1, <3>2
  <2>4. u = [s \in Upto(n + 1) |-> Add(fun, u, s)]
    <3> HIDE DEF Upto
    <3>1. [s \in Upto(n + 1) |-> Add(fun, t, s)] = [s \in Upto(n + 1) |-> Add(fun, u, s)]
      BY <2>3
    <3> QED BY <3>1
  <2>5. Approx(n + 1)
    <3> HIDE DEF u, Upto
    <3> QED BY <2>4
  <2> QED BY <2>5
<1>5. Nat \subseteq N
  <2> HIDE DEF N
  <2> QED BY <1>3, <1>4, InductionInNat
<1>6. Cardinality(S) \in Nat /\ Upto(Cardinality(S)) = SUBSET S
  BY <1>1, FS_Subset, FS_CardinalityType
<1>7. \E t : t = [s \in SUBSET S |-> Add(fun, t, s)]
  <2>1. Approx(Cardinality(S))
    BY <1>5, <1>6
  <2> HIDE DEF Upto
  <2> QED BY <1>6, <2>1
<1>8. Totals(fun) = [s \in SUBSET S |-> Add(fun, Totals(fun), s)]
  BY <1>7, Zenon DEF Totals
<1> HIDE DEF N, Approx, Upto
<1> QED BY <1>8

(* A sum of integers is an integer, and adding d to one summand adds d to it.   *)
LEMMA SumOfUpdate ==
    ASSUME NEW S, IsFiniteSet(S), NEW f \in [S -> Int], NEW a \in S, NEW d \in Int
    PROVE  /\ SumOf(f) \in Int
           /\ SumOf([f EXCEPT ![a] = @ + d]) = SumOf(f) + d
<1> DEFINE g == [f EXCEPT ![a] = @ + d]
           More(s) == IF a \in s THEN d ELSE 0
           F == {s \in SUBSET S : Totals(f)[s] \in Int
                                    /\ Totals(g)[s] = Totals(f)[s] + More(s)}
<1>1. DOMAIN f = S /\ DOMAIN g = S /\ g[a] = f[a] + d /\ \A x \in S \ {a} : g[x] = f[x]
  OBVIOUS
<1> HIDE DEF g
<1>2. \A s \in SUBSET S : /\ Totals(f)[s] = Add(f, Totals(f), s)
                          /\ Totals(g)[s] = Add(g, Totals(g), s)
  BY <1>1, TotalsDef
<1>3. {} \in F
  <2>1. Totals(f)[{}] = 0 /\ Totals(g)[{}] = 0
    BY <1>2 DEF Add
  <2> QED BY <2>1
<1>4. ASSUME NEW s \in SUBSET S, s # {}, s \ {Pick(s)} \in F PROVE s \in F
  <2>1. Pick(s) \in s
    BY <1>4 DEF Pick
  <2> DEFINE x == Pick(s)
             r == s \ {Pick(s)}
  <2>2. /\ Totals(f)[s] = f[x] + Totals(f)[r]
        /\ Totals(g)[s] = g[x] + Totals(g)[r]
    BY <1>2, <1>4 DEF Add
  <2>3. Totals(f)[r] \in Int /\ Totals(g)[r] = Totals(f)[r] + More(r)
    BY <1>4
  <2>4. f[x] \in Int /\ x \in S /\ (a \in r <=> a \in s /\ a # x) /\ x \in s
    BY <2>1
  <2> HIDE DEF x, r
  <2>5. CASE a = x
    BY <1>1, <2>2, <2>3, <2>4, <2>5
  <2>6. CASE a # x
    BY <1>1, <2>2, <2>3, <2>4, <2>6
  <2> QED BY <2>5, <2>6
<1>5. S \in F
  <2>1. ASSUME NEW T \in SUBSET S, T # {}
        PROVE  \E x \in T : (T \ {x} \in F => T \in F)
    <3>1. Pick(T) \in T
      BY <2>1 DEF Pick
    <3> QED BY <1>4, <2>1, <3>1
  <2> HIDE DEF F
  <2> QED BY <1>3, <2>1, InductionOnSubsets
<1>6. Totals(f)[S] \in Int /\ Totals(g)[S] = Totals(f)[S] + d
  BY <1>5
<1> QED BY <1>1, <1>6, SumIsTotal DEF g

(* The sum of zeros is zero.                                                 *)
LEMMA SumOfZeros ==
    ASSUME NEW S, IsFiniteSet(S)
    PROVE  SumOf([x \in S |-> 0]) = 0
<1> DEFINE f == [x \in S |-> 0]
           F == {s \in SUBSET S : Totals(f)[s] = 0}
<1>1. DOMAIN f = S /\ \A x \in S : f[x] = 0
  OBVIOUS
<1> HIDE DEF f
<1>2. \A s \in SUBSET S : Totals(f)[s] = Add(f, Totals(f), s)
  BY <1>1, TotalsDef
<1>3. {} \in F
  BY <1>2 DEF Add
<1>4. ASSUME NEW s \in SUBSET S, s # {}, s \ {Pick(s)} \in F PROVE s \in F
  <2>1. Pick(s) \in s
    BY <1>4 DEF Pick
  <2>2. Totals(f)[s] = f[Pick(s)] + Totals(f)[s \ {Pick(s)}]
    BY <1>2, <1>4 DEF Add
  <2>3. f[Pick(s)] = 0
    BY <1>1, <2>1
  <2> QED BY <1>4, <2>2, <2>3
<1>5. S \in F
  <2>1. ASSUME NEW T \in SUBSET S, T # {}
        PROVE  \E x \in T : (T \ {x} \in F => T \in F)
    <3>1. Pick(T) \in T
      BY <2>1 DEF Pick
    <3> QED BY <1>4, <2>1, <3>1
  <2> HIDE DEF F
  <2> QED BY <1>3, <2>1, InductionOnSubsets
<1> QED BY <1>1, <1>5, SumIsTotal DEF f

-----------------------------------------------------------------------------
(***************************************************************************)
(* The invariant.                                                            *)
(***************************************************************************)
TokenInv ==
    /\ steps \in 0..CommandsPerRun
    /\ balance \in [Addresses -> 0..MaxI128]
    /\ totalSupply \in Int /\ I128(totalSupply)
    /\ modelBalance \in [Addresses -> Int]
    /\ modelSupply \in Int
    /\ created \in [Addresses -> Nat]
    /\ DriftIsSelfTransfer
    /\ verdict = "running" => NoNegativeBalance
    /\ OnlySelfTransferIsReported
    /\ SupplyConservation
    /\ ModelSupplyIsConserved

(* The registered invariant compares that sum with the supply.                  *)
LEMMA SupplyIsSum == SupplyConservation <=> SumOf(modelBalance) = modelSupply
BY PTL DEF SupplyConservation, SumOf

(* Likewise in the next state.                                               *)
LEMMA SupplyIsSumNext == (SupplyConservation <=> SumOf(modelBalance) = modelSupply)'
BY SupplyIsSum, PTL

(* The initial states satisfy the invariant.                                 *)
LEMMA TokenInitInv == TokenInit => TokenInv
<1> SUFFICES ASSUME TokenInit PROVE TokenInv
  OBVIOUS
<1>1. SupplyConservation
  <2> DEFINE zeros == [a \in Addresses |-> 0]
  <2>1. /\ modelBalance = [zeros EXCEPT ![InitialHolder] = @ + InitialSupply]
        /\ modelSupply = InitialSupply /\ InitialSupply \in Int
        /\ zeros \in [Addresses -> Int]
    BY RolesAssumption, SupplyAssumption DEF TokenInit, InitialBalance
  <2>2. SumOf(zeros) = 0
    BY AddressesAssumption, SumOfZeros
  <2> HIDE DEF zeros
  <2>3. SumOf(modelBalance) = SumOf(zeros) + InitialSupply
    BY <2>1, RolesAssumption, AddressesAssumption, SumOfUpdate
  <2> QED BY <2>1, <2>2, <2>3, SupplyIsSum
<1> QED
  BY <1>1, RolesAssumption, SupplyAssumption, CommandsAssumption
  DEF TokenInit, InitRun, InitialBalance, TokenInv, DriftIsSelfTransfer, NoNegativeBalance,
      OnlySelfTransferIsReported, ModelSupplyIsConserved, I128, Fits

(* Which verdicts a step can reach once its outcome is no panic, its success    *)
(* is authorized, the model stays an i128 and its balances add up.             *)
LEMMA Verdicts ==
    ASSUME NEW outcome, NEW signer, NEW signed,
           outcome # "UndeclaredPanic",
           outcome = "Ok" => signer \in signed,
           ModelFits', SupplyConservation',
           JudgeToken(outcome, signer, signed)
    PROVE  /\ verdict' \in {"running", "no-negative-balance"}
           /\ verdict' = "running" => NoNegativeBalance'
           /\ verdict' = "no-negative-balance" => ~NoNegativeBalance'
BY DEF JudgeToken, AuthRequiredForMutation

(* A call that returns "abort" only for want of its signer is never taken for   *)
(* a panic, and its outcome is Ok exactly when it returned "ok".              *)
LEMMA Outcomes ==
    ASSUME NEW result \in {"ok", "error", "abort"}, NEW signer, NEW signed,
           result = "abort" => signer \notin signed
    PROVE  /\ FromTryResult(result, signer \in signed) # "UndeclaredPanic"
           /\ (FromTryResult(result, signer \in signed) = "Ok") <=> (result = "ok")
BY DEF FromTryResult

(* What remains to be shown of a step is the state it leaves and, when that     *)
(* state has a negative model balance, the self-transfer behind it, which the  *)
(* drift supplies.                                                          *)
LEMMA StepInv ==
    ASSUME TokenInv, TakeStep,
           NEW outcome, NEW signer, NEW signed,
           outcome # "UndeclaredPanic",
           outcome = "Ok" => signer \in signed,
           JudgeToken(outcome, signer, signed),
           balance' \in [Addresses -> 0..MaxI128],
           totalSupply' \in Int, I128(totalSupply'),
           modelBalance' \in [Addresses -> Int],
           modelSupply' \in Int,
           created' \in [Addresses -> Nat],
           DriftIsSelfTransfer', SupplyConservation',
           \A a \in Addresses : modelBalance'[a] >= -MaxI128 - 1
    PROVE  TokenInv'
<1>1. steps' \in 0..CommandsPerRun
  BY CommandsAssumption DEF TokenInv, TakeStep
<1>2. ModelFits'
  <2>1. I128(modelSupply')
    BY DEF DriftIsSelfTransfer
  <2>2. ASSUME NEW a \in Addresses
        PROVE  I128(modelBalance'[a])
    <3>1. /\ balance'[a] \in 0..MaxI128 /\ created'[a] \in Nat
          /\ modelBalance'[a] \in Int
      OBVIOUS
    <3>2. balance'[a] = modelBalance'[a] + created'[a]
      BY DEF DriftIsSelfTransfer
    <3> QED BY <3>1, <3>2, SupplyAssumption DEF I128, Fits
  <2> QED BY <2>1, <2>2 DEF ModelFits
<1>3. /\ verdict' \in {"running", "no-negative-balance"}
      /\ verdict' = "running" => NoNegativeBalance'
      /\ verdict' = "no-negative-balance" => ~NoNegativeBalance'
  BY <1>2, Verdicts
<1>4. ASSUME verdict' = "no-negative-balance"
      PROVE  \E a \in Addresses : created'[a] > 0
  <2>1. PICK a \in Addresses : ~(modelBalance'[a] >= 0)
    BY <1>3, <1>4 DEF NoNegativeBalance
  <2>2. balance'[a] = modelBalance'[a] + created'[a]
    BY DEF DriftIsSelfTransfer
  <2>3. /\ balance'[a] \in 0..MaxI128 /\ created'[a] \in Nat
        /\ modelBalance'[a] \in Int
    OBVIOUS
  <2> QED BY <2>1, <2>2, <2>3, SupplyAssumption
<1>5. OnlySelfTransferIsReported' /\ ModelSupplyIsConserved'
  BY <1>3, <1>4 DEF OnlySelfTransferIsReported, ModelSupplyIsConserved
<1> QED BY <1>1, <1>3, <1>5 DEF TokenInv

(* In a running state every model balance is between 0 and the contract's.      *)
LEMMA ModelIsBounded ==
    ASSUME TokenInv, verdict = "running", NEW a \in Addresses
    PROVE  /\ balance[a] \in 0..MaxI128 /\ created[a] \in Nat
           /\ modelBalance[a] \in 0..MaxI128
           /\ balance[a] = modelBalance[a] + created[a]
<1>1. /\ balance[a] \in 0..MaxI128 /\ created[a] \in Nat /\ modelBalance[a] \in Int
  BY DEF TokenInv
<1>2. balance[a] = modelBalance[a] + created[a] /\ modelBalance[a] >= 0
  BY DEF TokenInv, DriftIsSelfTransfer, NoNegativeBalance
<1> QED BY <1>1, <1>2, SupplyAssumption

(* A step whose call does not return "ok" leaves the contract and the model.    *)
LEMMA FailedCall ==
    ASSUME TokenInv, TakeStep,
           NEW outcome, NEW signer, NEW signed,
           outcome # "UndeclaredPanic", outcome # "Ok",
           JudgeToken(outcome, signer, signed),
           UNCHANGED <<contractVars, modelVars, created>>
    PROVE  TokenInv'
<1>1. \A a \in Addresses : modelBalance'[a] >= -MaxI128 - 1
  <2> SUFFICES ASSUME NEW a \in Addresses
               PROVE  modelBalance[a] >= -MaxI128 - 1
    BY DEF modelVars
  <2>1. modelBalance[a] \in 0..MaxI128
    BY ModelIsBounded DEF TakeStep
  <2> QED BY <2>1, SupplyAssumption
<1>2. DriftIsSelfTransfer' /\ SupplyConservation'
  BY SupplyIsSum, SupplyIsSumNext DEF TokenInv, DriftIsSelfTransfer, contractVars, modelVars
<1>3. /\ balance' \in [Addresses -> 0..MaxI128]
      /\ totalSupply' \in Int /\ I128(totalSupply')
      /\ modelBalance' \in [Addresses -> Int]
      /\ modelSupply' \in Int
      /\ created' \in [Addresses -> Nat]
  BY DEF TokenInv, contractVars, modelVars
<1> QED BY <1>1, <1>2, <1>3, StepInv

(* Mint preserves the invariant.                                             *)
LEMMA MintInv ==
    ASSUME TokenInv, NEW to \in Addresses, NEW amount \in Amounts,
           NEW signed \in AuthSelection, Mint(to, amount, signed)
    PROVE  TokenInv'
<1> DEFINE result == MintResult(to, amount, signed)
           outcome == FromTryResult(result, TokenAdmin \in signed)
<1>1. TakeStep /\ JudgeToken(outcome, TokenAdmin, signed) /\ created' = created
  BY DEF Mint
<1>2. /\ Contract(result, [balance EXCEPT ![to] = @ + amount], totalSupply + amount)
      /\ Model(outcome, [modelBalance EXCEPT ![to] = @ + amount], modelSupply + amount)
  BY DEF Mint
<1>3. result \in {"ok", "error", "abort"} /\ (result = "abort" => TokenAdmin \notin signed)
  BY DEF MintResult
<1>4. outcome # "UndeclaredPanic" /\ (outcome = "Ok" <=> result = "ok")
  BY <1>3, Outcomes
<1>5. CASE result = "ok"
  <2>1. /\ TokenAdmin \in signed
        /\ I128(balance[to] + amount) /\ I128(totalSupply + amount)
    BY <1>5 DEF MintResult
  <2>2. /\ balance' = [balance EXCEPT ![to] = @ + amount]
        /\ totalSupply' = totalSupply + amount
        /\ modelBalance' = [modelBalance EXCEPT ![to] = @ + amount]
        /\ modelSupply' = modelSupply + amount
    BY <1>2, <1>4, <1>5 DEF Contract, Model
  <2>3. amount \in 0..MaxI128
    BY DEF Amounts
  <2>4. ASSUME NEW a \in Addresses
        PROVE  /\ balance'[a] \in 0..MaxI128
               /\ modelBalance'[a] \in Int /\ modelBalance'[a] >= -MaxI128 - 1
               /\ balance'[a] = modelBalance'[a] + created'[a]
    <3>1. /\ balance[a] \in 0..MaxI128 /\ created[a] \in Nat
          /\ modelBalance[a] \in 0..MaxI128
          /\ balance[a] = modelBalance[a] + created[a]
      BY <1>1, ModelIsBounded DEF TakeStep
    <3>2. CASE a = to
      <4>1. balance'[a] = balance[a] + amount /\ modelBalance'[a] = modelBalance[a] + amount
        BY <2>2, <3>2 DEF TokenInv
      <4> QED BY <1>1, <2>1, <2>3, <3>1, <3>2, <4>1, SupplyAssumption DEF I128, Fits
    <3>3. CASE a # to
      <4>1. balance'[a] = balance[a] /\ modelBalance'[a] = modelBalance[a]
        BY <2>2, <3>3 DEF TokenInv
      <4> QED BY <1>1, <3>1, <4>1, SupplyAssumption
    <3> QED BY <3>2, <3>3
  <2>5. /\ balance' \in [Addresses -> 0..MaxI128]
        /\ modelBalance' \in [Addresses -> Int]
    BY <2>2, <2>4 DEF TokenInv
  <2>6. totalSupply' \in Int /\ I128(totalSupply') /\ modelSupply' \in Int
    BY <2>1, <2>2, <2>3, SupplyAssumption DEF TokenInv
  <2>7. DriftIsSelfTransfer'
    BY <2>2, <2>4 DEF TokenInv, DriftIsSelfTransfer
  <2>8. created' \in [Addresses -> Nat]
    BY <1>1 DEF TokenInv
  <2>9. SupplyConservation'
    <3>1. SumOf(modelBalance') = SumOf(modelBalance) + amount
      <4>1. amount \in Int /\ -amount \in Int
        BY <2>3, SupplyAssumption
      <4>2. modelBalance \in [Addresses -> Int] /\ IsFiniteSet(Addresses)
        BY AddressesAssumption DEF TokenInv
      <4>3. modelBalance' = [modelBalance EXCEPT ![to] = @ + amount]
        BY <2>2, <4>1, <4>2
      <4>4. /\ SumOf(modelBalance) \in Int
            /\ SumOf(modelBalance')
                 = SumOf(modelBalance) + amount
        BY <4>1, <4>2, <4>3, SumOfUpdate
      <4> QED BY <4>1, <4>4
    <3> QED BY <2>2, <3>1, SupplyIsSum, SupplyIsSumNext DEF TokenInv
  <2> HIDE DEF outcome
  <2> QED BY <1>1, <1>4, <2>1, <2>4, <2>5, <2>6, <2>7, <2>8, <2>9, StepInv
<1>6. CASE result # "ok"
  <2>1. UNCHANGED <<contractVars, modelVars, created>>
    BY <1>1, <1>2, <1>4, <1>6 DEF Contract, Model
  <2> HIDE DEF outcome
  <2> QED BY <1>1, <1>4, <1>6, <2>1, FailedCall
<1> QED BY <1>5, <1>6

(* Burn preserves the invariant.                                             *)
LEMMA BurnInv ==
    ASSUME TokenInv, NEW from \in Addresses, NEW amount \in Amounts,
           NEW signed \in AuthSelection, Burn(from, amount, signed)
    PROVE  TokenInv'
<1> DEFINE result == BurnResult(from, amount, signed)
           outcome == FromTryResult(result, from \in signed)
<1>1. TakeStep /\ JudgeToken(outcome, from, signed) /\ created' = created
  BY DEF Burn
<1>2. /\ Contract(result, [balance EXCEPT ![from] = @ - amount], totalSupply - amount)
      /\ Model(outcome, [modelBalance EXCEPT ![from] = @ - amount], modelSupply - amount)
  BY DEF Burn
<1>3. result \in {"ok", "error", "abort"} /\ (result = "abort" => from \notin signed)
  BY DEF BurnResult
<1>4. outcome # "UndeclaredPanic" /\ (outcome = "Ok" <=> result = "ok")
  BY <1>3, Outcomes
<1>5. CASE result = "ok"
  <2>1. from \in signed /\ amount <= balance[from] /\ I128(totalSupply - amount)
    BY <1>5 DEF BurnResult
  <2>2. /\ balance' = [balance EXCEPT ![from] = @ - amount]
        /\ totalSupply' = totalSupply - amount
        /\ modelBalance' = [modelBalance EXCEPT ![from] = @ - amount]
        /\ modelSupply' = modelSupply - amount
    BY <1>2, <1>4, <1>5 DEF Contract, Model
  <2>3. amount \in 0..MaxI128
    BY DEF Amounts
  <2>4. ASSUME NEW a \in Addresses
        PROVE  /\ balance'[a] \in 0..MaxI128
               /\ modelBalance'[a] \in Int /\ modelBalance'[a] >= -MaxI128 - 1
               /\ balance'[a] = modelBalance'[a] + created'[a]
    <3>1. /\ balance[a] \in 0..MaxI128 /\ created[a] \in Nat
          /\ modelBalance[a] \in 0..MaxI128
          /\ balance[a] = modelBalance[a] + created[a]
      BY <1>1, ModelIsBounded DEF TakeStep
    <3>2. CASE a = from
      <4>1. balance'[a] = balance[a] - amount /\ modelBalance'[a] = modelBalance[a] - amount
        BY <2>2, <3>2 DEF TokenInv
      <4> QED BY <1>1, <2>1, <2>3, <3>1, <3>2, <4>1, SupplyAssumption
    <3>3. CASE a # from
      <4>1. balance'[a] = balance[a] /\ modelBalance'[a] = modelBalance[a]
        BY <2>2, <3>3 DEF TokenInv
      <4> QED BY <1>1, <3>1, <4>1, SupplyAssumption
    <3> QED BY <3>2, <3>3
  <2>5. /\ balance' \in [Addresses -> 0..MaxI128]
        /\ modelBalance' \in [Addresses -> Int]
    BY <2>2, <2>4 DEF TokenInv
  <2>6. totalSupply' \in Int /\ I128(totalSupply') /\ modelSupply' \in Int
    BY <2>1, <2>2, <2>3, SupplyAssumption DEF TokenInv
  <2>7. DriftIsSelfTransfer'
    BY <2>2, <2>3, <2>4, SupplyAssumption DEF TokenInv, DriftIsSelfTransfer
  <2>8. created' \in [Addresses -> Nat]
    BY <1>1 DEF TokenInv
  <2>9. SupplyConservation'
    <3>1. SumOf(modelBalance') = SumOf(modelBalance) - amount
      <4>1. amount \in Int /\ -amount \in Int
        BY <2>3, SupplyAssumption
      <4>2. modelBalance \in [Addresses -> Int] /\ IsFiniteSet(Addresses)
        BY AddressesAssumption DEF TokenInv
      <4>3. modelBalance' = [modelBalance EXCEPT ![from] = @ + (-amount)]
        BY <2>2, <4>1, <4>2
      <4>4. /\ SumOf(modelBalance) \in Int
            /\ SumOf(modelBalance')
                 = SumOf(modelBalance) + (-amount)
        BY <4>1, <4>2, <4>3, SumOfUpdate
      <4> QED BY <4>1, <4>4
    <3> QED BY <2>2, <3>1, SupplyIsSum, SupplyIsSumNext DEF TokenInv
  <2> HIDE DEF outcome
  <2> QED BY <1>1, <1>4, <2>1, <2>4, <2>5, <2>6, <2>7, <2>8, <2>9, StepInv
<1>6. CASE result # "ok"
  <2>1. UNCHANGED <<contractVars, modelVars, created>>
    BY <1>1, <1>2, <1>4, <1>6 DEF Contract, Model
  <2> HIDE DEF outcome
  <2> QED BY <1>1, <1>4, <1>6, <2>1, FailedCall
<1> QED BY <1>5, <1>6

(* Transfer preserves the invariant.                                         *)
LEMMA TransferInv ==
    ASSUME TokenInv, NEW from \in Addresses, NEW to \in Addresses, NEW amount \in Amounts,
           NEW signed \in AuthSelection, Transfer(from, to, amount, signed)
    PROVE  TokenInv'
<1> DEFINE result == TransferResult(from, to, amount, signed)
           outcome == FromTryResult(result, from \in signed)
           afterSub == [modelBalance EXCEPT ![from] = @ - amount]
<1>1. TakeStep /\ JudgeToken(outcome, from, signed)
  BY DEF Transfer
<1>2. /\ Contract(result, StoreTransfer(from, to, amount), totalSupply)
      /\ Model(outcome, [afterSub EXCEPT ![to] = @ + amount], modelSupply)
      /\ created' = IF result = "ok" /\ from = to
                    THEN [created EXCEPT ![to] = @ + amount] ELSE created
  BY DEF Transfer
<1>3. result \in {"ok", "error", "abort"} /\ (result = "abort" => from \notin signed)
  BY DEF TransferResult
<1>4. outcome # "UndeclaredPanic" /\ (outcome = "Ok" <=> result = "ok")
  BY <1>3, Outcomes
<1>5. CASE result = "ok"
  <2>1. from \in signed /\ amount <= balance[from] /\ I128(balance[to] + amount)
    BY <1>5 DEF TransferResult
  <2>2. /\ balance' = StoreTransfer(from, to, amount)
        /\ totalSupply' = totalSupply
        /\ modelBalance' = [afterSub EXCEPT ![to] = @ + amount]
        /\ modelSupply' = modelSupply
    BY <1>2, <1>4, <1>5 DEF Contract, Model
  <2>3. amount \in 0..MaxI128 /\ amount \in Int
    BY SupplyAssumption DEF Amounts
  <2>4. ASSUME NEW a \in Addresses
        PROVE  /\ balance'[a] \in 0..MaxI128 /\ created'[a] \in Nat
               /\ modelBalance'[a] \in Int /\ modelBalance'[a] >= -MaxI128 - 1
               /\ balance'[a] = modelBalance'[a] + created'[a]
    <3>1. /\ balance[a] \in 0..MaxI128 /\ created[a] \in Nat
          /\ modelBalance[a] \in 0..MaxI128
          /\ balance[a] = modelBalance[a] + created[a]
      BY <1>1, ModelIsBounded DEF TakeStep
    <3>2. CASE a = to /\ a = from
      <4>1. /\ balance'[a] = balance[a] + amount
            /\ modelBalance'[a] = (modelBalance[a] - amount) + amount
            /\ created'[a] = created[a] + amount
        BY <1>2, <1>5, <2>2, <3>2 DEF TokenInv, StoreTransfer
      <4> QED BY <2>1, <2>3, <3>1, <3>2, <4>1, SupplyAssumption DEF I128, Fits
    <3>3. CASE a = to /\ a # from
      <4>1. /\ balance'[a] = balance[a] + amount
            /\ modelBalance'[a] = modelBalance[a] + amount
            /\ created'[a] = created[a]
        BY <1>2, <2>2, <3>3 DEF TokenInv, StoreTransfer
      <4> QED BY <2>1, <2>3, <3>1, <3>3, <4>1, SupplyAssumption DEF I128, Fits
    <3>4. CASE a # to /\ a = from
      <4>1. /\ balance'[a] = balance[a] - amount
            /\ modelBalance'[a] = modelBalance[a] - amount
            /\ created'[a] = created[a]
        BY <1>2, <2>2, <3>4 DEF TokenInv, StoreTransfer
      <4> QED BY <2>1, <2>3, <3>1, <3>4, <4>1, SupplyAssumption
    <3>5. CASE a # to /\ a # from
      <4>1. /\ balance'[a] = balance[a]
            /\ modelBalance'[a] = modelBalance[a]
            /\ created'[a] = created[a]
        BY <1>2, <2>2, <3>5 DEF TokenInv, StoreTransfer
      <4> QED BY <3>1, <4>1, SupplyAssumption
    <3> QED BY <3>2, <3>3, <3>4, <3>5
  <2>5. /\ balance' \in [Addresses -> 0..MaxI128]
        /\ modelBalance' \in [Addresses -> Int]
        /\ created' \in [Addresses -> Nat]
    BY <1>2, <2>2, <2>4 DEF TokenInv, StoreTransfer
  <2>6. totalSupply' \in Int /\ I128(totalSupply') /\ modelSupply' \in Int
    BY <2>2 DEF TokenInv
  <2>7. DriftIsSelfTransfer'
    BY <2>2, <2>4 DEF TokenInv, DriftIsSelfTransfer
  <2>8. SupplyConservation'
    <3>1. amount \in Int /\ -amount \in Int /\ (-amount) + amount = 0
      BY <2>3
    <3>2. modelBalance \in [Addresses -> Int] /\ IsFiniteSet(Addresses)
      BY AddressesAssumption DEF TokenInv
    <3>3. afterSub = [modelBalance EXCEPT ![from] = @ + (-amount)]
      BY <3>1, <3>2
    <3>4. afterSub \in [Addresses -> Int]
      BY <3>1, <3>2
    <3> HIDE DEF afterSub
    <3>5. /\ SumOf(modelBalance) \in Int
          /\ SumOf(afterSub) = SumOf(modelBalance) + (-amount)
      BY <3>1, <3>2, <3>3, SumOfUpdate
    <3>6. modelBalance' = [afterSub EXCEPT ![to] = @ + amount]
      BY <2>2
    <3>7. SumOf(modelBalance') = SumOf(afterSub) + amount
      <4>1. amount \in Int /\ IsFiniteSet(Addresses)
        BY <2>3, AddressesAssumption
      <4> QED BY <3>4, <3>6, <4>1, SumOfUpdate
    <3>8. SumOf(modelBalance') = SumOf(modelBalance)
      BY <3>1, <3>5, <3>7
    <3> QED BY <2>2, <3>8, SupplyIsSum, SupplyIsSumNext DEF TokenInv
  <2> HIDE DEF outcome
  <2> QED BY <1>1, <1>4, <2>1, <2>4, <2>5, <2>6, <2>7, <2>8, StepInv
<1>6. CASE result # "ok"
  <2>1. UNCHANGED <<contractVars, modelVars, created>>
    BY <1>2, <1>4, <1>6 DEF Contract, Model
  <2> HIDE DEF outcome
  <2> QED BY <1>1, <1>4, <1>6, <2>1, FailedCall
<1> QED BY <1>5, <1>6

(* A stuttering step preserves the invariant.                                *)
LEMMA StutterInv == TokenInv /\ UNCHANGED tokenVars => TokenInv'
BY SupplyIsSum, SupplyIsSumNext
DEF TokenInv, tokenVars, DriftIsSelfTransfer, NoNegativeBalance, contractVars, modelVars,
    OnlySelfTransferIsReported, ModelSupplyIsConserved

(* Every step, stuttering included, preserves the invariant.                 *)
LEMMA TokenNextInv == TokenInv /\ [TokenNext]_tokenVars => TokenInv'
<1> SUFFICES ASSUME TokenInv, [TokenNext]_tokenVars PROVE TokenInv'
  OBVIOUS
<1>1. CASE \E to \in Addresses, amount \in Amounts, signed \in AuthSelection :
             Mint(to, amount, signed)
  BY <1>1, MintInv
<1>2. CASE \E from \in Addresses, amount \in Amounts, signed \in AuthSelection :
             Burn(from, amount, signed)
  BY <1>2, BurnInv
<1>3. CASE \E from, to \in Addresses, amount \in Amounts, signed \in AuthSelection :
             Transfer(from, to, amount, signed)
  BY <1>3, TransferInv
<1>4. CASE EndRun /\ UNCHANGED <<contractVars, modelVars, created>>
  BY <1>4, SupplyIsSum, SupplyIsSumNext
  DEF EndRun, contractVars, modelVars, TokenInv, DriftIsSelfTransfer,
      OnlySelfTransferIsReported, ModelSupplyIsConserved
<1>5. CASE UNCHANGED tokenVars
  BY <1>5, StutterInv
<1> QED BY <1>1, <1>2, <1>3, <1>4, <1>5 DEF TokenNext

(* The inductive invariant holds in every reachable state.                    *)
THEOREM TokenInvariance == TokenSpec => []TokenInv
BY TokenInitInv, TokenNextInv, PTL DEF TokenSpec

(* Every value stays in its type, the contract's balances in 0..i128::MAX.     *)
THEOREM TokenTypeCorrect == TokenSpec => []TokenTypeOK
<1>1. TokenInv => TokenTypeOK
  BY DEF TokenInv, TokenTypeOK, OnlySelfTransferIsReported
<1> QED BY <1>1, TokenInvariance, PTL

(* The contract and its shadow model differ, at each address, by exactly what   *)
(* that address gained by transfers to itself.                               *)
THEOREM DriftOnlyBySelfTransfer == TokenSpec => []DriftIsSelfTransfer
<1>1. TokenInv => DriftIsSelfTransfer
  BY DEF TokenInv
<1> QED BY <1>1, TokenInvariance, PTL

(* The harness never reports a panic, an overflow of the model or a missing      *)
(* authorization of the token, and a negative balance only after a             *)
(* self-transfer.                                                           *)
THEOREM ReportsOnlySelfTransfers == TokenSpec => []OnlySelfTransferIsReported
<1>1. TokenInv => OnlySelfTransferIsReported
  BY DEF TokenInv
<1> QED BY <1>1, TokenInvariance, PTL

(* However the balances move, by transfers to oneself too, the model's add up    *)
(* to its supply: the invariant that is registered to notice created tokens      *)
(* never reports any.                                                         *)
THEOREM SupplyIsNeverReported == TokenSpec => []ModelSupplyIsConserved
<1>1. TokenInv => ModelSupplyIsConserved
  BY DEF TokenInv
<1> QED BY <1>1, TokenInvariance, PTL

=============================================================================
