-------------------------- MODULE FuzzTargets_proofs --------------------------
(***************************************************************************)
(* What the three fuzz targets report, for every size of the pool and of the    *)
(* integers, every length of a run and every deadline.                         *)
(*                                                                         *)
(* The counter and its model agree, the escrow and its model have the same      *)
(* status and meet their deadline without a gap, and the token drifts from its   *)
(* model by self-transfers only (Token_proofs).  A target leaves the other       *)
(* examples' state alone, so the three invariants hold together.                *)
(***************************************************************************)
EXTENDS FuzzTargets, Token_proofs

(***************************************************************************)
(* The counter.                                                            *)
(***************************************************************************)
CounterInv ==
    CounterTypeOK /\ verdict \in {"running", "passed"} /\ count = expectedCount

(* The initial states satisfy the invariant.                                 *)
LEMMA CounterInitInv == CounterInit => CounterInv
BY CommandsAssumption, I64Assumption
DEF CounterInit, InitRun, CounterInv, CounterTypeOK, I64, MinI64

(* A command keeps count and model together when an "ok" leaves both the same   *)
(* value, inside i64, and an "abort" means that the signer is missing.         *)
LEMMA ApplyCounterInv ==
    ASSUME CounterInv, NEW result \in {"ok", "error", "abort"}, NEW signer, NEW signed,
           NEW value, NEW expectedValue,
           result = "abort" => ~(signer \subseteq signed),
           result = "ok" => value = expectedValue /\ value \in I64,
           ApplyCounter(result, signer, signed, value, expectedValue)
    PROVE  CounterInv'
<1> DEFINE outcome == FromTryResult(result, signer \subseteq signed)
<1>1. outcome # "UndeclaredPanic" /\ ((outcome = "Ok") <=> (result = "ok"))
  BY DEF FromTryResult
<1>2. /\ TakeStep /\ JudgeCounter(outcome)
      /\ count' = IF result = "ok" THEN value ELSE count
      /\ expectedCount' = IF outcome = "Ok" THEN expectedValue ELSE expectedCount
  BY DEF ApplyCounter
<1> HIDE DEF outcome
<1>3. count' = expectedCount' /\ count' \in I64
  BY <1>1, <1>2 DEF CounterInv, CounterTypeOK
<1>4. verdict' = "running"
  BY <1>1, <1>2, <1>3 DEF JudgeCounter, CounterValueMatchesModel
<1>5. steps' \in 0..CommandsPerRun
  BY <1>2, CommandsAssumption DEF TakeStep, CounterInv, CounterTypeOK
<1> QED BY <1>3, <1>4, <1>5 DEF CounterInv, CounterTypeOK

(* Where the checked operation succeeds, the saturating one of the model does    *)
(* not saturate.                                                            *)
LEMMA CheckedIsSaturating ==
    ASSUME NEW x \in I64, NEW d \in {-1, 1}
    PROVE  /\ Checked(x + d) \in {"ok", "error"}
           /\ Checked(x + d) = "ok" => x + d = SaturatingAddI64(x, d) /\ x + d \in I64
BY I64Assumption DEF Checked, Fits, SaturatingAddI64, I64, MinI64

(* Every step, stuttering included, preserves the invariant.                 *)
LEMMA CounterNextInv == CounterInv /\ [CounterNext]_counterVars => CounterInv'
<1> SUFFICES ASSUME CounterInv, [CounterNext]_counterVars PROVE CounterInv'
  OBVIOUS
<1>0. count \in I64 /\ expectedCount = count
  BY DEF CounterInv, CounterTypeOK
<1>1. ASSUME NEW signed \in AuthSelection, Increment(signed)
      PROVE  CounterInv'
  <2>1. Checked(count + 1) \in {"ok", "error"}
    BY <1>0, CheckedIsSaturating
  <2>2. Checked(count + 1) = "ok" =>
          count + 1 = SaturatingAddI64(expectedCount, 1) /\ count + 1 \in I64
    BY <1>0, CheckedIsSaturating
  <2> QED BY <1>1, <2>1, <2>2, ApplyCounterInv DEF Increment
<1>2. ASSUME NEW signed \in AuthSelection, Decrement(signed)
      PROVE  CounterInv'
  <2>0. count - 1 = count + (-1)
    BY <1>0, I64Assumption DEF I64, MinI64
  <2>1. Checked(count - 1) \in {"ok", "error"}
    BY <1>0, <2>0, CheckedIsSaturating
  <2>2. Checked(count - 1) = "ok" =>
          count - 1 = SaturatingAddI64(expectedCount, -1) /\ count - 1 \in I64
    BY <1>0, <2>0, CheckedIsSaturating
  <2> QED BY <1>2, <2>1, <2>2, ApplyCounterInv DEF Decrement
<1>3. ASSUME NEW signed \in AuthSelection, Reset(signed)
      PROVE  CounterInv'
  <2>1. /\ AdminOnly(signed) \in {"ok", "abort"}
        /\ AdminOnly(signed) = "abort" => ~({CounterAdmin} \subseteq signed)
    BY DEF AdminOnly
  <2>2. 0 \in I64
    BY I64Assumption DEF I64, MinI64
  <2> QED BY <1>3, <2>1, <2>2, ApplyCounterInv DEF Reset
<1>4. ASSUME NEW signed \in AuthSelection, NEW value \in I64, Set(value, signed)
      PROVE  CounterInv'
  <2>1. /\ AdminOnly(signed) \in {"ok", "abort"}
        /\ AdminOnly(signed) = "abort" => ~({CounterAdmin} \subseteq signed)
    BY DEF AdminOnly
  <2> QED BY <1>4, <2>1, ApplyCounterInv DEF Set
<1>5. CASE EndRun /\ UNCHANGED <<count, expectedCount>>
  BY <1>5 DEF EndRun, CounterInv, CounterTypeOK
<1>6. CASE UNCHANGED counterVars
  BY <1>6 DEF CounterInv, CounterTypeOK, counterVars
<1> QED BY <1>1, <1>2, <1>3, <1>4, <1>5, <1>6 DEF CounterNext

(***************************************************************************)
(* The escrow.                                                             *)
(***************************************************************************)
EscrowInv ==
    EscrowTypeOK /\ verdict \in {"running", "passed"} /\ status = expectedStatus

(* The initial states satisfy the invariant.                                 *)
LEMMA EscrowInitInv == EscrowInit => EscrowInv
BY CommandsAssumption, TimeAssumption
DEF EscrowInit, InitRun, EscrowInv, EscrowTypeOK, Status

(* Advancing the clock saturates, and never turns it back.                     *)
LEMMA ClockAdvances ==
    ASSUME NEW t \in 0..MaxTime, NEW secs \in Advances
    PROVE  SaturatingAddSecs(t, secs) \in 0..MaxTime /\ SaturatingAddSecs(t, secs) >= t
BY TimeAssumption DEF SaturatingAddSecs

(* A step of the run is counted, within the bound.                           *)
LEMMA StepsCount == EscrowTypeOK /\ TakeStep => steps' \in 0..CommandsPerRun
BY CommandsAssumption DEF EscrowTypeOK, TakeStep

(* Whatever a command returns, contract and model go the same way, as long as   *)
(* it aborts only for want of a signature.                                    *)
LEMMA ApplyKeepsModel ==
    ASSUME EscrowInv, verdict = "running",
           NEW result \in {"ok", "error", "abort"}, NEW satisfied,
           result = "abort" => ~satisfied,
           NEW newStatus \in Status, ApplyEscrow(result, satisfied, newStatus)
    PROVE  /\ status' \in Status /\ status' = expectedStatus'
           /\ verdict' = "running"
           /\ status' # status => result = "ok" /\ status' = newStatus
<1>1. FromTryResult(result, satisfied) # "UndeclaredPanic"
  BY DEF FromTryResult
<1>2. (FromTryResult(result, satisfied) = "Ok") <=> (result = "ok")
  BY DEF FromTryResult
<1>3. status' \in Status /\ status' = expectedStatus'
  BY <1>2 DEF ApplyEscrow, EscrowInv, EscrowTypeOK
<1>4. verdict' = "running"
  BY <1>1, <1>3 DEF ApplyEscrow, JudgeEscrow, EscrowStatusMatchesModel
<1> QED BY <1>3, <1>4 DEF ApplyEscrow

(* One command at time now': contract and model agree afterwards, and what      *)
(* happened to the status is legal.                                          *)
LEMMA ExecuteStep ==
    ASSUME EscrowInv, verdict = "running",
           NEW signed \in AuthSelection, Execute(signed, now')
    PROVE  /\ status' \in Status /\ status' = expectedStatus'
           /\ verdict' = "running"
           /\ \/ status' = status
              \/ status = "Empty" /\ status' = "Deposited"
              \/ status = "Deposited" /\ status' = "Released" /\ ~(now' >= Deadline)
              \/ status = "Deposited" /\ status' = "Refunded"
<1>1. CASE ApplyEscrow(Deposit(signed), Depositor \in signed, "Deposited")
  <2>1. /\ Deposit(signed) \in {"ok", "error", "abort"}
        /\ Deposit(signed) = "abort" => Depositor \notin signed
        /\ Deposit(signed) = "ok" => status = "Empty"
    BY DEF Deposit
  <2> HIDE DEF Deposit
  <2> QED BY <1>1, <2>1, ApplyKeepsModel DEF Status
<1>2. CASE ApplyEscrow(Release(signed, now'), Depositor \in signed, "Released")
  <2>1. /\ Release(signed, now') \in {"ok", "error", "abort"}
        /\ Release(signed, now') = "abort" => Depositor \notin signed
        /\ Release(signed, now') = "ok" => status = "Deposited" /\ ~(now' >= Deadline)
    BY DEF Release
  <2> QED BY <1>2, <2>1, ApplyKeepsModel DEF Status
<1>3. CASE ApplyEscrow(Refund(now'), TRUE, "Refunded")
  <2>1. /\ Refund(now') \in {"ok", "error", "abort"}
        /\ Refund(now') # "abort"
        /\ Refund(now') = "ok" => status = "Deposited"
    BY DEF Refund
  <2> QED BY <1>3, <2>1, ApplyKeepsModel DEF Status
<1> QED BY <1>1, <1>2, <1>3 DEF Execute

(* A step keeps the invariant, and changes the status only as the escrow's      *)
(* life cycle allows.                                                        *)
LEMMA EscrowStepInv ==
    ASSUME EscrowInv, EscrowNext
    PROVE  /\ EscrowInv'
           /\ now' >= now
           /\ \/ status' = status
              \/ status = "Empty" /\ status' = "Deposited"
              \/ status = "Deposited" /\ status' = "Released" /\ ~(now' >= Deadline)
              \/ status = "Deposited" /\ status' = "Refunded"
<1>0. now \in 0..MaxTime
  BY DEF EscrowInv, EscrowTypeOK
<1>1. ASSUME NEW signed \in AuthSelection, NEW advance \in Advances,
             DepositReleaseOrRefund(signed, advance)
      PROVE  /\ EscrowInv'
             /\ now' >= now
             /\ \/ status' = status
                \/ status = "Empty" /\ status' = "Deposited"
                \/ status = "Deposited" /\ status' = "Released" /\ ~(now' >= Deadline)
                \/ status = "Deposited" /\ status' = "Refunded"
  <2>1. TakeStep /\ now' = SaturatingAddSecs(now, advance) /\ Execute(signed, now')
    BY <1>1 DEF DepositReleaseOrRefund
  <2>2. now' \in 0..MaxTime /\ now' >= now
    BY <1>0, <2>1, ClockAdvances
  <2>3. steps' \in 0..CommandsPerRun
    BY <2>1, StepsCount DEF EscrowInv
  <2>4. verdict = "running"
    BY <2>1 DEF TakeStep
  <2>5. /\ status' \in Status /\ status' = expectedStatus'
        /\ verdict' = "running"
        /\ \/ status' = status
           \/ status = "Empty" /\ status' = "Deposited"
           \/ status = "Deposited" /\ status' = "Released" /\ ~(now' >= Deadline)
           \/ status = "Deposited" /\ status' = "Refunded"
    BY <2>1, <2>4, ExecuteStep
  <2> QED BY <2>2, <2>3, <2>5 DEF EscrowInv, EscrowTypeOK
<1>2. ASSUME NEW advance \in Advances, NEW more \in Advances, AdvanceTime(advance, more)
      PROVE  EscrowInv' /\ now' >= now /\ status' = status
  <2> DEFINE between == SaturatingAddSecs(now, advance)
  <2>1. between \in 0..MaxTime /\ between >= now
    BY <1>0, ClockAdvances
  <2>2. now' = SaturatingAddSecs(between, more)
    BY <1>2 DEF AdvanceTime
  <2> HIDE DEF between
  <2>3. now' \in 0..MaxTime /\ now' >= between
    BY <2>1, <2>2, ClockAdvances
  <2>4. now' >= now
    BY <1>0, <2>1, <2>3, TimeAssumption
  <2>5. steps' \in 0..CommandsPerRun
    BY <1>2, StepsCount DEF EscrowInv, AdvanceTime
  <2>6. status' = status /\ expectedStatus' = expectedStatus /\ verdict' = "running"
    BY <1>2 DEF AdvanceTime, JudgeEscrow, EscrowInv, EscrowStatusMatchesModel
  <2> QED BY <2>3, <2>4, <2>5, <2>6 DEF EscrowInv, EscrowTypeOK
<1>3. ASSUME EndRun, UNCHANGED <<now, status, expectedStatus>>
      PROVE  EscrowInv' /\ now' >= now /\ status' = status
  BY <1>0, <1>3, TimeAssumption DEF EndRun, EscrowInv, EscrowTypeOK
<1> QED BY <1>1, <1>2, <1>3 DEF EscrowNext

(* Every step, stuttering included, preserves the invariant.                 *)
LEMMA EscrowNextInv == EscrowInv /\ [EscrowNext]_escrowVars => EscrowInv'
<1>1. ASSUME EscrowInv, UNCHANGED escrowVars PROVE EscrowInv'
  BY <1>1 DEF EscrowInv, EscrowTypeOK, escrowVars
<1> QED BY <1>1, EscrowStepInv

-----------------------------------------------------------------------------
Inv ==
    /\ target \in Targets
    /\ CounterTypeOK /\ count = expectedCount
    /\ EscrowTypeOK /\ status = expectedStatus
    /\ TokenInv
    /\ target # "token_fuzz" => verdict \in {"running", "passed"}

(* The initial states satisfy the invariant.                                 *)
LEMMA InitInv == Init => Inv
<1> SUFFICES ASSUME Init PROVE Inv
  OBVIOUS
<1>1. CounterInv
  BY CounterInitInv DEF Init
<1>2. EscrowInv
  BY EscrowInitInv DEF Init
<1>3. TokenInv
  BY TokenInitInv DEF Init
<1>4. target \in Targets
  BY DEF Init
<1> QED BY <1>1, <1>2, <1>3, <1>4 DEF Inv, CounterInv, EscrowInv

(* The token's invariant survives a step of another target, which leaves the    *)
(* token alone and reports nothing.                                          *)
LEMMA TokenUntouched ==
    ASSUME TokenInv, UNCHANGED tokenOnly, steps' \in 0..CommandsPerRun,
           verdict = "running", verdict' \in {"running", "passed"}
    PROVE  TokenInv'
<1>1. /\ balance' = balance /\ totalSupply' = totalSupply
      /\ modelBalance' = modelBalance /\ modelSupply' = modelSupply
      /\ created' = created
  BY DEF tokenOnly, contractVars, modelVars
<1>2. DriftIsSelfTransfer' /\ NoNegativeBalance'
  BY <1>1 DEF TokenInv, DriftIsSelfTransfer, NoNegativeBalance
<1>3. OnlySelfTransferIsReported' /\ ModelSupplyIsConserved'
  BY DEF OnlySelfTransferIsReported, ModelSupplyIsConserved
<1>4. SupplyConservation'
  BY <1>1, SupplyIsSum, SupplyIsSumNext DEF TokenInv
<1> QED BY <1>1, <1>2, <1>3, <1>4 DEF TokenInv

(* Only a running target takes a step.                                       *)
LEMMA CounterRuns == CounterNext => verdict = "running"
BY DEF CounterNext, Increment, Decrement, Reset, Set, ApplyCounter, TakeStep, EndRun

(* Likewise for the escrow.                                                  *)
LEMMA EscrowRuns == EscrowNext => verdict = "running"
BY DEF EscrowNext, DepositReleaseOrRefund, AdvanceTime, TakeStep, EndRun

(* Every step, stuttering included, preserves the invariant.                 *)
LEMMA NextInv == Inv /\ [Next]_vars => Inv'
<1> SUFFICES ASSUME Inv, [Next]_vars PROVE Inv'
  OBVIOUS
<1>1. CASE CounterFuzz
  <2>1. CounterInv
    BY <1>1 DEF CounterFuzz, Inv, CounterInv
  <2>2. CounterInv'
    BY <1>1, <2>1, CounterNextInv DEF CounterFuzz
  <2>3. /\ steps' \in 0..CommandsPerRun /\ verdict' \in {"running", "passed"}
        /\ CounterTypeOK' /\ count' = expectedCount'
    BY <2>2 DEF CounterInv, CounterTypeOK
  <2>4. verdict = "running"
    BY <1>1, CounterRuns DEF CounterFuzz
  <2>5. TokenInv'
    BY <1>1, <2>3, <2>4, TokenUntouched DEF CounterFuzz, Inv
  <2>6. EscrowTypeOK' /\ status' = expectedStatus'
    BY <1>1, <2>3 DEF CounterFuzz, escrowOnly, Inv, EscrowTypeOK
  <2> QED BY <1>1, <2>3, <2>5, <2>6 DEF CounterFuzz, Inv
<1>2. CASE EscrowFuzz
  <2>1. EscrowInv
    BY <1>2 DEF EscrowFuzz, Inv, EscrowInv
  <2>2. EscrowInv'
    BY <1>2, <2>1, EscrowNextInv DEF EscrowFuzz
  <2>3. /\ steps' \in 0..CommandsPerRun /\ verdict' \in {"running", "passed"}
        /\ EscrowTypeOK' /\ status' = expectedStatus'
    BY <2>2 DEF EscrowInv, EscrowTypeOK
  <2>4. verdict = "running"
    BY <1>2, EscrowRuns DEF EscrowFuzz
  <2>5. TokenInv'
    BY <1>2, <2>3, <2>4, TokenUntouched DEF EscrowFuzz, Inv
  <2>6. CounterTypeOK' /\ count' = expectedCount'
    BY <1>2, <2>3 DEF EscrowFuzz, counterOnly, Inv, CounterTypeOK
  <2> QED BY <1>2, <2>3, <2>5, <2>6 DEF EscrowFuzz, Inv
<1>3. CASE TokenFuzz
  <2>1. TokenInv'
    BY <1>3, TokenNextInv DEF TokenFuzz, Inv
  <2>2. steps' \in 0..CommandsPerRun
    BY <2>1 DEF TokenInv
  <2>3. CounterTypeOK' /\ count' = expectedCount'
    BY <1>3, <2>2 DEF TokenFuzz, counterOnly, Inv, CounterTypeOK
  <2>4. EscrowTypeOK' /\ status' = expectedStatus'
    BY <1>3, <2>2 DEF TokenFuzz, escrowOnly, Inv, EscrowTypeOK
  <2> QED BY <1>3, <2>1, <2>3, <2>4 DEF TokenFuzz, Inv
<1>4. CASE UNCHANGED vars
  <2>1. TokenInv'
    <3>1. UNCHANGED tokenVars
      BY <1>4 DEF vars, tokenVars
    <3> QED BY <3>1, StutterInv DEF Inv
  <2>2. CounterTypeOK' /\ EscrowTypeOK'
    BY <1>4 DEF Inv, CounterTypeOK, EscrowTypeOK, vars
  <2> QED BY <1>4, <2>1, <2>2 DEF Inv, vars
<1> QED BY <1>1, <1>2, <1>3, <1>4 DEF Next

(* The inductive invariant holds in every reachable state.                   *)
THEOREM Invariance == Spec => []Inv
BY InitInv, NextInv, PTL DEF Spec

(* Every value stays in its type, and a target's verdict is one of its own: the  *)
(* count never leaves i64, the clock saturates at u64::MAX.                     *)
THEOREM TypeCorrect == Spec => []TypeOK
<1>1. Inv => TypeOK
  <2> SUFFICES ASSUME Inv PROVE TypeOK
    OBVIOUS
  <2>1. TokenTypeOK
    BY DEF Inv, TokenInv, TokenTypeOK
  <2>2. verdict \in {"running", "passed"} \cup
          {"no-undeclared-panic", "model overflow", "no-negative-balance",
           "supply-conservation", "auth-required-for-mutation"}
    BY DEF Inv, TokenInv, OnlySelfTransferIsReported
  <2> QED BY <2>1, <2>2 DEF Inv, TypeOK, Targets
<1> QED BY <1>1, Invariance, PTL

(* No generated run of the counter violates an invariant or panics.            *)
THEOREM CounterPasses == Spec => []CounterNeverReported
<1>1. Inv => CounterNeverReported
  BY DEF Inv, TokenInv, OnlySelfTransferIsReported, CounterNeverReported
<1> QED BY <1>1, Invariance, PTL

(* No generated run of the escrow violates an invariant or panics.             *)
THEOREM EscrowPasses == Spec => []EscrowNeverReported
<1>1. Inv => EscrowNeverReported
  BY DEF Inv, TokenInv, OnlySelfTransferIsReported, EscrowNeverReported
<1> QED BY <1>1, Invariance, PTL

(* In the token target contract and model still differ by self-transfers only. *)
THEOREM TokenDriftsBySelfTransfer == Spec => []DriftIsSelfTransfer
<1>1. Inv => DriftIsSelfTransfer
  BY DEF Inv, TokenInv
<1> QED BY <1>1, Invariance, PTL

(* The token target reports a negative balance or a missing supply, nothing     *)
(* else, and these after a self-transfer only.                                *)
THEOREM TokenReportsSelfTransfer == Spec => []OnlySelfTransferIsReported
<1>1. Inv => OnlySelfTransferIsReported
  BY DEF Inv, TokenInv
<1> QED BY <1>1, Invariance, PTL

(* No target reports that the model's balances do not add up to its supply.     *)
THEOREM SupplyNeverReported == Spec => []ModelSupplyIsConserved
<1>1. Inv => ModelSupplyIsConserved
  BY DEF Inv, TokenInv
<1> QED BY <1>1, Invariance, PTL

(* Deposited funds always have exactly one way out.                           *)
THEOREM ExactlyOneWayOut == Spec => []OneWayOut
<1>1. Inv => OneWayOut
  <2> SUFFICES ASSUME Inv, status = "Deposited"
               PROVE  (Release(Addresses, now) = "ok") # (Refund(now) = "ok")
    BY DEF OneWayOut
  <2>1. now \in Int /\ Deadline \in Int
    BY TimeAssumption DEF Inv, EscrowTypeOK, Deadline, SaturatingAddSecs
  <2>2. (Release(Addresses, now) = "ok") <=> (now < Deadline)
    BY <2>1, DepositorAssumption DEF Release
  <2>3. (Refund(now) = "ok") <=> ~(now < Deadline)
    BY <2>1 DEF Refund
  <2> QED BY <2>2, <2>3
<1> QED BY <1>1, Invariance, PTL

(* A settled escrow stays as it is; past the deadline only a refund settles it. *)
THEOREM SettledForGood == Spec => SettledOnce
<1> DEFINE Legal == /\ status \in {"Released", "Refunded"} => status' = status
                    /\ (status = "Deposited" /\ now >= Deadline)
                         => status' \in {status, "Refunded"}
<1>1. Inv /\ [Next]_vars => [Legal]_escrowVars
  <2> SUFFICES ASSUME Inv, Next PROVE Legal \/ UNCHANGED escrowVars
    BY DEF vars, escrowVars
  <2>1. CASE EscrowFuzz
    <3>1. EscrowInv /\ EscrowNext
      BY <2>1 DEF EscrowFuzz, Inv, EscrowInv
    <3>2. EscrowInv' /\ now' >= now
      BY <3>1, EscrowStepInv
    <3>3. \/ status' = status
          \/ status = "Empty" /\ status' = "Deposited"
          \/ status = "Deposited" /\ status' = "Released" /\ ~(now' >= Deadline)
          \/ status = "Deposited" /\ status' = "Refunded"
      BY <3>1, EscrowStepInv
    <3>4. now \in Int /\ now' \in Int /\ Deadline \in Int
      BY <3>1, <3>2, TimeAssumption
      DEF EscrowInv, EscrowTypeOK, Deadline, SaturatingAddSecs
    <3>5. now >= Deadline => now' >= Deadline
      BY <3>2, <3>4
    <3> QED BY <3>3, <3>5
  <2>2. CASE CounterFuzz \/ TokenFuzz
    <3>1. status' = status
      BY <2>2 DEF CounterFuzz, TokenFuzz, escrowOnly
    <3> QED BY <3>1
  <2> QED BY <2>1, <2>2 DEF Next
<1>2. Spec => [][Legal]_escrowVars
  BY <1>1, Invariance, PTL DEF Spec
<1> QED BY <1>2 DEF SettledOnce

=============================================================================
