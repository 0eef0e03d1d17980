-------------------------------- MODULE Escrow --------------------------------
(***************************************************************************)
(* The escrow example (examples/escrow): the contract, whose deadline depends  *)
(* on the ledger's clock, and the adapter that runs it in the harness.  The     *)
(* deposited amount is stored and never read, so it is left out.              *)
(***************************************************************************)
EXTENDS Harness

CONSTANTS Depositor,
          DeadlineOffset,   \* DEADLINE_OFFSET_SECS
          MaxTime,          \* u64::MAX, scaled
          Advances          \* seconds one step may advance the clock by

ASSUME DepositorAssumption == Depositor \in Addresses
ASSUME TimeAssumption ==
    DeadlineOffset \in Nat /\ MaxTime \in Nat /\ Advances \subseteq Nat

VARIABLES
    now,        \* the ledger's timestamp
    status,     \* STATUS in the contract's storage
    expectedStatus    \* EscrowModel::status

escrowVars == <<steps, verdict, now, status, expectedStatus>>

Status == {"Empty", "Deposited", "Released", "Refunded"}

(* Mutation: the clock is advanced without saturating. *)
AddUnbounded(t, secs) == t + secs

SaturatingAddSecs(t, secs) == IF t + secs > MaxTime THEN MaxTime ELSE t + secs

(* setup: a fresh Env's clock stands at 0.                                    *)
Deadline == SaturatingAddSecs(0, DeadlineOffset)

EscrowInit == InitRun /\ now = 0 /\ status = "Empty" /\ expectedStatus = "Empty"

(***************************************************************************)
(* What the three entry points return, at time t.                            *)
(***************************************************************************)
(* Mutation: deposit does not look at the status. *)
DepositAgain(signed) == IF Depositor \notin signed THEN "abort" ELSE "ok"

Deposit(signed) ==
    IF Depositor \notin signed THEN "abort"
    ELSE IF status # "Empty" THEN "error" ELSE "ok"

(* Mutation: release unwraps what is not there while nothing is deposited. *)
ReleasePanics(signed, t) ==
    IF Depositor \notin signed \/ status = "Empty" THEN "abort"
    ELSE IF status # "Deposited" \/ t >= Deadline THEN "error" ELSE "ok"

Release(signed, t) ==
    IF Depositor \notin signed THEN "abort"
    ELSE IF status # "Deposited" \/ t >= Deadline THEN "error" ELSE "ok"

(* Mutation: the deadline itself is still too early for a refund. *)
RefundLate(t) == IF status # "Deposited" \/ t <= Deadline THEN "error" ELSE "ok"

Refund(t) == IF status # "Deposited" \/ t < Deadline THEN "error" ELSE "ok"

(***************************************************************************)
(* A step: its own clock advance, then one command.                          *)
(***************************************************************************)
EscrowStatusMatchesModel == status = expectedStatus

JudgeEscrow(outcome) ==
    verdict' = IF outcome = "UndeclaredPanic" THEN "no-undeclared-panic"
               ELSE IF EscrowStatusMatchesModel' THEN "running"
               ELSE "escrow-status-matches-model"

ApplyEscrow(result, authSatisfied, newStatus) ==
    LET outcome == FromTryResult(result, authSatisfied) IN
    /\ status' = IF result = "ok" THEN newStatus ELSE status
    /\ expectedStatus' = IF outcome = "Ok" THEN newStatus ELSE expectedStatus
    /\ JudgeEscrow(outcome)

Execute(signed, t) ==
    \/ ApplyEscrow(Deposit(signed), Depositor \in signed, "Deposited")
    \/ ApplyEscrow(Release(signed, t), Depositor \in signed, "Released")
    \/ ApplyEscrow(Refund(t), TRUE, "Refunded")

DepositReleaseOrRefund(signed, advance) ==
    /\ TakeStep
    /\ now' = SaturatingAddSecs(now, advance)
    /\ Execute(signed, now')

(* EscrowCommand::AdvanceTime, after the step's own advance.                  *)
AdvanceTime(advance, more) ==
    /\ TakeStep
    /\ now' = SaturatingAddSecs(SaturatingAddSecs(now, advance), more)
    /\ UNCHANGED <<status, expectedStatus>>
    /\ JudgeEscrow("Ok")

EscrowNext ==
    \/ \E signed \in AuthSelection, advance \in Advances :
         DepositReleaseOrRefund(signed, advance)
    \/ \E advance, more \in Advances : AdvanceTime(advance, more)
    \/ EndRun /\ UNCHANGED <<now, status, expectedStatus>>

EscrowSpec == EscrowInit /\ [][EscrowNext]_escrowVars

(***************************************************************************)
(* Properties.                                                             *)
(***************************************************************************)
EscrowTypeOK ==
    /\ steps \in 0..CommandsPerRun
    /\ now \in 0..MaxTime
    /\ status \in Status /\ expectedStatus \in Status

(* The escrow's fuzz target never reports anything, in whatever order the      *)
(* commands come, whoever signed and however the clock jumps.                 *)
EscrowNeverReported ==
    verdict \notin {"no-undeclared-panic", "escrow-status-matches-model"}

(* Deposited funds always have exactly one way out: the depositor's release    *)
(* and the refund anyone may trigger meet at the deadline without a gap and    *)
(* without an overlap.                                                       *)
OneWayOut ==
    status = "Deposited" => (Release(Addresses, now) = "ok") # (Refund(now) = "ok")

(* The escrow settles once: a release or a refund is for ever, and nothing     *)
(* can be deposited after it.  Funds past the deadline can only be refunded,   *)
(* since the clock never runs backwards.                                     *)
SettledOnce ==
    [][/\ status \in {"Released", "Refunded"} => status' = status
       /\ (status = "Deposited" /\ now >= Deadline) => status' \in {status, "Refunded"}]_escrowVars

=============================================================================
