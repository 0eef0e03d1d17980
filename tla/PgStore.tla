------------------------------- MODULE PgStore -------------------------------
(***************************************************************************)
(* The Postgres implementation of the Store trait                          *)
(* (crates/server/src/store/postgres.rs), one action per SQL statement.    *)
(*                                                                         *)
(* Every operation runs in one READ COMMITTED transaction: a statement     *)
(* reads committed rows, an UPDATE takes the row's lock by writing an       *)
(* uncommitted version and waits while another transaction has one, and    *)
(* COMMIT publishes all versions at once.  So "p holds the lock of a row"   *)
(* is the same thing as "tx[p] has an uncommitted version of it", and no    *)
(* lock variable is needed.  When an UPDATE's WHERE matches no committed    *)
(* row it neither waits nor locks.                                          *)
(*                                                                         *)
(* Callers are worker tasks, which call claim_job, start_run and            *)
(* finish_run in that order for one campaign, and API clients, which call   *)
(* create_campaign and cancel_campaign.  A campaign stands for its row in   *)
(* campaigns, its one row in runs and its one row in job_queue.             *)
(***************************************************************************)
EXTENDS Model, Naturals, Sequences

CONSTANTS Campaigns,    \* campaigns that may be created
          Workers,      \* worker tasks, of one or several server processes
          Clients,      \* API requests in flight
          MaxFindings,  \* bound: findings one run reports
          None          \* "no worker" and "no campaign"

ASSUME CallersAssumption == /\ Workers \cap Clients = {}
                            /\ None \notin Workers \cup Campaigns
ASSUME MaxFindingsAssumption == MaxFindings \in Nat

VARIABLES
    campaign,   \* campaigns.status, committed
    run,        \* runs.status, committed
    jobQueue,   \* job_queue rows by created_at
    claimedBy,  \* job_queue.claimed_by, committed
    attempts,   \* job_queue.attempts, committed
    findings,   \* number of committed findings rows of the run
    call,       \* per caller: the operation it is in, and where
    tx          \* per caller: the uncommitted row versions of its transaction

rows == <<campaign, run, jobQueue, claimedBy, attempts, findings>>
vars == <<campaign, run, jobQueue, claimedBy, attempts, findings, call, tx>>

Callers == Workers \cup Clients

(***************************************************************************)
(* The call of a caller and the uncommitted row versions it holds.          *)
(***************************************************************************)
Ops == {"none", "cancel", "claim", "start", "finish"}

Phases == {"idle", "updateCampaign", "updateRun", "deleteFindings",
           "insertFindings", "commit", "returned"}

Calls == [op : Ops, c : Campaigns \cup {None}, phase : Phases,
          status : CampaignStatus \cup {"absent"}, found : 0..MaxFindings]

IdleCall == [op |-> "none", c |-> None, phase |-> "idle",
             status |-> "absent", found |-> 0]

NoWrite == "unwritten"

Txs == [campaign  : CampaignStatus \cup {NoWrite},
        run       : RunStatus \cup {NoWrite},
        claimedBy : Workers \cup {None},
        deleted   : BOOLEAN,
        inserted  : 0..MaxFindings]

NoTx == [campaign |-> NoWrite, run |-> NoWrite, claimedBy |-> None,
         deleted |-> FALSE, inserted |-> 0]

InTransaction(p) == call[p].phase \notin {"idle", "returned"}

(* A row is locked against p when another transaction has an uncommitted     *)
(* version of it.                                                            *)
CampaignLocked(p, c) ==
    \E q \in Callers \ {p} : call[q].c = c /\ tx[q].campaign # NoWrite
RunLocked(p, c) ==
    \E q \in Callers \ {p} : call[q].c = c /\ tx[q].run # NoWrite
JobLocked(c) ==
    \E q \in Workers : call[q].c = c /\ tx[q].claimedBy # None

-----------------------------------------------------------------------------
Init ==
    /\ campaign = [c \in Campaigns |-> "absent"]
    /\ run = [c \in Campaigns |-> "absent"]
    /\ jobQueue = <<>>
    /\ claimedBy = [c \in Campaigns |-> None]
    /\ attempts = [c \in Campaigns |-> 0]
    /\ findings = [c \in Campaigns |-> 0]
    /\ call = [p \in Callers |-> IdleCall]
    /\ tx = [p \in Callers |-> NoTx]

(***************************************************************************)
(* create_campaign: the three INSERTs touch rows no one else can see before  *)
(* COMMIT, so the transaction is one step.                                   *)
(***************************************************************************)
CreateCampaign(c) ==
    /\ campaign[c] = "absent"
    /\ campaign' = [campaign EXCEPT ![c] = "queued"]
    /\ run' = [run EXCEPT ![c] = "pending"]
    /\ jobQueue' = Append(jobQueue, c)
    /\ UNCHANGED <<claimedBy, attempts, findings, call, tx>>

(***************************************************************************)
(* cancel_campaign: a plain SELECT (no row lock), then, unless the status it *)
(* read is terminal, two unconditional UPDATEs, campaigns first.             *)
(***************************************************************************)
CancelSelect(k, c) ==
    /\ call[k].phase \in {"idle", "returned"}
    /\ call' = [call EXCEPT ![k] =
         [op |-> "cancel", c |-> c, status |-> campaign[c], found |-> 0,
          phase |-> IF campaign[c] = "absent" \/ IsTerminal(campaign[c])
                    THEN "returned" ELSE "updateCampaign"]]
    /\ UNCHANGED <<rows, tx>>

CancelUpdateCampaign(k) ==
    /\ call[k].op = "cancel" /\ call[k].phase = "updateCampaign"
    /\ ~CampaignLocked(k, call[k].c)
    /\ tx' = [tx EXCEPT ![k].campaign = "cancelled"]
    /\ call' = [call EXCEPT ![k].phase = "updateRun"]
    /\ UNCHANGED rows

(* Mutation: the cancel forgets the run. *)
CancelForgetsRun(k) ==
    /\ call[k].op = "cancel" /\ call[k].phase = "updateRun"
    /\ call' = [call EXCEPT ![k].phase = "commit", ![k].status = "cancelled"]
    /\ UNCHANGED <<rows, tx>>

CancelUpdateRun(k) ==
    /\ call[k].op = "cancel" /\ call[k].phase = "updateRun"
    /\ ~RunLocked(k, call[k].c)
    /\ tx' = [tx EXCEPT ![k].run = "cancelled"]
    /\ call' = [call EXCEPT ![k].phase = "commit", ![k].status = "cancelled"]
    /\ UNCHANGED rows

(***************************************************************************)
(* claim_job: one statement that locks the oldest claimable row it can lock  *)
(* without waiting (FOR UPDATE SKIP LOCKED) and marks it claimed; the claim  *)
(* is visible, and the run may have been cancelled, by the time it commits.  *)
(* When nothing is claimable the call returns None and changes nothing.      *)
(***************************************************************************)
(* Mutation: the claim without FOR UPDATE. *)
ClaimableUnlocked(c) == claimedBy[c] = None /\ run[c] = "pending"

Claimable(c) == claimedBy[c] = None /\ run[c] = "pending" /\ ~JobLocked(c)

(* Mutation: the claim only looks at the oldest job, claimable or not. *)
ClaimHeadOnly(w) ==
    /\ call[w].phase = "idle"
    /\ Len(jobQueue) > 0 /\ Claimable(jobQueue[1])
    /\ call' = [call EXCEPT ![w] = [IdleCall EXCEPT !.op = "claim",
                            !.c = jobQueue[1], !.phase = "commit"]]
    /\ tx' = [tx EXCEPT ![w].claimedBy = w]
    /\ UNCHANGED rows

ClaimSelect(w) ==
    /\ call[w].phase = "idle"
    /\ \E i \in 1..Len(jobQueue) :
         /\ Claimable(jobQueue[i])
         /\ \A j \in 1..(i - 1) : ~Claimable(jobQueue[j])
         /\ call' = [call EXCEPT ![w] = [IdleCall EXCEPT !.op = "claim",
                                 !.c = jobQueue[i], !.phase = "commit"]]
    /\ tx' = [tx EXCEPT ![w].claimedBy = w]
    /\ UNCHANGED rows

(***************************************************************************)
(* start_run: FALSE, changing nothing, unless the run is still pending.      *)
(***************************************************************************)
(* Mutation: start_run without AND status = 'pending'. *)
StartAnyRun(w) ==
    /\ call[w].op = "claim" /\ call[w].phase = "returned"
    /\ ~RunLocked(w, call[w].c)
    /\ tx' = [tx EXCEPT ![w].run = "running"]
    /\ call' = [call EXCEPT ![w].op = "start", ![w].phase = "deleteFindings"]
    /\ UNCHANGED rows

StartUpdateRun(w) ==
    /\ call[w].op = "claim" /\ call[w].phase = "returned"
    /\ \/ /\ run[call[w].c] = "pending"
          /\ ~RunLocked(w, call[w].c)
          /\ tx' = [tx EXCEPT ![w].run = "running"]
          /\ call' = [call EXCEPT ![w].op = "start",
                                  ![w].phase = "deleteFindings"]
       \/ /\ run[call[w].c] # "pending"
          /\ call' = [call EXCEPT ![w] = IdleCall]
          /\ UNCHANGED tx
    /\ UNCHANGED rows

StartDeleteFindings(w) ==
    /\ call[w].op = "start" /\ call[w].phase = "deleteFindings"
    /\ tx' = [tx EXCEPT ![w].deleted = TRUE]
    /\ call' = [call EXCEPT ![w].phase = "updateCampaign"]
    /\ UNCHANGED rows

(* Mutation: start_run does not mirror the status to the campaign. *)
StartForgetsCampaign(w) ==
    /\ call[w].op = "start" /\ call[w].phase = "updateCampaign"
    /\ call' = [call EXCEPT ![w].phase = "commit"]
    /\ UNCHANGED <<rows, tx>>

StartUpdateCampaign(w) ==
    /\ call[w].op = "start" /\ call[w].phase = "updateCampaign"
    /\ \/ /\ campaign[call[w].c] = "queued"
          /\ ~CampaignLocked(w, call[w].c)
          /\ tx' = [tx EXCEPT ![w].campaign = "running"]
       \/ /\ campaign[call[w].c] # "queued"
          /\ UNCHANGED tx
    /\ call' = [call EXCEPT ![w].phase = "commit"]
    /\ UNCHANGED rows

(***************************************************************************)
(* finish_run: the status only if the run is still running, the findings     *)
(* always.  A worker reports no findings with "failed" (Worker::process).    *)
(***************************************************************************)
(* Mutation: finish_run without AND status = 'running'. *)
FinishAnyRun(w, status, found) ==
    /\ call[w].op = "start" /\ call[w].phase = "returned"
    /\ status = "failed" => found = 0
    /\ ~RunLocked(w, call[w].c)
    /\ tx' = [tx EXCEPT ![w].run = status]
    /\ call' = [call EXCEPT ![w] =
         [op |-> "finish", c |-> call[w].c, phase |-> "updateCampaign",
          status |-> status, found |-> found]]
    /\ UNCHANGED rows

(* Mutation: finish_run looks for a pending run, so it never ends one. *)
FinishPendingRun(w, status, found) ==
    /\ call[w].op = "start" /\ call[w].phase = "returned"
    /\ status = "failed" => found = 0
    /\ run[call[w].c] # "pending"
    /\ call' = [call EXCEPT ![w] =
         [op |-> "finish", c |-> call[w].c, phase |-> "insertFindings",
          status |-> status, found |-> found]]
    /\ UNCHANGED <<rows, tx>>

FinishUpdateRun(w, status, found) ==
    /\ call[w].op = "start" /\ call[w].phase = "returned"
    /\ status = "failed" => found = 0
    /\ \/ /\ run[call[w].c] = "running"
          /\ ~RunLocked(w, call[w].c)
          /\ tx' = [tx EXCEPT ![w].run = status]
          /\ call' = [call EXCEPT ![w] =
               [op |-> "finish", c |-> call[w].c, phase |-> "updateCampaign",
                status |-> status, found |-> found]]
       \/ /\ run[call[w].c] # "running"
          /\ call' = [call EXCEPT ![w] =
               [op |-> "finish", c |-> call[w].c, phase |-> "insertFindings",
                status |-> status, found |-> found]]
          /\ UNCHANGED tx
    /\ UNCHANGED rows

FinishUpdateCampaign(w) ==
    /\ call[w].op = "finish" /\ call[w].phase = "updateCampaign"
    /\ ~CampaignLocked(w, call[w].c)
    /\ tx' = [tx EXCEPT ![w].campaign = call[w].status]
    /\ call' = [call EXCEPT ![w].phase = "insertFindings"]
    /\ UNCHANGED rows

FinishInsertFindings(w) ==
    /\ call[w].op = "finish" /\ call[w].phase = "insertFindings"
    /\ tx' = [tx EXCEPT ![w].inserted = call[w].found]
    /\ call' = [call EXCEPT ![w].phase = "commit"]
    /\ UNCHANGED rows

(***************************************************************************)
(* COMMIT publishes every uncommitted version of p's transaction.            *)
(***************************************************************************)
(* Mutation: COMMIT also publishes columns nothing was written to. *)
PublishedAlways(row, version) == version

Published(row, version) == IF version = NoWrite THEN row ELSE version

Publish(p) ==
    LET c == call[p].c IN
    /\ campaign' = [campaign EXCEPT ![c] = Published(@, tx[p].campaign)]
    /\ run' = [run EXCEPT ![c] = Published(@, tx[p].run)]
    /\ claimedBy' = [claimedBy EXCEPT ![c] =
                       IF tx[p].claimedBy = None THEN @ ELSE tx[p].claimedBy]
    /\ attempts' = [attempts EXCEPT ![c] =
                      IF tx[p].claimedBy = None THEN @ ELSE @ + 1]
    /\ findings' = [findings EXCEPT ![c] =
                      (IF tx[p].deleted THEN 0 ELSE @) + tx[p].inserted]
    /\ UNCHANGED jobQueue
    /\ tx' = [tx EXCEPT ![p] = NoTx]

(* finish_run returns (): the worker is done with the job.                   *)
Commit(p) ==
    /\ call[p].phase = "commit"
    /\ Publish(p)
    /\ call' = [call EXCEPT ![p] = IF @.op = "finish" THEN IdleCall
                                   ELSE [@ EXCEPT !.phase = "returned"]]

(***************************************************************************)
(* Failures.  A rolled-back transaction leaves no trace; a worker that gets  *)
(* an error from the store logs it and drops the job, a client gets a 500.   *)
(***************************************************************************)
RollBack(p) ==
    /\ call' = [call EXCEPT ![p] = IdleCall]
    /\ tx' = [tx EXCEPT ![p] = NoTx]
    /\ UNCHANGED rows

WaitsForCampaign(p) ==
    /\ call[p].phase = "updateCampaign"
    /\ call[p].op = "start" => campaign[call[p].c] = "queued"

WaitsFor(p, q) ==
    /\ p # q
    /\ call[p].c = call[q].c
    /\ \/ WaitsForCampaign(p) /\ tx[q].campaign # NoWrite
       \/ /\ call[p].op = "cancel" /\ call[p].phase = "updateRun"
          /\ tx[q].run # NoWrite

(* Postgres breaks a wait cycle by aborting one of the transactions in it.   *)
DeadlockVictim(p) ==
    /\ \E q \in Callers : WaitsFor(p, q) /\ WaitsFor(q, p)
    /\ RollBack(p)

(* Any statement, or the COMMIT, may fail, and an API handler is dropped     *)
(* when its client disconnects.                                              *)
StatementFails(p) == InTransaction(p) /\ RollBack(p)

(* COMMIT succeeds but the connection is lost before the caller learns it.   *)
CommitUnacknowledged(p) ==
    /\ call[p].phase = "commit"
    /\ Publish(p)
    /\ call' = [call EXCEPT ![p] = IdleCall]

(* The worker drops its job between two calls: the process dies, or           *)
(* Worker::process returns early (campaign not loaded, target unknown).      *)
WorkerDropsJob(w) == call[w].phase = "returned" /\ RollBack(w)

-----------------------------------------------------------------------------
WorkerStep(w) ==
    \/ ClaimSelect(w)
    \/ StartUpdateRun(w)
    \/ StartDeleteFindings(w)
    \/ StartUpdateCampaign(w)
    \/ \E status \in RunFinishStatus, found \in 0..MaxFindings :
         FinishUpdateRun(w, status, found)
    \/ FinishUpdateCampaign(w)
    \/ FinishInsertFindings(w)
    \/ Commit(w)

CancelStep(k) ==
    \/ CancelUpdateCampaign(k)
    \/ CancelUpdateRun(k)
    \/ Commit(k)

Failure ==
    \/ \E p \in Callers : StatementFails(p) \/ CommitUnacknowledged(p)
    \/ \E w \in Workers : WorkerDropsJob(w)

FaultFreeNext ==
    \/ \E c \in Campaigns : CreateCampaign(c)
    \/ \E k \in Clients, c \in Campaigns : CancelSelect(k, c)
    \/ \E k \in Clients : CancelStep(k)
    \/ \E w \in Workers : WorkerStep(w)
    \/ \E p \in Callers : DeadlockVictim(p)

Next == FaultFreeNext \/ Failure

Spec == Init /\ [][Next]_vars

(***************************************************************************)
(* Fairness: tokio runs every task that can take a step, Postgres answers    *)
(* every statement and breaks every wait cycle, and the runner returns       *)
(* (JOB_TIMEOUT_SECONDS).  Strong fairness stands for the queue in which      *)
(* Postgres lets transactions wait for a row: one that waits is not overtaken *)
(* for ever by later ones.  Nobody has to create or cancel a campaign.       *)
(***************************************************************************)
Fairness ==
    /\ \A w \in Workers : SF_vars(WorkerStep(w))
    /\ \A k \in Clients : SF_vars(CancelStep(k))
    /\ \A p \in Callers : WF_vars(DeadlockVictim(p))

FaultFreeSpec == Init /\ [][FaultFreeNext]_vars /\ Fairness
FairSpec == Spec /\ Fairness

(***************************************************************************)
(* Properties.                                                             *)
(***************************************************************************)
TypeOK ==
    /\ campaign \in [Campaigns -> CampaignStatus \cup {"absent"}]
    /\ run \in [Campaigns -> RunStatus \cup {"absent"}]
    /\ jobQueue \in Seq(Campaigns)
    /\ claimedBy \in [Campaigns -> Workers \cup {None}]
    /\ attempts \in [Campaigns -> Nat]
    /\ findings \in [Campaigns -> Nat]
    /\ call \in [Callers -> Calls]
    /\ tx \in [Callers -> Txs]

(* The committed campaign status always mirrors the committed status of its  *)
(* run (comment of migration 0002), whatever cancels, starts and finishes    *)
(* interleave and whichever of them fail half way.                           *)
StatusMirrored == \A c \in Campaigns : campaign[c] = MirrorOf(run[c])

(* No job is ever handed to two workers: claim_job's row lock and its        *)
(* claimed_by test leave no window in which two callers take the same row.   *)
ClaimedAtMostOnce ==
    \A c \in Campaigns :
      /\ attempts[c] = (IF claimedBy[c] = None THEN 0 ELSE 1)
      /\ \A v, w \in Workers : (call[v].c = c /\ call[w].c = c) => v = w

(* A client that was told "cancelled" can rely on it: no start or finish      *)
(* that raced the cancel, or comes later, brings the campaign or its run back *)
(* (store/mod.rs, finish_run: "the worker can never clobber a cancellation"). *)
CancelReplyHolds ==
    \A k \in Clients :
      (call[k].phase = "returned" /\ call[k].status = "cancelled")
        => campaign[call[k].c] = "cancelled" /\ run[call[k].c] = "cancelled"

(* Findings become visible together with the run's final status, never while *)
(* GET /runs/{id} still says pending or running: they are inserted in the     *)
(* transaction that ends the run, or after a cancel ended it.                 *)
FindingsOnlyOfEndedRuns ==
    \A c \in Campaigns : findings[c] > 0 => IsTerminal(run[c])

(* What workers do never changes a terminal status: the only step that does  *)
(* overwrites it with "cancelled", and no committed finding disappears.      *)
WorkersKeepOutcomes ==
    [][\A c \in Campaigns :
         IsTerminal(run[c]) =>
           /\ run'[c] \in {run[c], "cancelled"}
           /\ campaign'[c] \in {campaign[c], "cancelled"}
           /\ findings'[c] >= findings[c]]_vars

(* Without failures every created campaign reaches a terminal status, also    *)
(* when cancel and start/finish, which lock the two rows in opposite orders,  *)
(* deadlock and Postgres aborts either of them.                              *)
EveryCampaignEnds ==
    \A c \in Campaigns : (campaign[c] # "absent") ~> IsTerminal(campaign[c])

(* store/mod.rs:72, cancel_campaign: "unless the campaign is already in a     *)
(* terminal state (in which case this is a no-op)".  The plain SELECT lets a   *)
(* finish_run commit between the test and the UPDATEs.                        *)
TerminalIsFinal ==
    [][\A c \in Campaigns : IsTerminal(campaign[c]) => campaign'[c] = campaign[c]]_vars

(* store/mod.rs:96, finish_run: "persists its findings unconditionally".  A    *)
(* finish_run that ends without a failure of the database has inserted what   *)
(* it was given; a deadlock with cancel_campaign breaks this.                 *)
FinishPersistsFindings ==
    [][\A w \in Workers :
         (call[w].op = "finish" /\ call'[w].op # "finish")
           => findings'[call[w].c] = findings[call[w].c] + call[w].found]_vars

(***************************************************************************)
(* Refinement: seen through its committed rows, and through which workers    *)
(* are between a start_run that returned true and the end of their           *)
(* finish_run, PgStore is an atomic CampaignStore.                           *)
(***************************************************************************)
Executes(w) ==
    call[w].op = "finish" \/ (call[w].op = "start" /\ call[w].phase = "returned")

Executing == {c \in Campaigns : \E w \in Workers : call[w].c = c /\ Executes(w)}

Atomic == INSTANCE CampaignStore WITH executing <- Executing, LateCancel <- TRUE

(* Every interleaving of statements, deadlock abort and failure looks to the  *)
(* callers like a sequence of whole operations.                              *)
ImplementsAtomicStore == Atomic!Spec

=============================================================================
