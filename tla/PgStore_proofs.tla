---------------------------- MODULE PgStore_proofs ----------------------------
(***************************************************************************)
(* Proofs about PgStore for any numbers of campaigns, workers and clients.   *)
(*                                                                         *)
(* StatusMirrored is not inductive: what a COMMIT publishes depends on what   *)
(* the transaction saw several statements earlier.  Inv adds, for every       *)
(* caller p,                                                               *)
(*   CallShape(p)  where in which operation p can be,                        *)
(*   TxShape(p)    which uncommitted versions p has at that point,           *)
(*   RowLocks(p)   that nobody else has a version of the same row, and       *)
(*   SeenRows(p)   that what p saw when it took a row's lock is still so      *)
(*                 while it has the lock.                                    *)
(***************************************************************************)
EXTENDS PgStore, TLAPS

OpPhases ==
    {<<"none", "idle">>,
     <<"cancel", "updateCampaign">>, <<"cancel", "updateRun">>,
     <<"cancel", "commit">>, <<"cancel", "returned">>,
     <<"claim", "commit">>, <<"claim", "returned">>,
     <<"start", "deleteFindings">>, <<"start", "updateCampaign">>,
     <<"start", "commit">>, <<"start", "returned">>,
     <<"finish", "updateCampaign">>, <<"finish", "insertFindings">>,
     <<"finish", "commit">>}

At(p, op, phase) == call[p].op = op /\ call[p].phase = phase

CallShape(p) ==
    /\ <<call[p].op, call[p].phase>> \in OpPhases
    /\ call[p].op # "none" => call[p].c \in Campaigns
    /\ call[p].op = "none" => call[p].c = None
    /\ call[p].op = "cancel" => p \in Clients
    /\ call[p].op \in {"claim", "start", "finish"} => p \in Workers
    /\ call[p].op = "finish" => call[p].status \in RunFinishStatus
    /\ At(p, "cancel", "commit") => call[p].status = "cancelled"

(* The transaction that has written these versions of a campaign and its run. *)
Wrote(campaignStatus, runStatus, deleted, inserted) ==
    [campaign |-> campaignStatus, run |-> runStatus, claimedBy |-> None,
     deleted |-> deleted, inserted |-> inserted]

WroteClaim(p) == [campaign |-> NoWrite, run |-> NoWrite, claimedBy |-> p,
               deleted |-> FALSE, inserted |-> 0]

TxShape(p) ==
    LET status == call[p].status IN
    /\ ~InTransaction(p) => tx[p] = NoTx
    /\ At(p, "cancel", "updateCampaign") => tx[p] = NoTx
    /\ At(p, "cancel", "updateRun") => tx[p] = Wrote("cancelled", NoWrite, FALSE, 0)
    /\ At(p, "cancel", "commit") => tx[p] = Wrote("cancelled", "cancelled", FALSE, 0)
    /\ At(p, "claim", "commit") => tx[p] = WroteClaim(p)
    /\ At(p, "start", "deleteFindings") => tx[p] = Wrote(NoWrite, "running", FALSE, 0)
    /\ At(p, "start", "updateCampaign") => tx[p] = Wrote(NoWrite, "running", TRUE, 0)
    /\ At(p, "start", "commit") => tx[p] = Wrote("running", "running", TRUE, 0)
    /\ At(p, "finish", "updateCampaign") => tx[p] = Wrote(NoWrite, status, FALSE, 0)
    /\ At(p, "finish", "insertFindings") =>
         tx[p] \in {NoTx, Wrote(status, status, FALSE, 0)}
    /\ At(p, "finish", "commit") =>
         tx[p] \in {Wrote(NoWrite, NoWrite, FALSE, call[p].found),
                    Wrote(status, status, FALSE, call[p].found)}

RowLocks(p) ==
    \A q \in Callers \ {p} :
      call[p].c = call[q].c =>
        /\ tx[p].campaign = NoWrite \/ tx[q].campaign = NoWrite
        /\ tx[p].run = NoWrite \/ tx[q].run = NoWrite
        /\ tx[p].claimedBy = None \/ tx[q].claimedBy = None

SeenRows(p) ==
    LET c == call[p].c IN
    /\ call[p].op = "start" =>
         IF InTransaction(p) THEN run[c] = "pending"
                             ELSE run[c] \notin {"absent", "pending"}
    /\ call[p].op = "finish" =>
         IF tx[p].run = NoWrite THEN IsTerminal(run[c]) ELSE run[c] = "running"
    /\ At(p, "claim", "commit") => claimedBy[c] = None
    /\ At(p, "claim", "returned") => claimedBy[c] = p
    /\ call[p].op \in {"start", "finish"} => claimedBy[c] = p
    /\ (call[p].op # "none" /\ ~At(p, "cancel", "returned")) => run[c] # "absent"
    /\ (At(p, "cancel", "returned") /\ call[p].status = "cancelled")
         => run[c] = "cancelled"

CallerOK(p) == CallShape(p) /\ TxShape(p) /\ RowLocks(p) /\ SeenRows(p)

AttemptsCounted ==
    \A c \in Campaigns : attempts[c] = (IF claimedBy[c] = None THEN 0 ELSE 1)

QueuedExist ==
    \A i \in 1..Len(jobQueue) : run[jobQueue[i]] # "absent"

RowsOK == 
    /\ StatusMirrored
    /\ AttemptsCounted
    /\ QueuedExist
    /\ FindingsOnlyOfEndedRuns

Inv ==
    /\ TypeOK
    /\ RowsOK
    /\ \A p \in Callers : CallerOK(p)

-----------------------------------------------------------------------------
(* The initial states satisfy the invariant.                                 *)
LEMMA InitInv == Init => Inv
<1> SUFFICES ASSUME Init PROVE Inv
  OBVIOUS
<1>1. TypeOK
  <2>1. IdleCall \in Calls
    BY MaxFindingsAssumption DEF IdleCall, Calls, Ops, Phases
  <2>2. NoTx \in Txs
    BY MaxFindingsAssumption DEF NoTx, Txs
  <2> QED
    BY <2>1, <2>2 DEF Init, TypeOK
<1>2. RowsOK
  BY DEF Init, RowsOK, StatusMirrored, AttemptsCounted, QueuedExist,
         FindingsOnlyOfEndedRuns, MirrorOf
<1>3. ASSUME NEW p \in Callers PROVE CallerOK(p)
  BY DEF Init, CallerOK, At, CallShape, TxShape, RowLocks, SeenRows, OpPhases,
         IdleCall, NoTx, InTransaction
<1> QED
  BY <1>1, <1>2, <1>3 DEF Inv

(* A step that leaves every row alone and moves only p has to preserve only    *)
(* what Inv says about p.                                                    *)
LEMMA LocalStep ==
  ASSUME Inv, NEW p \in Callers, UNCHANGED rows,
         call' \in [Callers -> Calls], tx' \in [Callers -> Txs],
         \A q \in Callers \ {p} : call'[q] = call[q] /\ tx'[q] = tx[q],
         CallerOK(p)'
  PROVE  Inv'
<1>1. TypeOK'
  BY DEF Inv, TypeOK, rows
<1>2. RowsOK'
  BY DEF Inv, RowsOK, StatusMirrored, AttemptsCounted, QueuedExist,
         FindingsOnlyOfEndedRuns, rows
<1>3. ASSUME NEW q \in Callers \ {p} PROVE CallerOK(q)'
  <2>1. CallerOK(q) /\ call'[q] = call[q] /\ tx'[q] = tx[q]
    BY DEF Inv
  <2>2. CallShape(q)'
    BY <2>1 DEF CallerOK, At, CallShape
  <2>5. TxShape(q)'
    BY <2>1 DEF CallerOK, At, TxShape, InTransaction
  <2>4. SeenRows(q)'
    BY <2>1 DEF CallerOK, At, SeenRows, InTransaction, rows
  <2>3. RowLocks(q)'
    BY <2>1 DEF CallerOK, RowLocks
  <2> QED
    BY <2>2, <2>3, <2>4, <2>5 DEF CallerOK
<1> QED
  BY <1>1, <1>2, <1>3 DEF Inv

(* An idle call and an empty transaction are well typed.                     *)
LEMMA BlankTypes == IdleCall \in Calls /\ NoTx \in Txs
  BY MaxFindingsAssumption
  DEF IdleCall, Calls, Ops, Phases, NoTx, Txs

(* A rollback, for whatever reason, preserves the invariant.                 *)
LEMMA RollBackInv ==
  ASSUME Inv, NEW p \in Callers, RollBack(p)
  PROVE  Inv'
<1>1. /\ call' \in [Callers -> Calls] /\ tx' \in [Callers -> Txs]
      /\ call'[p] = IdleCall /\ tx'[p] = NoTx
      /\ \A q \in Callers \ {p} : call'[q] = call[q] /\ tx'[q] = tx[q]
  BY BlankTypes DEF RollBack, Inv, TypeOK
<1>2. CallerOK(p)'
  BY <1>1 DEF CallerOK, At, CallShape, TxShape, RowLocks, SeenRows, OpPhases,
              IdleCall, NoTx, InTransaction
<1> QED
  BY <1>1, <1>2, LocalStep DEF RollBack

(* CancelSelect preserves the invariant.                                     *)
LEMMA CancelSelectInv ==
  ASSUME Inv, NEW p \in Clients, NEW c \in Campaigns, CancelSelect(p, c)
  PROVE  Inv'
<1> p \in Callers
  BY DEF Callers
<1>1. /\ call' \in [Callers -> Calls] /\ tx' \in [Callers -> Txs]
      /\ call'[p].op = "cancel" /\ call'[p].c = c /\ call'[p].status = campaign[c]
      /\ call'[p].phase = IF campaign[c] = "absent" \/ IsTerminal(campaign[c])
                          THEN "returned" ELSE "updateCampaign"
      /\ \A q \in Callers \ {p} : call'[q] = call[q]
  BY MaxFindingsAssumption DEF CancelSelect, Inv, TypeOK, Calls, Ops, Phases
<1>2. /\ tx' = tx /\ tx[p] = NoTx /\ UNCHANGED rows
      /\ campaign[c] = MirrorOf(run[c])
      /\ run[c] \in RunStatus \cup {"absent"}
  BY DEF CancelSelect, Inv, CallerOK, TxShape, InTransaction, RowsOK,
         StatusMirrored, TypeOK
<1>3. CallShape(p)' /\ TxShape(p)'
  BY <1>1, <1>2 DEF At, CallShape, TxShape, OpPhases, InTransaction
<1>4. RowLocks(p)'
  BY <1>1, <1>2 DEF RowLocks, NoTx
<1>5. SeenRows(p)'
  BY <1>1, <1>2 DEF At, SeenRows, MirrorOf, IsTerminal, rows, RunStatus
<1> QED
  BY <1>1, <1>2, <1>3, <1>4, <1>5, LocalStep DEF CallerOK

(* CancelUpdateCampaign preserves the invariant.                             *)
LEMMA CancelUpdateCampaignInv ==
  ASSUME Inv, NEW p \in Clients, CancelUpdateCampaign(p)
  PROVE  Inv'
<1> p \in Callers
  BY DEF Callers
<1>1. CallerOK(p) /\ call[p] \in Calls /\ tx[p] \in Txs
  BY DEF Inv, TypeOK
<1>2. tx[p] = NoTx
  BY <1>1 DEF CancelUpdateCampaign, CallerOK, At, TxShape, InTransaction
<1>3. /\ call'[p].op = call[p].op /\ call'[p].c = call[p].c
      /\ call'[p].phase = "updateRun" /\ call'[p].status = call[p].status /\ call'[p].found = call[p].found
  BY DEF CancelUpdateCampaign, Inv, TypeOK, Calls
<1>4. tx'[p] = [campaign |-> "cancelled", run |-> tx[p].run,
               claimedBy |-> tx[p].claimedBy, deleted |-> tx[p].deleted,
               inserted |-> tx[p].inserted]
  BY DEF CancelUpdateCampaign, Inv, TypeOK, Txs
<1>5. tx'[p] = Wrote("cancelled", NoWrite, FALSE, 0)
  BY <1>2, <1>4 DEF NoTx, Wrote
<1>6. /\ \A q \in Callers \ {p} : call'[q] = call[q] /\ tx'[q] = tx[q]
      /\ UNCHANGED rows
  BY DEF CancelUpdateCampaign, Inv, TypeOK
<1>7. call' \in [Callers -> Calls] /\ tx' \in [Callers -> Txs]
  BY <1>1
  DEF CancelUpdateCampaign, Inv, TypeOK, Calls, Phases, Ops, Txs, CampaignStatus, RunStatus,
      CallerOK, At, CallShape, RunFinishStatus
<1>8. CallShape(p)' /\ TxShape(p)'
  BY <1>1, <1>3, <1>5
  DEF CallerOK, At, CallShape, TxShape, OpPhases, InTransaction, CancelUpdateCampaign
<1>9. RowLocks(p)'
  <2>1. ~CampaignLocked(p, call[p].c)
    BY DEF CancelUpdateCampaign
  <2> QED
    BY <1>1, <1>3, <1>4, <1>6, <2>1 DEF CallerOK, RowLocks, CampaignLocked
<1>10. SeenRows(p)'
  BY <1>1, <1>3, <1>4, <1>6
  DEF CallerOK, At, SeenRows, CancelUpdateCampaign, rows, InTransaction
<1> QED
  BY <1>6, <1>7, <1>8, <1>9, <1>10, LocalStep DEF CallerOK

(* CancelUpdateRun preserves the invariant.                                  *)
LEMMA CancelUpdateRunInv ==
  ASSUME Inv, NEW p \in Clients, CancelUpdateRun(p)
  PROVE  Inv'
<1> p \in Callers
  BY DEF Callers
<1>1. CallerOK(p) /\ call[p] \in Calls /\ tx[p] \in Txs
  BY DEF Inv, TypeOK
<1>2. tx[p] = Wrote("cancelled", NoWrite, FALSE, 0)
  BY <1>1 DEF CancelUpdateRun, CallerOK, At, TxShape, InTransaction
<1>3. /\ call'[p].op = call[p].op /\ call'[p].c = call[p].c
      /\ call'[p].phase = "commit" /\ call'[p].status = "cancelled" /\ call'[p].found = call[p].found
  BY DEF CancelUpdateRun, Inv, TypeOK, Calls
<1>4. tx'[p] = [campaign |-> tx[p].campaign, run |-> "cancelled",
               claimedBy |-> tx[p].claimedBy, deleted |-> tx[p].deleted,
               inserted |-> tx[p].inserted]
  BY DEF CancelUpdateRun, Inv, TypeOK, Txs
<1>5. tx'[p] = Wrote("cancelled", "cancelled", FALSE, 0)
  BY <1>2, <1>4 DEF NoTx, Wrote
<1>6. /\ \A q \in Callers \ {p} : call'[q] = call[q] /\ tx'[q] = tx[q]
      /\ UNCHANGED rows
  BY DEF CancelUpdateRun, Inv, TypeOK
<1>7. call' \in [Callers -> Calls] /\ tx' \in [Callers -> Txs]
  BY <1>1
  DEF CancelUpdateRun, Inv, TypeOK, Calls, Phases, Ops, Txs, CampaignStatus, RunStatus,
      CallerOK, At, CallShape, RunFinishStatus
<1>8. CallShape(p)' /\ TxShape(p)'
  BY <1>1, <1>3, <1>5
  DEF CallerOK, At, CallShape, TxShape, OpPhases, InTransaction, CancelUpdateRun
<1>9. RowLocks(p)'
  <2>1. ~RunLocked(p, call[p].c)
    BY DEF CancelUpdateRun
  <2> QED
    BY <1>1, <1>3, <1>4, <1>6, <2>1 DEF CallerOK, RowLocks, RunLocked
<1>10. SeenRows(p)'
  BY <1>1, <1>3, <1>4, <1>6
  DEF CallerOK, At, SeenRows, CancelUpdateRun, rows, InTransaction
<1> QED
  BY <1>6, <1>7, <1>8, <1>9, <1>10, LocalStep DEF CallerOK

(* StartDeleteFindings preserves the invariant.                              *)
LEMMA StartDeleteFindingsInv ==
  ASSUME Inv, NEW p \in Workers, StartDeleteFindings(p)
  PROVE  Inv'
<1> p \in Callers
  BY DEF Callers
<1>1. CallerOK(p) /\ call[p] \in Calls /\ tx[p] \in Txs
  BY DEF Inv, TypeOK
<1>2. tx[p] = Wrote(NoWrite, "running", FALSE, 0)
  BY <1>1 DEF StartDeleteFindings, CallerOK, At, TxShape, InTransaction
<1>3. /\ call'[p].op = call[p].op /\ call'[p].c = call[p].c
      /\ call'[p].phase = "updateCampaign" /\ call'[p].status = call[p].status /\ call'[p].found = call[p].found
  BY DEF StartDeleteFindings, Inv, TypeOK, Calls
<1>4. tx'[p] = [campaign |-> tx[p].campaign, run |-> tx[p].run,
               claimedBy |-> tx[p].claimedBy, deleted |-> TRUE,
               inserted |-> tx[p].inserted]
  BY DEF StartDeleteFindings, Inv, TypeOK, Txs
<1>5. tx'[p] = Wrote(NoWrite, "running", TRUE, 0)
  BY <1>2, <1>4 DEF NoTx, Wrote
<1>6. /\ \A q \in Callers \ {p} : call'[q] = call[q] /\ tx'[q] = tx[q]
      /\ UNCHANGED rows
  BY DEF StartDeleteFindings, Inv, TypeOK
<1>7. call' \in [Callers -> Calls] /\ tx' \in [Callers -> Txs]
  BY <1>1
  DEF StartDeleteFindings, Inv, TypeOK, Calls, Phases, Ops, Txs, CampaignStatus, RunStatus,
      CallerOK, At, CallShape, RunFinishStatus
<1>8. CallShape(p)' /\ TxShape(p)'
  BY <1>1, <1>3, <1>5
  DEF CallerOK, At, CallShape, TxShape, OpPhases, InTransaction, StartDeleteFindings
<1>9. RowLocks(p)'
  BY <1>1, <1>3, <1>4, <1>6 DEF CallerOK, RowLocks
<1>10. SeenRows(p)'
  BY <1>1, <1>3, <1>4, <1>6
  DEF CallerOK, At, SeenRows, StartDeleteFindings, rows, InTransaction
<1> QED
  BY <1>6, <1>7, <1>8, <1>9, <1>10, LocalStep DEF CallerOK

(* FinishUpdateCampaign preserves the invariant.                             *)
LEMMA FinishUpdateCampaignInv ==
  ASSUME Inv, NEW p \in Workers, FinishUpdateCampaign(p)
  PROVE  Inv'
<1> p \in Callers
  BY DEF Callers
<1>1. CallerOK(p) /\ call[p] \in Calls /\ tx[p] \in Txs
  BY DEF Inv, TypeOK
<1>2. tx[p] = Wrote(NoWrite, call[p].status, FALSE, 0)
  BY <1>1 DEF FinishUpdateCampaign, CallerOK, At, TxShape, InTransaction
<1>3. /\ call'[p].op = call[p].op /\ call'[p].c = call[p].c
      /\ call'[p].phase = "insertFindings" /\ call'[p].status = call[p].status /\ call'[p].found = call[p].found
  BY DEF FinishUpdateCampaign, Inv, TypeOK, Calls
<1>4. tx'[p] = [campaign |-> call[p].status, run |-> tx[p].run,
               claimedBy |-> tx[p].claimedBy, deleted |-> tx[p].deleted,
               inserted |-> tx[p].inserted]
  BY DEF FinishUpdateCampaign, Inv, TypeOK, Txs
<1>5. tx'[p] = Wrote(call[p].status, call[p].status, FALSE, 0)
  BY <1>2, <1>4 DEF NoTx, Wrote
<1>6. /\ \A q \in Callers \ {p} : call'[q] = call[q] /\ tx'[q] = tx[q]
      /\ UNCHANGED rows
  BY DEF FinishUpdateCampaign, Inv, TypeOK
<1>7. call' \in [Callers -> Calls] /\ tx' \in [Callers -> Txs]
  BY <1>1
  DEF FinishUpdateCampaign, Inv, TypeOK, Calls, Phases, Ops, Txs, CampaignStatus, RunStatus,
      CallerOK, At, CallShape, RunFinishStatus
<1>8. CallShape(p)' /\ TxShape(p)'
  BY <1>1, <1>3, <1>5
  DEF CallerOK, At, CallShape, TxShape, OpPhases, InTransaction, FinishUpdateCampaign
<1>9. RowLocks(p)'
  <2>1. ~CampaignLocked(p, call[p].c)
    BY DEF FinishUpdateCampaign
  <2> QED
    BY <1>1, <1>3, <1>4, <1>6, <2>1 DEF CallerOK, RowLocks, CampaignLocked
<1>10. SeenRows(p)'
  BY <1>1, <1>3, <1>4, <1>6
  DEF CallerOK, At, SeenRows, FinishUpdateCampaign, rows, InTransaction, CallShape, RunFinishStatus
<1> QED
  BY <1>6, <1>7, <1>8, <1>9, <1>10, LocalStep DEF CallerOK

(* ClaimSelect preserves the invariant.                                      *)
LEMMA ClaimSelectInv ==
  ASSUME Inv, NEW p \in Workers, ClaimSelect(p)
  PROVE  Inv'
<1> p \in Callers
  BY DEF Callers
<1>1. CallerOK(p) /\ call[p] \in Calls /\ tx[p] \in Txs /\ tx[p] = NoTx
  BY DEF ClaimSelect, Inv, CallerOK, TxShape, InTransaction, TypeOK
<1>2. PICK i \in 1..Len(jobQueue) :
        /\ Claimable(jobQueue[i])
        /\ call' = [call EXCEPT ![p] = [IdleCall EXCEPT !.op = "claim",
                                  !.c = jobQueue[i], !.phase = "commit"]]
  BY DEF ClaimSelect
<1> DEFINE c == jobQueue[i]
<1>3. c \in Campaigns
  BY DEF Inv, TypeOK
<1>4. /\ call'[p].op = "claim" /\ call'[p].c = c
      /\ call'[p].phase = "commit" /\ call'[p].status = "absent"
      /\ call'[p].found = 0
  BY <1>2 DEF Inv, TypeOK, IdleCall
<1>5. tx'[p] = [campaign |-> tx[p].campaign, run |-> tx[p].run,
               claimedBy |-> p, deleted |-> tx[p].deleted,
               inserted |-> tx[p].inserted]
  <2>1. tx' = [tx EXCEPT ![p].claimedBy = p]
    BY DEF ClaimSelect
  <2> QED
    BY <2>1 DEF Inv, TypeOK, Txs
<1>6. tx'[p] = WroteClaim(p)
  BY <1>1, <1>5 DEF NoTx, WroteClaim
<1>7. /\ \A q \in Callers \ {p} : call'[q] = call[q] /\ tx'[q] = tx[q]
      /\ UNCHANGED rows
  BY <1>2 DEF ClaimSelect, Inv, TypeOK
<1>8. call' \in [Callers -> Calls] /\ tx' \in [Callers -> Txs]
  <2>1. [IdleCall EXCEPT !.op = "claim", !.c = c, !.phase = "commit"] \in Calls
    BY <1>3, BlankTypes DEF Calls, Ops, Phases
  <2>2. tx'[p] \in Txs
    BY <1>1, <1>5 DEF Txs
  <2> QED
    BY <1>2, <1>7, <2>1, <2>2 DEF ClaimSelect, Inv, TypeOK
<1>9. CallShape(p)' /\ TxShape(p)'
  BY <1>3, <1>4, <1>6 DEF At, CallShape, TxShape, OpPhases, InTransaction
<1>10. RowLocks(p)'
  <2>1. /\ claimedBy[c] = None /\ ~JobLocked(c)
        /\ tx[p].campaign = NoWrite /\ tx[p].run = NoWrite
    BY <1>1, <1>2 DEF Claimable, NoTx
  <2>2. \A q \in Clients : tx[q].claimedBy = None
    <3>1. ASSUME NEW q \in Clients PROVE tx[q].claimedBy = None
      <4>1. q \in Callers /\ CallShape(q) /\ TxShape(q)
        BY DEF Callers, Inv, CallerOK
      <4>2. q \notin Workers
        BY CallersAssumption
      <4> QED
        BY <4>1, <4>2
        DEF CallShape, TxShape, At, OpPhases, InTransaction, NoTx, Wrote
    <3> QED
      BY <3>1
  <2> QED
    BY <1>4, <1>5, <1>7, <2>1, <2>2 DEF RowLocks, JobLocked, Callers
<1>11. SeenRows(p)'
  BY <1>2, <1>4, <1>7 DEF At, SeenRows, Claimable, rows
<1> QED
  BY <1>7, <1>8, <1>9, <1>10, <1>11, LocalStep DEF CallerOK

(* StartUpdateRun preserves the invariant.                                   *)
LEMMA StartUpdateRunInv ==
  ASSUME Inv, NEW p \in Workers, StartUpdateRun(p)
  PROVE  Inv'
<1> p \in Callers
  BY DEF Callers
<1> DEFINE c == call[p].c
<1>1. /\ CallerOK(p) /\ call[p] \in Calls /\ tx[p] \in Txs /\ tx[p] = NoTx
      /\ call[p].op = "claim" /\ call[p].phase = "returned"
  BY DEF StartUpdateRun, Inv, CallerOK, TxShape, InTransaction, TypeOK
<1>2. CASE run[c] # "pending"
  <2>1. RollBack(p)
    BY <1>1, <1>2 DEF StartUpdateRun, RollBack, Inv, TypeOK
  <2> QED
    BY <2>1, RollBackInv
<1>3. CASE run[c] = "pending"
  <2>1. /\ ~RunLocked(p, c)
        /\ call' = [call EXCEPT ![p].op = "start", ![p].phase = "deleteFindings"]
        /\ tx' = [tx EXCEPT ![p].run = "running"]
        /\ UNCHANGED rows
    BY <1>3 DEF StartUpdateRun
  <2>2. /\ call'[p].op = "start" /\ call'[p].c = c
        /\ call'[p].phase = "deleteFindings" /\ call'[p].status = call[p].status
        /\ call'[p].found = call[p].found
    BY <2>1 DEF Inv, TypeOK, Calls
  <2>3. tx'[p] = [campaign |-> tx[p].campaign, run |-> "running",
                 claimedBy |-> tx[p].claimedBy, deleted |-> tx[p].deleted,
                 inserted |-> tx[p].inserted]
    BY <2>1 DEF Inv, TypeOK, Txs
  <2>4. tx'[p] = Wrote(NoWrite, "running", FALSE, 0)
    BY <1>1, <2>3 DEF NoTx, Wrote
  <2>5. \A q \in Callers \ {p} : call'[q] = call[q] /\ tx'[q] = tx[q]
    BY <2>1 DEF Inv, TypeOK
  <2>6. call' \in [Callers -> Calls] /\ tx' \in [Callers -> Txs]
    <3>1. call' \in [Callers -> Calls]
      <4>1. [call[p] EXCEPT !.op = "start", !.phase = "deleteFindings"] \in Calls
        BY <1>1 DEF Calls, Ops, Phases
      <4> QED
        BY <2>1, <4>1 DEF Inv, TypeOK
    <3>2. tx' \in [Callers -> Txs]
      BY <2>1 DEF Inv, TypeOK, Txs, RunStatus
    <3> QED
      BY <3>1, <3>2
  <2>7. CallShape(p)' /\ TxShape(p)'
    BY <1>1, <2>2, <2>4
    DEF CallerOK, At, CallShape, TxShape, OpPhases, InTransaction
  <2>8. RowLocks(p)'
    <3>1. tx[p].campaign = NoWrite /\ tx[p].claimedBy = None
      BY <1>1 DEF NoTx
    <3> QED
      BY <2>1, <2>2, <2>3, <2>5, <3>1 DEF RowLocks, RunLocked
  <2>9. SeenRows(p)'
    BY <1>1, <1>3, <2>1, <2>2 DEF CallerOK, At, SeenRows, InTransaction, rows
  <2> QED
    BY <2>1, <2>5, <2>6, <2>7, <2>8, <2>9, LocalStep DEF CallerOK
<1> QED
  BY <1>2, <1>3

(* The campaign of a pending run is queued, so start_run always mirrors.      *)
LEMMA StartUpdateCampaignInv ==
  ASSUME Inv, NEW p \in Workers, StartUpdateCampaign(p)
  PROVE  Inv'
<1> p \in Callers
  BY DEF Callers
<1> DEFINE c == call[p].c
<1>1. /\ CallerOK(p) /\ call[p] \in Calls /\ tx[p] \in Txs
      /\ call[p].op = "start" /\ call[p].phase = "updateCampaign"
  BY DEF StartUpdateCampaign, Inv, TypeOK
<1>2. tx[p] = Wrote(NoWrite, "running", TRUE, 0)
  BY <1>1 DEF CallerOK, TxShape, At
<1>3. campaign[c] = "queued"
  BY <1>1
  DEF CallerOK, CallShape, SeenRows, InTransaction, Inv, RowsOK, StatusMirrored,
      MirrorOf
<1>4. /\ ~CampaignLocked(p, c)
      /\ tx' = [tx EXCEPT ![p].campaign = "running"]
      /\ call' = [call EXCEPT ![p].phase = "commit"]
      /\ UNCHANGED rows
  BY <1>3 DEF StartUpdateCampaign
<1>5. /\ call'[p].op = "start" /\ call'[p].c = c /\ call'[p].phase = "commit"
      /\ call'[p].status = call[p].status /\ call'[p].found = call[p].found
  BY <1>1, <1>4 DEF Inv, TypeOK, Calls
<1>6. tx'[p] = [campaign |-> "running", run |-> tx[p].run,
               claimedBy |-> tx[p].claimedBy, deleted |-> tx[p].deleted,
               inserted |-> tx[p].inserted]
  BY <1>4 DEF Inv, TypeOK, Txs
<1>7. tx'[p] = Wrote("running", "running", TRUE, 0)
  BY <1>2, <1>6 DEF Wrote
<1>8. \A q \in Callers \ {p} : call'[q] = call[q] /\ tx'[q] = tx[q]
  BY <1>4 DEF Inv, TypeOK
<1>9. call' \in [Callers -> Calls] /\ tx' \in [Callers -> Txs]
  <2>1. call' \in [Callers -> Calls]
    <3>1. [call[p] EXCEPT !.phase = "commit"] \in Calls
      BY <1>1 DEF Calls, Phases
    <3> QED
      BY <1>4, <3>1 DEF Inv, TypeOK
  <2>2. tx' \in [Callers -> Txs]
    BY <1>4 DEF Inv, TypeOK, Txs, CampaignStatus
  <2> QED
    BY <2>1, <2>2
<1>10. CallShape(p)' /\ TxShape(p)'
  BY <1>1, <1>5, <1>7
  DEF CallerOK, At, CallShape, TxShape, OpPhases, InTransaction
<1>11. RowLocks(p)'
  BY <1>1, <1>4, <1>5, <1>6, <1>8 DEF CallerOK, RowLocks, CampaignLocked
<1>12. SeenRows(p)'
  BY <1>1, <1>4, <1>5 DEF CallerOK, At, SeenRows, InTransaction, rows
<1> QED
  BY <1>4, <1>8, <1>9, <1>10, <1>11, <1>12, LocalStep DEF CallerOK

(* FinishUpdateRun preserves the invariant.                                  *)
LEMMA FinishUpdateRunInv ==
  ASSUME Inv, NEW p \in Workers, NEW status \in RunFinishStatus,
         NEW found \in 0..MaxFindings, FinishUpdateRun(p, status, found)
  PROVE  Inv'
<1> p \in Callers
  BY DEF Callers
<1> DEFINE c == call[p].c
<1>1. /\ CallerOK(p) /\ call[p] \in Calls /\ tx[p] \in Txs /\ tx[p] = NoTx
      /\ call[p].op = "start" /\ call[p].phase = "returned"
  BY DEF FinishUpdateRun, Inv, CallerOK, TxShape, InTransaction, TypeOK
<1>2. c \in Campaigns /\ run[c] \in RunStatus \ {"pending"}
  BY <1>1 DEF CallerOK, CallShape, SeenRows, InTransaction, Inv, TypeOK
<1>3. tx[p].campaign = NoWrite /\ tx[p].run = NoWrite /\ tx[p].claimedBy = None
  BY <1>1 DEF NoTx
<1>4. CASE run[c] # "running"
  <2>1. /\ call' = [call EXCEPT ![p] =
               [op |-> "finish", c |-> c, phase |-> "insertFindings",
                status |-> status, found |-> found]]
        /\ tx' = tx /\ UNCHANGED rows
    BY <1>4 DEF FinishUpdateRun
  <2>2. call' \in [Callers -> Calls] /\ tx' \in [Callers -> Txs]
    BY <1>2, <2>1
    DEF Inv, TypeOK, Calls, Ops, Phases, RunFinishStatus, CampaignStatus
  <2>3. /\ call'[p].op = "finish" /\ call'[p].c = c
        /\ call'[p].phase = "insertFindings" /\ call'[p].status = status
        /\ \A q \in Callers \ {p} : call'[q] = call[q] /\ tx'[q] = tx[q]
        /\ tx'[p] = NoTx /\ tx'[p].run = NoWrite
    BY <1>1, <1>3, <2>1 DEF Inv, TypeOK
  <2>4. CallShape(p)' /\ TxShape(p)'
    BY <1>2, <2>3 DEF At, CallShape, TxShape, OpPhases, InTransaction
  <2>5. RowLocks(p)'
    BY <1>3, <2>1 DEF RowLocks
  <2>6. SeenRows(p)'
    BY <1>1, <1>2, <1>4, <2>1, <2>3
    DEF CallerOK, At, SeenRows, InTransaction, rows, IsTerminal, RunStatus
  <2> QED
    BY <2>1, <2>2, <2>3, <2>4, <2>5, <2>6, LocalStep DEF CallerOK
<1>5. CASE run[c] = "running"
  <2>1. /\ ~RunLocked(p, c)
        /\ call' = [call EXCEPT ![p] =
               [op |-> "finish", c |-> c, phase |-> "updateCampaign",
                status |-> status, found |-> found]]
        /\ tx' = [tx EXCEPT ![p].run = status] /\ UNCHANGED rows
    BY <1>5 DEF FinishUpdateRun
  <2>2. call' \in [Callers -> Calls] /\ tx' \in [Callers -> Txs]
    <3>1. [op |-> "finish", c |-> c, phase |-> "updateCampaign",
           status |-> status, found |-> found] \in Calls
      BY <1>2 DEF Calls, Ops, Phases, RunFinishStatus, CampaignStatus
    <3>2. call' \in [Callers -> Calls]
      BY <2>1, <3>1 DEF Inv, TypeOK
    <3>3. status \in RunStatus \cup {NoWrite} /\ tx[p] \in Txs
      BY DEF Inv, TypeOK, RunFinishStatus, RunStatus
    <3>4. [tx[p] EXCEPT !.run = status] \in Txs
      BY <3>3 DEF Txs
    <3>5. tx' \in [Callers -> Txs]
      BY <2>1, <3>4 DEF Inv, TypeOK
    <3> QED
      BY <3>2, <3>5
  <2>3. /\ call'[p].op = "finish" /\ call'[p].c = c
        /\ call'[p].phase = "updateCampaign" /\ call'[p].status = status
        /\ \A q \in Callers \ {p} : call'[q] = call[q] /\ tx'[q] = tx[q]
    BY <2>1 DEF Inv, TypeOK
  <2>4. tx'[p] = [campaign |-> tx[p].campaign, run |-> status,
                 claimedBy |-> tx[p].claimedBy, deleted |-> tx[p].deleted,
                 inserted |-> tx[p].inserted]
    BY <2>1 DEF Inv, TypeOK, Txs
  <2>5. tx'[p] = Wrote(NoWrite, status, FALSE, 0)
    BY <1>1, <2>4 DEF NoTx, Wrote
  <2>6. CallShape(p)' /\ TxShape(p)'
    BY <1>2, <2>3, <2>5 DEF At, CallShape, TxShape, OpPhases, InTransaction
  <2>7. RowLocks(p)'
    BY <1>3, <2>1, <2>3, <2>4 DEF RowLocks, RunLocked
  <2>8. SeenRows(p)'
    BY <1>1, <1>5, <2>1, <2>3, <2>4
    DEF CallerOK, At, SeenRows, InTransaction, rows, RunFinishStatus, NoWrite
  <2> QED
    BY <2>1, <2>2, <2>3, <2>6, <2>7, <2>8, LocalStep DEF CallerOK
<1> QED
  BY <1>4, <1>5

(* FinishInsertFindings preserves the invariant.                             *)
LEMMA FinishInsertFindingsInv ==
  ASSUME Inv, NEW p \in Workers, FinishInsertFindings(p)
  PROVE  Inv'
<1> p \in Callers
  BY DEF Callers
<1> DEFINE c == call[p].c
           status == call[p].status
<1>1. /\ CallerOK(p) /\ call[p] \in Calls /\ tx[p] \in Txs
      /\ call[p].op = "finish" /\ call[p].phase = "insertFindings"
      /\ tx' = [tx EXCEPT ![p].inserted = call[p].found]
      /\ call' = [call EXCEPT ![p].phase = "commit"]
      /\ UNCHANGED rows
  BY DEF FinishInsertFindings, Inv, TypeOK
<1>2. tx[p] \in {NoTx, Wrote(status, status, FALSE, 0)}
  BY <1>1 DEF CallerOK, TxShape, At
<1>3. /\ call'[p].op = "finish" /\ call'[p].c = c /\ call'[p].phase = "commit"
      /\ call'[p].status = status /\ call'[p].found = call[p].found
  BY <1>1 DEF Inv, TypeOK, Calls
<1>4. tx'[p] = [campaign |-> tx[p].campaign, run |-> tx[p].run,
               claimedBy |-> tx[p].claimedBy, deleted |-> tx[p].deleted,
               inserted |-> call[p].found]
  BY <1>1 DEF Inv, TypeOK, Txs
<1>5. tx'[p] \in {Wrote(NoWrite, NoWrite, FALSE, call[p].found),
                 Wrote(status, status, FALSE, call[p].found)}
  <2>1. CASE tx[p] = NoTx
    BY <1>4, <2>1 DEF NoTx, Wrote
  <2>2. CASE tx[p] = Wrote(status, status, FALSE, 0)
    BY <1>4, <2>2 DEF Wrote
  <2> QED
    BY <1>2, <2>1, <2>2
<1>6. \A q \in Callers \ {p} : call'[q] = call[q] /\ tx'[q] = tx[q]
  BY <1>1 DEF Inv, TypeOK
<1>7. call' \in [Callers -> Calls] /\ tx' \in [Callers -> Txs]
  BY <1>1 DEF Inv, TypeOK, Calls, Phases, Txs
<1>8. CallShape(p)'
  BY <1>1, <1>3 DEF CallerOK, At, CallShape, OpPhases
<1>9. TxShape(p)'
  BY <1>3, <1>5 DEF At, TxShape, InTransaction
<1>10. RowLocks(p)'
  BY <1>1, <1>3, <1>4, <1>6 DEF CallerOK, RowLocks
<1>11. SeenRows(p)'
  BY <1>1, <1>3, <1>4 DEF CallerOK, At, SeenRows, InTransaction, rows
<1> QED
  BY <1>1, <1>6, <1>7, <1>8, <1>9, <1>10, <1>11, LocalStep DEF CallerOK

(* CreateCampaign preserves the invariant.                                   *)
LEMMA CreateCampaignInv ==
  ASSUME Inv, NEW c \in Campaigns, CreateCampaign(c)
  PROVE  Inv'
<1>1. /\ run[c] = "absent" /\ ~IsTerminal(run[c]) /\ findings[c] = 0
      /\ campaign' = [campaign EXCEPT ![c] = "queued"]
      /\ run' = [run EXCEPT ![c] = "pending"]
      /\ jobQueue' = Append(jobQueue, c)
      /\ UNCHANGED <<claimedBy, attempts, findings, call, tx>>
  <2>1. campaign[c] = "absent" /\ campaign[c] = MirrorOf(run[c])
    BY DEF CreateCampaign, Inv, RowsOK, StatusMirrored
  <2>2. run[c] = "absent"
    BY <2>1 DEF MirrorOf
  <2>3. ~IsTerminal(run[c])
    BY <2>2 DEF IsTerminal
  <2>4. findings[c] = 0
    BY <2>3 DEF Inv, TypeOK, RowsOK, FindingsOnlyOfEndedRuns
  <2> QED
    BY <2>2, <2>3, <2>4 DEF CreateCampaign
<1>2. TypeOK'
  BY <1>1 DEF Inv, TypeOK, CampaignStatus, RunStatus
<1>3. RowsOK'
  <2>1. StatusMirrored' /\ AttemptsCounted' /\ FindingsOnlyOfEndedRuns'
    BY <1>1
    DEF Inv, TypeOK, RowsOK, StatusMirrored, AttemptsCounted,
        FindingsOnlyOfEndedRuns, MirrorOf, IsTerminal
  <2>2. ASSUME NEW i \in 1..Len(jobQueue') PROVE run'[jobQueue'[i]] # "absent"
    BY <1>1, <2>2 DEF Inv, TypeOK, RowsOK, QueuedExist
  <2> QED
    BY <2>1, <2>2 DEF RowsOK, QueuedExist
<1>4. ASSUME NEW q \in Callers PROVE CallerOK(q)'
  <2>1. CallerOK(q)
    BY DEF Inv
  <2>2. CallShape(q)' /\ TxShape(q)' /\ RowLocks(q)'
    <3>1. CallShape(q)'
      BY <1>1, <2>1 DEF CallerOK, CallShape, At
    <3>2. TxShape(q)'
      BY <1>1, <2>1 DEF CallerOK, TxShape, At, InTransaction
    <3>3. RowLocks(q)'
      BY <1>1, <2>1 DEF CallerOK, RowLocks
    <3> QED
      BY <3>1, <3>2, <3>3
  <2>3. CASE call[q].op = "none"
    BY <1>1, <2>2, <2>3 DEF CallerOK, SeenRows, At
  <2>4. CASE call[q].op # "none"
    <3>1. call[q].c \in Campaigns
      BY <2>1, <2>4 DEF CallerOK, CallShape
    <3>2. SeenRows(q)'
      BY <1>1, <2>1, <2>4, <3>1
      DEF CallerOK, SeenRows, At, InTransaction, Inv, TypeOK, IsTerminal
    <3> QED
      BY <2>2, <3>2 DEF CallerOK
  <2> QED
    BY <2>3, <2>4
<1> QED
  BY <1>2, <1>3, <1>4 DEF Inv

(* Who is between a claim and the end of finish_run is the one the job's row    *)
(* names, so no two callers are on the same campaign.                        *)
LEMMA WorkersApart ==
  ASSUME Inv, NEW p \in Callers, NEW q \in Callers \ {p},
         call[p].op \in {"claim", "start", "finish"},
         call[q].op \in {"claim", "start", "finish"}
  PROVE  call[p].c # call[q].c
<1>1. /\ p \in Workers /\ q \in Workers /\ p # None /\ q # None
      /\ CallerOK(p) /\ CallerOK(q)
  BY CallersAssumption DEF Inv, CallerOK, CallShape
<1>2. ASSUME NEW r \in Callers, r \in Workers, CallerOK(r),
             call[r].op \in {"claim", "start", "finish"}
      PROVE  \/ claimedBy[call[r].c] = r
             \/ claimedBy[call[r].c] = None /\ tx[r].claimedBy = r
  <2>1. CASE call[r].op = "claim" /\ call[r].phase = "commit"
    BY <1>2, <2>1 DEF CallerOK, TxShape, SeenRows, At, WroteClaim
  <2>2. CASE ~(call[r].op = "claim" /\ call[r].phase = "commit")
    BY <1>2, <2>2 DEF CallerOK, CallShape, SeenRows, At, OpPhases
  <2> QED
    BY <2>1, <2>2
<1>3. call[p].c = call[q].c =>
        tx[p].claimedBy = None \/ tx[q].claimedBy = None
  BY <1>1 DEF CallerOK, RowLocks
<1>4. /\ \/ claimedBy[call[p].c] = p
         \/ claimedBy[call[p].c] = None /\ tx[p].claimedBy = p
      /\ \/ claimedBy[call[q].c] = q
         \/ claimedBy[call[q].c] = None /\ tx[q].claimedBy = q
  BY <1>1, <1>2
<1> QED
  BY <1>1, <1>3, <1>4

(* What COMMIT does to the rows of the campaign, operation by operation.      *)
LEMMA PublishedRows ==
  ASSUME Inv, NEW p \in Callers, call[p].phase = "commit", Publish(p)
  PROVE  LET c == call[p].c
             status == call[p].status
         IN \/ /\ call[p].op = "cancel" /\ status = "cancelled"
               /\ tx[p].campaign # NoWrite /\ tx[p].run # NoWrite
               /\ campaign' = [campaign EXCEPT ![c] = "cancelled"]
               /\ run' = [run EXCEPT ![c] = "cancelled"]
               /\ UNCHANGED <<jobQueue, claimedBy, attempts, findings>>
            \/ /\ call[p].op = "claim" /\ tx[p].claimedBy = p
               /\ claimedBy' = [claimedBy EXCEPT ![c] = p]
               /\ attempts' = [attempts EXCEPT ![c] = @ + 1]
               /\ UNCHANGED <<campaign, run, jobQueue, findings>>
            \/ /\ call[p].op = "start"
               /\ tx[p].campaign # NoWrite /\ tx[p].run # NoWrite
               /\ campaign' = [campaign EXCEPT ![c] = "running"]
               /\ run' = [run EXCEPT ![c] = "running"]
               /\ findings' = [findings EXCEPT ![c] = 0]
               /\ UNCHANGED <<jobQueue, claimedBy, attempts>>
            \/ /\ call[p].op = "finish"
               /\ tx[p].campaign # NoWrite /\ tx[p].run # NoWrite
               /\ campaign' = [campaign EXCEPT ![c] = status]
               /\ run' = [run EXCEPT ![c] = status]
               /\ findings' = [findings EXCEPT ![c] = @ + call[p].found]
               /\ UNCHANGED <<jobQueue, claimedBy, attempts>>
            \/ /\ call[p].op = "finish"
               /\ tx[p].campaign = NoWrite /\ tx[p].run = NoWrite
               /\ findings' = [findings EXCEPT ![c] = @ + call[p].found]
               /\ UNCHANGED <<campaign, run, jobQueue, claimedBy, attempts>>
<1> DEFINE c == call[p].c
           status == call[p].status
<1>1. /\ CallShape(p) /\ TxShape(p) /\ call[p] \in Calls /\ tx[p] \in Txs
      /\ call[p].op \in {"cancel", "claim", "start", "finish"}
      /\ c \in Campaigns
  BY DEF Inv, CallerOK, CallShape, OpPhases, TypeOK
<1>2. /\ campaign' = [campaign EXCEPT ![c] = Published(@, tx[p].campaign)]
      /\ run' = [run EXCEPT ![c] = Published(@, tx[p].run)]
      /\ claimedBy' = [claimedBy EXCEPT ![c] =
                         IF tx[p].claimedBy = None THEN @ ELSE tx[p].claimedBy]
      /\ attempts' = [attempts EXCEPT ![c] =
                        IF tx[p].claimedBy = None THEN @ ELSE @ + 1]
      /\ findings' = [findings EXCEPT ![c] =
                        (IF tx[p].deleted THEN 0 ELSE @) + tx[p].inserted]
      /\ jobQueue' = jobQueue
  BY DEF Publish
<1>3. /\ campaign \in [Campaigns -> CampaignStatus \cup {"absent"}]
      /\ run \in [Campaigns -> RunStatus \cup {"absent"}]
      /\ claimedBy \in [Campaigns -> Workers \cup {None}]
      /\ attempts \in [Campaigns -> Nat] /\ findings \in [Campaigns -> Nat]
  BY DEF Inv, TypeOK
<1>4. CASE call[p].op = "cancel"
  <2>1. /\ tx[p].campaign = "cancelled" /\ tx[p].run = "cancelled"
        /\ tx[p].claimedBy = None /\ tx[p].deleted = FALSE /\ tx[p].inserted = 0
        /\ status = "cancelled"
    BY <1>1, <1>4 DEF CallShape, TxShape, At, Wrote
  <2> QED
    BY <1>2, <1>3, <1>4, <2>1 DEF Published, NoWrite
<1>5. CASE call[p].op = "claim"
  <2>1. /\ tx[p].campaign = NoWrite /\ tx[p].run = NoWrite
        /\ tx[p].claimedBy = p /\ tx[p].deleted = FALSE /\ tx[p].inserted = 0
        /\ p # None
    BY <1>1, <1>5, CallersAssumption DEF CallShape, TxShape, At, WroteClaim
  <2> QED
    BY <1>2, <1>3, <1>5, <2>1 DEF Published
<1>6. CASE call[p].op = "start"
  <2>1. /\ tx[p].campaign = "running" /\ tx[p].run = "running"
        /\ tx[p].claimedBy = None /\ tx[p].deleted = TRUE /\ tx[p].inserted = 0
    BY <1>1, <1>6 DEF TxShape, At, Wrote
  <2>2. findings' = [findings EXCEPT ![c] = 0]
    <3>1. (IF tx[p].deleted THEN 0 ELSE findings[c]) = 0
      BY <2>1, Zenon
    <3>2. (IF tx[p].deleted THEN 0 ELSE findings[c]) + tx[p].inserted = 0
      BY <2>1, <3>1
    <3> QED
      BY <1>2, <3>2, Zenon
  <2>3. campaign' = [campaign EXCEPT ![c] = "running"] /\ run' = [run EXCEPT ![c] = "running"]
    BY <1>2, <2>1 DEF Published, NoWrite
  <2>4. UNCHANGED <<jobQueue, claimedBy, attempts>>
    BY <1>2, <1>3, <2>1
  <2> QED
    BY <1>6, <2>1, <2>2, <2>3, <2>4 DEF NoWrite
<1>7. CASE call[p].op = "finish"
  <2>1. /\ status \in RunFinishStatus
        /\ tx[p] \in {Wrote(NoWrite, NoWrite, FALSE, call[p].found),
                      Wrote(status, status, FALSE, call[p].found)}
    BY <1>1, <1>7 DEF CallShape, TxShape, At
  <2>2. CASE tx[p] = Wrote(NoWrite, NoWrite, FALSE, call[p].found)
    <3>1. /\ tx[p].campaign = NoWrite /\ tx[p].run = NoWrite
          /\ tx[p].claimedBy = None /\ tx[p].deleted = FALSE
          /\ tx[p].inserted = call[p].found
      BY <2>2 DEF Wrote
    <3> QED
      BY <1>2, <1>3, <1>7, <3>1 DEF Published
  <2>3. CASE tx[p] = Wrote(status, status, FALSE, call[p].found)
    <3>1. /\ tx[p].campaign = status /\ tx[p].run = status
          /\ tx[p].claimedBy = None /\ tx[p].deleted = FALSE
          /\ tx[p].inserted = call[p].found
      BY <2>3 DEF Wrote
    <3> QED
      BY <1>2, <1>3, <1>7, <2>1, <3>1 DEF Published, NoWrite, RunFinishStatus
  <2> QED
    BY <2>1, <2>2, <2>3
<1> QED
  BY <1>1, <1>4, <1>5, <1>6, <1>7

(* Committing p's transaction keeps what another caller q has seen: on the same *)
(* campaign q can only be a cancel, or p is one, and then RowLocks(p) says     *)
(* that q has not written what p publishes.                                  *)
LEMMA PublishKeepsSeenRows ==
  ASSUME Inv, NEW p \in Callers, call[p].phase = "commit", Publish(p),
         NEW q \in Callers \ {p}, call'[q] = call[q], tx'[q] = tx[q]
  PROVE  SeenRows(q)'
<1> DEFINE c == call[p].c
           d == call[q].c
<1>1. /\ CallShape(p) /\ SeenRows(p) /\ RowLocks(p)
      /\ CallShape(q) /\ SeenRows(q) /\ c \in Campaigns
      /\ call[p].op # "none"
  BY DEF Inv, CallerOK, CallShape, OpPhases
<1>2. /\ run \in [Campaigns -> RunStatus \cup {"absent"}]
      /\ claimedBy \in [Campaigns -> Workers \cup {None}]
  BY DEF Inv, TypeOK
<1>3. CASE call[q].op = "none"
  BY <1>3 DEF SeenRows, At
<1>4. CASE call[q].op # "none" /\ c # d
  <2>1. d \in Campaigns
    BY <1>1, <1>4 DEF CallShape
  <2>2. run'[d] = run[d] /\ claimedBy'[d] = claimedBy[d]
    BY <1>1, <1>2, <1>4, <2>1 DEF Publish
  <2> QED
    BY <1>1, <2>2 DEF SeenRows, At, InTransaction
<1>5. CASE c = d /\ call[p].op = "cancel"
  <2>1. /\ run'[d] = "cancelled" /\ claimedBy'[d] = claimedBy[d]
        /\ tx[p].run # NoWrite
    BY <1>1, <1>2, <1>5, PublishedRows
  <2>2. tx[q].run = NoWrite
    BY <1>1, <1>5, <2>1 DEF RowLocks
  <2>3. call[q].op = "start" => ~InTransaction(q)
    <3>1. CallerOK(q)
      BY DEF Inv
    <3>2. SUFFICES ASSUME call[q].op = "start", InTransaction(q) PROVE FALSE
      OBVIOUS
    <3>3. tx[q].run = "running"
      BY <3>1, <3>2
      DEF CallerOK, CallShape, TxShape, OpPhases, At, InTransaction, Wrote
    <3> QED
      BY <2>2, <3>3 DEF NoWrite
  <2> QED
    BY <1>1, <2>1, <2>2, <2>3 DEF SeenRows, At, InTransaction, IsTerminal
<1>6. CASE /\ c = d /\ call[p].op # "cancel"
           /\ call[q].op \in {"claim", "start", "finish"}
  <2>1. call[p].op \in {"claim", "start", "finish"}
    BY <1>1, <1>6 DEF CallShape, OpPhases
  <2> QED
    BY <1>6, <2>1, WorkersApart
<1>7. CASE c = d /\ call[p].op # "cancel" /\ call[q].op = "cancel"
  <2>1. call[p].op \in {"claim", "start", "finish"}
    BY <1>1, <1>7 DEF CallShape, OpPhases
  <2>2. run'[d] = run[d] \/ (run'[d] # "absent" /\ run[d] \in {"pending", "running"})
    <3>1. CASE call[p].op = "claim"
      BY <1>7, <3>1, PublishedRows
    <3>2. CASE call[p].op = "start"
      <4>1. run[c] = "pending"
        BY <1>1, <3>2 DEF SeenRows, InTransaction
      <4>2. run'[c] = "running"
        BY <1>1, <1>2, <3>2, PublishedRows
      <4> QED
        BY <1>7, <4>1, <4>2
    <3>3. CASE call[p].op = "finish"
      <4>1. tx[p].run # NoWrite => run[c] = "running"
        BY <1>1, <3>3 DEF SeenRows
      <4>2. /\ tx[p].run # NoWrite => run'[c] = call[p].status
            /\ tx[p].run = NoWrite => run'[c] = run[c]
        BY <1>1, <1>2, <3>3, PublishedRows
      <4>3. call[p].status # "absent"
        BY <1>1, <3>3 DEF CallShape, RunFinishStatus
      <4> QED
        BY <1>7, <4>1, <4>2, <4>3
    <3> QED
      BY <2>1, <3>1, <3>2, <3>3
  <2> QED
    BY <1>1, <1>7, <2>2 DEF SeenRows, At, InTransaction
<1>8. call[q].op \in {"none", "cancel", "claim", "start", "finish"}
  BY <1>1 DEF CallShape, OpPhases
<1> QED
  BY <1>3, <1>4, <1>5, <1>6, <1>7, <1>8

(* Published row versions leave well-typed, mirrored rows behind.            *)
LEMMA PublishRowsInv ==
  ASSUME Inv, NEW p \in Callers, call[p].phase = "commit", Publish(p)
  PROVE  /\ campaign' \in [Campaigns -> CampaignStatus \cup {"absent"}]
         /\ run' \in [Campaigns -> RunStatus \cup {"absent"}]
         /\ jobQueue' \in Seq(Campaigns)
         /\ claimedBy' \in [Campaigns -> Workers \cup {None}]
         /\ attempts' \in [Campaigns -> Nat]
         /\ findings' \in [Campaigns -> Nat]
         /\ RowsOK'
<1> DEFINE c == call[p].c
           status == call[p].status
<1>1. /\ CallShape(p) /\ SeenRows(p) /\ call[p] \in Calls /\ c \in Campaigns
      /\ call[p].found \in Nat
      /\ TypeOK /\ RowsOK
  BY MaxFindingsAssumption DEF Inv, CallerOK, CallShape, OpPhases, TypeOK, Calls
<1>2. CASE call[p].op = "cancel"
  <2>1. /\ campaign' = [campaign EXCEPT ![c] = "cancelled"]
        /\ run' = [run EXCEPT ![c] = "cancelled"]
        /\ UNCHANGED <<jobQueue, claimedBy, attempts, findings>>
    BY <1>2, PublishedRows
  <2> QED
    BY <1>1, <2>1
    DEF TypeOK, CampaignStatus, RunStatus, RowsOK, StatusMirrored, MirrorOf,
        AttemptsCounted, QueuedExist, FindingsOnlyOfEndedRuns, IsTerminal
<1>3. CASE call[p].op = "claim"
  <2>1. /\ claimedBy' = [claimedBy EXCEPT ![c] = p]
        /\ attempts' = [attempts EXCEPT ![c] = @ + 1]
        /\ UNCHANGED <<campaign, run, jobQueue, findings>>
    BY <1>3, PublishedRows
  <2>2. claimedBy[c] = None /\ p \in Workers /\ p # None
    BY <1>1, <1>3, CallersAssumption DEF SeenRows, CallShape, At
  <2>3. attempts[c] = 0 /\ attempts'[c] = 1
    BY <1>1, <2>1, <2>2 DEF TypeOK, RowsOK, AttemptsCounted
  <2> QED
    BY <1>1, <2>1, <2>2, <2>3
    DEF TypeOK, RowsOK, StatusMirrored, AttemptsCounted, QueuedExist,
        FindingsOnlyOfEndedRuns
<1>4. CASE call[p].op = "start"
  <2>1. /\ campaign' = [campaign EXCEPT ![c] = "running"]
        /\ run' = [run EXCEPT ![c] = "running"]
        /\ findings' = [findings EXCEPT ![c] = 0]
        /\ UNCHANGED <<jobQueue, claimedBy, attempts>>
    BY <1>4, PublishedRows
  <2> QED
    BY <1>1, <2>1
    DEF TypeOK, CampaignStatus, RunStatus, RowsOK, StatusMirrored, MirrorOf,
        AttemptsCounted, QueuedExist, FindingsOnlyOfEndedRuns
<1>5. CASE call[p].op = "finish" /\ tx[p].run # NoWrite
  <2>1. /\ campaign' = [campaign EXCEPT ![c] = status]
        /\ run' = [run EXCEPT ![c] = status]
        /\ findings' = [findings EXCEPT ![c] = @ + call[p].found]
        /\ UNCHANGED <<jobQueue, claimedBy, attempts>>
    BY <1>5, PublishedRows
  <2>2. status \in {"completed", "cancelled", "failed"}
    BY <1>1, <1>5 DEF CallShape, RunFinishStatus
  <2>3. /\ campaign' \in [Campaigns -> CampaignStatus \cup {"absent"}]
        /\ run' \in [Campaigns -> RunStatus \cup {"absent"}]
    BY <1>1, <2>1, <2>2 DEF TypeOK, CampaignStatus, RunStatus
  <2>4. findings' \in [Campaigns -> Nat]
    BY <1>1, <2>1 DEF TypeOK
  <2>5. StatusMirrored'
    BY <1>1, <2>1, <2>2 DEF TypeOK, RowsOK, StatusMirrored, MirrorOf
  <2>6. FindingsOnlyOfEndedRuns'
    BY <1>1, <2>1, <2>2 DEF TypeOK, RowsOK, FindingsOnlyOfEndedRuns, IsTerminal
  <2>7. AttemptsCounted' /\ QueuedExist'
    BY <1>1, <2>1, <2>2 DEF TypeOK, RowsOK, AttemptsCounted, QueuedExist
  <2> QED
    BY <1>1, <2>1, <2>3, <2>4, <2>5, <2>6, <2>7 DEF TypeOK, RowsOK
<1>6. CASE call[p].op = "finish" /\ tx[p].run = NoWrite
  <2>1. /\ findings' = [findings EXCEPT ![c] = @ + call[p].found]
        /\ UNCHANGED <<campaign, run, jobQueue, claimedBy, attempts>>
    BY <1>6, PublishedRows
  <2>2. IsTerminal(run[c])
    BY <1>1, <1>6 DEF SeenRows
  <2>3. findings' \in [Campaigns -> Nat]
    BY <1>1, <2>1 DEF TypeOK
  <2>4. FindingsOnlyOfEndedRuns'
    BY <1>1, <2>1, <2>2 DEF TypeOK, RowsOK, FindingsOnlyOfEndedRuns, IsTerminal
  <2>5. StatusMirrored' /\ AttemptsCounted' /\ QueuedExist'
    BY <1>1, <2>1 DEF RowsOK, StatusMirrored, AttemptsCounted, QueuedExist
  <2> QED
    BY <1>1, <2>1, <2>3, <2>4, <2>5 DEF TypeOK, RowsOK
<1> QED
  BY <1>1, <1>2, <1>3, <1>4, <1>5, <1>6 DEF CallShape, OpPhases

(* A commit that the caller hears of, and one that it does not.               *)
LEMMA PublishInv ==
  ASSUME Inv, NEW p \in Callers, call[p].phase = "commit", Publish(p),
         \/ call' = [call EXCEPT ![p] = IdleCall]
         \/ call[p].op # "finish" /\ call' = [call EXCEPT ![p].phase = "returned"]
  PROVE  Inv'
<1> DEFINE c == call[p].c
<1>1. /\ CallShape(p) /\ TxShape(p) /\ SeenRows(p) /\ call[p] \in Calls
      /\ c \in Campaigns
      /\ call \in [Callers -> Calls] /\ tx \in [Callers -> Txs]
      /\ run \in [Campaigns -> RunStatus \cup {"absent"}]
      /\ claimedBy \in [Campaigns -> Workers \cup {None}]
  BY DEF Inv, CallerOK, CallShape, OpPhases, TypeOK
<1>2. tx' = [tx EXCEPT ![p] = NoTx]
  BY DEF Publish
<1>3. tx' \in [Callers -> Txs] /\ call' \in [Callers -> Calls]
  <2>1. tx' \in [Callers -> Txs]
    BY <1>1, <1>2, BlankTypes
  <2>2. CASE call' = [call EXCEPT ![p] = IdleCall]
    BY <1>1, <2>1, <2>2, BlankTypes
  <2>3. CASE call' = [call EXCEPT ![p].phase = "returned"]
    BY <1>1, <2>1, <2>3 DEF Calls, Phases
  <2> QED
    BY <2>2, <2>3
<1>4. tx'[p] = NoTx /\ \A q \in Callers \ {p} : call'[q] = call[q] /\ tx'[q] = tx[q]
  BY <1>1, <1>2
<1>5. TypeOK' /\ RowsOK'
  BY <1>3, PublishRowsInv DEF TypeOK
<1>6. CallShape(p)' /\ TxShape(p)' /\ RowLocks(p)' /\ SeenRows(p)'
  <2>1. RowLocks(p)'
    BY <1>4 DEF RowLocks, NoTx
  <2>2. CASE call' = [call EXCEPT ![p] = IdleCall]
    <3>1. call'[p] = IdleCall
      BY <1>1, <2>2
    <3> QED
      BY <1>4, <2>1, <3>1
      DEF CallShape, TxShape, SeenRows, At, OpPhases, InTransaction, IdleCall
  <2>3. CASE call[p].op # "finish" /\ call' = [call EXCEPT ![p].phase = "returned"]
    <3>1. /\ call'[p].op = call[p].op /\ call'[p].c = c
          /\ call'[p].status = call[p].status /\ call'[p].phase = "returned"
          /\ call[p].op \in {"cancel", "claim", "start"}
      BY <1>1, <2>3 DEF Calls, CallShape, OpPhases
    <3>2. CallShape(p)' /\ TxShape(p)'
      BY <1>1, <1>4, <3>1 DEF CallShape, TxShape, At, OpPhases, InTransaction
    <3>3. CASE call[p].op = "cancel"
      <4>1. run'[c] = "cancelled"
        BY <1>1, <3>3, PublishedRows
      <4> QED
        BY <2>1, <3>1, <3>2, <3>3, <4>1 DEF SeenRows, At
    <3>4. CASE call[p].op = "claim"
      <4>1. claimedBy'[c] = p /\ run'[c] = run[c] /\ run[c] # "absent"
        BY <1>1, <3>4, PublishedRows DEF SeenRows, At
      <4> QED
        BY <2>1, <3>1, <3>2, <3>4, <4>1 DEF SeenRows, At
    <3>5. CASE call[p].op = "start"
      <4>1. claimedBy'[c] = p /\ run'[c] = "running"
        BY <1>1, <3>5, PublishedRows DEF SeenRows, At
      <4> QED
        BY <2>1, <3>1, <3>2, <3>5, <4>1 DEF SeenRows, At, InTransaction
    <3> QED
      BY <2>1, <3>1, <3>2, <3>3, <3>4, <3>5
  <2> QED
    BY <2>1, <2>2, <2>3
<1>7. ASSUME NEW q \in Callers \ {p} PROVE CallerOK(q)'
  <2>1. CallerOK(q) /\ call'[q] = call[q] /\ tx'[q] = tx[q]
    BY <1>4 DEF Inv
  <2>2. CallShape(q)'
    BY <2>1 DEF CallerOK, At, CallShape
  <2>3. TxShape(q)'
    BY <2>1 DEF CallerOK, At, TxShape, InTransaction
  <2>4. RowLocks(q)'
    BY <1>4, <2>1 DEF CallerOK, RowLocks, NoTx
  <2>5. SeenRows(q)'
    BY <2>1, PublishKeepsSeenRows
  <2> QED
    BY <2>2, <2>3, <2>4, <2>5 DEF CallerOK
<1> QED
  BY <1>5, <1>6, <1>7 DEF Inv, CallerOK

(* COMMIT preserves the invariant.                                           *)
LEMMA CommitInv ==
  ASSUME Inv, NEW p \in Callers, Commit(p)
  PROVE  Inv'
<1>1. call[p] \in Calls /\ call \in [Callers -> Calls]
  BY DEF Inv, TypeOK
<1>2. CASE call[p].op = "finish"
  BY <1>1, <1>2, PublishInv DEF Commit
<1>3. CASE call[p].op # "finish"
  BY <1>1, <1>3, PublishInv DEF Commit
<1> QED
  BY <1>2, <1>3

(* Every step, stuttering included, preserves the invariant.                 *)
LEMMA NextInv == Inv /\ [Next]_vars => Inv'
<1> SUFFICES ASSUME Inv, [Next]_vars PROVE Inv'
  OBVIOUS
<1> Workers \subseteq Callers /\ Clients \subseteq Callers
  BY DEF Callers
<1>1. ASSUME NEW c \in Campaigns, CreateCampaign(c) PROVE Inv'
  BY <1>1, CreateCampaignInv
<1>2. ASSUME NEW k \in Clients, NEW c \in Campaigns, CancelSelect(k, c) PROVE Inv'
  BY <1>2, CancelSelectInv
<1>3. ASSUME NEW k \in Clients, CancelStep(k) PROVE Inv'
  BY <1>3, CancelUpdateCampaignInv, CancelUpdateRunInv, CommitInv DEF CancelStep
<1>4. ASSUME NEW w \in Workers, WorkerStep(w) PROVE Inv'
  BY <1>4, ClaimSelectInv, StartUpdateRunInv, StartDeleteFindingsInv,
     StartUpdateCampaignInv, FinishUpdateRunInv, FinishUpdateCampaignInv,
     FinishInsertFindingsInv, CommitInv DEF WorkerStep
<1>5. ASSUME NEW p \in Callers, DeadlockVictim(p) PROVE Inv'
  BY <1>5, RollBackInv DEF DeadlockVictim
<1>6. ASSUME NEW p \in Callers, StatementFails(p) PROVE Inv'
  BY <1>6, RollBackInv DEF StatementFails
<1>7. ASSUME NEW p \in Callers, CommitUnacknowledged(p) PROVE Inv'
  BY <1>7, PublishInv DEF CommitUnacknowledged
<1>8. ASSUME NEW w \in Workers, WorkerDropsJob(w) PROVE Inv'
  BY <1>8, RollBackInv DEF WorkerDropsJob
<1>9. CASE UNCHANGED vars
  <2>1. TypeOK' /\ RowsOK'
    BY <1>9
    DEF Inv, TypeOK, RowsOK, StatusMirrored, AttemptsCounted, QueuedExist,
        FindingsOnlyOfEndedRuns, vars
  <2>2. ASSUME NEW p \in Callers PROVE CallerOK(p)'
    BY <1>9
    DEF Inv, CallerOK, CallShape, TxShape, RowLocks, SeenRows, At,
        InTransaction, vars
  <2> QED
    BY <2>1, <2>2 DEF Inv
<1> QED
  BY <1>1, <1>2, <1>3, <1>4, <1>5, <1>6, <1>7, <1>8, <1>9
  DEF Next, FaultFreeNext, Failure

(* Inv holds of every reachable state: the inductive invariant behind all the *)
(* theorems below.                                                           *)
THEOREM Invariance == Spec => []Inv
  BY InitInv, NextInv, PTL DEF Spec

(* Every row, call and uncommitted version stays within its type.             *)
THEOREM TypeCorrect == Spec => []TypeOK
<1>1. Inv => TypeOK
  BY DEF Inv
<1> QED
  BY <1>1, Invariance, PTL

(* The campaign row mirrors its run's row after every commit, for any number   *)
(* of racing cancels and workers and any failures (postgres.rs, 276-432).     *)
THEOREM StatusAlwaysMirrored == Spec => []StatusMirrored
<1>1. Inv => StatusMirrored
  BY DEF Inv, RowsOK
<1> QED
  BY <1>1, Invariance, PTL

(* claim_job never hands one job to two workers.                              *)
THEOREM ClaimedOnce == Spec => []ClaimedAtMostOnce
<1>1. Inv => ClaimedAtMostOnce
  <2> SUFFICES ASSUME Inv, NEW c \in Campaigns,
                      NEW v \in Workers, NEW w \in Workers,
                      call[v].c = c, call[w].c = c, v # w
               PROVE  FALSE
    BY DEF Inv, RowsOK, AttemptsCounted, ClaimedAtMostOnce
  <2>1. v \in Callers /\ w \in Callers \ {v} /\ None \notin Campaigns
    BY CallersAssumption DEF Callers
  <2>2. /\ call[v].op \in {"claim", "start", "finish"}
        /\ call[w].op \in {"claim", "start", "finish"}
    BY <2>1, CallersAssumption DEF Inv, CallerOK, CallShape, OpPhases
  <2> QED
    BY <2>1, <2>2, WorkersApart
<1> QED
  BY <1>1, Invariance, PTL

(* Nothing that races or follows a cancel that answered "cancelled" undoes it. *)
THEOREM CancelHolds == Spec => []CancelReplyHolds
<1>1. Inv => CancelReplyHolds
  <2> SUFFICES ASSUME Inv, NEW k \in Clients,
                      call[k].phase = "returned", call[k].status = "cancelled"
               PROVE  campaign[call[k].c] = "cancelled" /\ run[call[k].c] = "cancelled"
    BY DEF CancelReplyHolds
  <2>1. CallerOK(k) /\ k \notin Workers
    BY CallersAssumption DEF Inv, Callers
  <2>2. call[k].op = "cancel" /\ call[k].c \in Campaigns
    BY <2>1 DEF CallerOK, CallShape, OpPhases
  <2>3. run[call[k].c] = "cancelled"
    BY <2>1, <2>2 DEF CallerOK, SeenRows, At
  <2> QED
    BY <2>2, <2>3 DEF Inv, RowsOK, StatusMirrored, MirrorOf
<1> QED
  BY <1>1, Invariance, PTL

(* No findings are visible of a run that has not ended.                       *)
THEOREM FindingsOfEndedRuns == Spec => []FindingsOnlyOfEndedRuns
<1>1. Inv => FindingsOnlyOfEndedRuns
  BY DEF Inv, RowsOK
<1> QED
  BY <1>1, Invariance, PTL

-----------------------------------------------------------------------------
(* Only p moves: how the set of executing campaigns follows from its call.     *)
LEMMA ExecutingAfter ==
  ASSUME Inv, NEW p \in Callers,
         \A q \in Callers \ {p} : call'[q] = call[q]
  PROVE  /\ (p \notin Workers \/ (~Executes(p) /\ ~Executes(p)'))
              => Executing' = Executing
         /\ (Executes(p) /\ Executes(p)' /\ call'[p].c = call[p].c)
              => Executing' = Executing
         /\ (p \in Workers /\ Executes(p) /\ ~Executes(p)')
              => call[p].c \in Executing /\ Executing' = Executing \ {call[p].c}
         /\ (p \in Workers /\ ~Executes(p) /\ Executes(p)'
              /\ call'[p].c = call[p].c /\ call[p].c \in Campaigns)
              => Executing' = Executing \cup {call[p].c}
<1>1. \A q \in Workers \ {p} : (Executes(q)' <=> Executes(q)) /\ call'[q] = call[q]
  BY DEF Executes, Callers
<1>2. \A q \in Workers \ {p} : Executes(p) /\ Executes(q) => call[q].c # call[p].c
  BY WorkersApart DEF Executes, Callers
<1>3. Executes(p) => call[p].c \in Campaigns
  BY DEF Inv, CallerOK, CallShape, Executes
<1>4. (p \notin Workers \/ (~Executes(p) /\ ~Executes(p)')) => Executing' = Executing
  BY <1>1 DEF Executing
<1>5. (Executes(p) /\ Executes(p)' /\ call'[p].c = call[p].c) => Executing' = Executing
  BY <1>1 DEF Executing
<1>6. (p \in Workers /\ Executes(p) /\ ~Executes(p)')
        => call[p].c \in Executing /\ Executing' = Executing \ {call[p].c}
  BY <1>1, <1>2, <1>3 DEF Executing
<1>7. (p \in Workers /\ ~Executes(p) /\ Executes(p)'
       /\ call'[p].c = call[p].c /\ call[p].c \in Campaigns)
        => Executing' = Executing \cup {call[p].c}
  BY <1>1 DEF Executing
<1> QED
  BY <1>4, <1>5, <1>6, <1>7

(* A step inside a transaction, seen from outside, is no step at all.          *)
LEMMA InnerStepStutters ==
  ASSUME Inv, NEW p \in Callers, UNCHANGED rows,
         \A q \in Callers \ {p} : call'[q] = call[q],
         Executes(p)' <=> Executes(p),
         Executes(p) => call'[p].c = call[p].c
  PROVE  UNCHANGED Atomic!vars
<1>1. Executing' = Executing
  BY ExecutingAfter
<1> QED
  BY <1>1 DEF Atomic!vars, rows

(* A rollback is invisible, unless the worker was to finish the run.           *)
LEMMA RollBackRefines ==
  ASSUME Inv, NEW p \in Callers, RollBack(p)
  PROVE  Atomic!Next \/ UNCHANGED Atomic!vars
<1>1. /\ UNCHANGED rows /\ call'[p] = IdleCall
      /\ \A q \in Callers \ {p} : call'[q] = call[q]
  BY DEF RollBack, Inv, TypeOK
<1>2. ~Executes(p)'
  BY <1>1 DEF Executes, IdleCall
<1>3. CASE Executes(p)
  <2>1. p \in Workers /\ call[p].c \in Campaigns
    BY <1>3 DEF Inv, CallerOK, CallShape, Executes
  <2>2. call[p].c \in Executing /\ Executing' = Executing \ {call[p].c}
    BY <1>1, <1>2, <1>3, <2>1, ExecutingAfter
  <2>3. Atomic!Abandon({call[p].c})
    BY <1>1, <2>2 DEF Atomic!Abandon, rows
  <2> QED
    BY <2>1, <2>3 DEF Atomic!Next
<1>4. CASE ~Executes(p)
  BY <1>1, <1>2, <1>4, InnerStepStutters
<1> QED
  BY <1>3, <1>4

(* A COMMIT is the whole operation.                                          *)
LEMMA PublishRefines ==
  ASSUME Inv, NEW p \in Callers, call[p].phase = "commit", Publish(p),
         \/ call' = [call EXCEPT ![p] = IdleCall]
         \/ call[p].op # "finish" /\ call' = [call EXCEPT ![p].phase = "returned"]
  PROVE  Atomic!Next
<1> DEFINE c == call[p].c
           status == call[p].status
<1>1. /\ CallShape(p) /\ SeenRows(p) /\ call[p] \in Calls /\ c \in Campaigns
      /\ StatusMirrored /\ call \in [Callers -> Calls]
      /\ run \in [Campaigns -> RunStatus \cup {"absent"}]
      /\ call[p].found \in 0..MaxFindings
  BY DEF Inv, RowsOK, TypeOK, CallerOK, CallShape, OpPhases, Calls
<1>2. /\ \A q \in Callers \ {p} : call'[q] = call[q]
      /\ \/ call'[p] = IdleCall
         \/ /\ call[p].op # "finish" /\ call'[p].op = call[p].op
            /\ call'[p].c = c /\ call'[p].phase = "returned"
  BY <1>1 DEF Calls
<1>3. CASE call[p].op = "cancel"
  <2>1. /\ campaign' = [campaign EXCEPT ![c] = "cancelled"]
        /\ run' = [run EXCEPT ![c] = "cancelled"]
        /\ UNCHANGED <<jobQueue, claimedBy, attempts, findings>>
    BY <1>3, PublishedRows
  <2>2. run[c] # "absent" /\ campaign[c] # "absent"
    BY <1>1, <1>3 DEF SeenRows, At, StatusMirrored, MirrorOf
  <2>3. Executing' = Executing
    BY <1>2, <1>3, ExecutingAfter DEF Executes, IdleCall
  <2>4. Atomic!Cancel(c)
    BY <2>1, <2>2, <2>3 DEF Atomic!Cancel, Atomic!SetBoth
  <2> QED
    BY <1>1, <2>4 DEF Atomic!Next
<1>4. CASE call[p].op = "claim"
  <2>1. /\ claimedBy' = [claimedBy EXCEPT ![c] = p]
        /\ UNCHANGED <<campaign, run, jobQueue, findings>>
    BY <1>4, PublishedRows
  <2>2. /\ run[c] # "absent" /\ campaign[c] # "absent"
        /\ claimedBy[c] = None /\ p \in Workers
    BY <1>1, <1>4 DEF CallShape, SeenRows, At, StatusMirrored, MirrorOf
  <2>3. Executing' = Executing
    BY <1>2, <1>4, ExecutingAfter DEF Executes, IdleCall
  <2>4. Atomic!Claim(p, c)
    BY <2>1, <2>2, <2>3 DEF Atomic!Claim
  <2> QED
    BY <1>1, <2>2, <2>4 DEF Atomic!Next
<1>5. CASE call[p].op = "start"
  <2>1. /\ campaign' = [campaign EXCEPT ![c] = "running"]
        /\ run' = [run EXCEPT ![c] = "running"]
        /\ findings' = [findings EXCEPT ![c] = 0]
        /\ UNCHANGED <<jobQueue, claimedBy, attempts>>
    BY <1>5, PublishedRows
  <2>2. run[c] = "pending" /\ claimedBy[c] = p /\ p \in Workers /\ p # None
    BY <1>1, <1>5, CallersAssumption DEF CallShape, SeenRows, InTransaction
  <2>3. Executing' \in {Executing, Executing \cup {c}}
    <3>1. ~Executes(p)
      BY <1>5 DEF Executes
    <3>2. CASE call'[p] = IdleCall
      BY <1>2, <3>1, <3>2, ExecutingAfter DEF Executes, IdleCall
    <3>3. CASE call'[p].op = "start" /\ call'[p].c = c /\ call'[p].phase = "returned"
      BY <1>1, <1>2, <2>2, <3>1, <3>3, ExecutingAfter DEF Executes
    <3> QED
      BY <1>2, <1>5, <3>2, <3>3
  <2>4. Atomic!Start(c)
    BY <2>1, <2>2, <2>3 DEF Atomic!Start, Atomic!SetBoth
  <2> QED
    BY <1>1, <2>4 DEF Atomic!Next
<1>6. CASE call[p].op = "finish"
  <2>1. p \in Workers /\ status \in RunFinishStatus
    BY <1>1, <1>6 DEF CallShape
  <2>2. Executing' = Executing \ {c} /\ c \in Executing
    BY <1>2, <1>6, <2>1, ExecutingAfter DEF Executes, IdleCall
  <2>3. /\ findings' = [findings EXCEPT ![c] = @ + call[p].found]
        /\ UNCHANGED claimedBy
        /\ \/ /\ run[c] = "running" /\ campaign' = [campaign EXCEPT ![c] = status]
              /\ run' = [run EXCEPT ![c] = status]
           \/ run[c] # "running" /\ UNCHANGED <<campaign, run>>
    <3>1. tx[p].run # NoWrite => run[c] = "running"
      BY <1>1, <1>6 DEF SeenRows
    <3>2. tx[p].run = NoWrite => run[c] # "running"
      BY <1>1, <1>6 DEF SeenRows, IsTerminal
    <3> QED
      BY <1>6, <3>1, <3>2, PublishedRows
  <2>4. Atomic!Finish(c, status, call[p].found)
    BY <2>2, <2>3 DEF Atomic!Finish, Atomic!SetBoth
  <2>5. \E s \in RunFinishStatus, n \in 0..MaxFindings : Atomic!Finish(c, s, n)
    BY <1>1, <2>1, <2>4, Zenon
  <2> QED
    BY <1>1, <2>5 DEF Atomic!Next, Atomic!RunFinishStatus, RunFinishStatus
<1> QED
  BY <1>1, <1>3, <1>4, <1>5, <1>6 DEF CallShape, OpPhases

(* A statement that neither begins nor ends what Executes tells apart.         *)
LEMMA StatementRefines ==
  ASSUME Inv, NEW p \in Callers, call \in [Callers -> Calls],
         \/ \E c \in Campaigns : p \in Clients /\ CancelSelect(p, c)
         \/ p \in Clients /\ (CancelUpdateCampaign(p) \/ CancelUpdateRun(p))
         \/ ClaimSelect(p) \/ StartUpdateRun(p)
         \/ StartDeleteFindings(p) \/ StartUpdateCampaign(p)
         \/ \E status \in RunFinishStatus, found \in 0..MaxFindings :
              FinishUpdateRun(p, status, found)
         \/ FinishUpdateCampaign(p) \/ FinishInsertFindings(p)
  PROVE  UNCHANGED Atomic!vars
<1>1. CASE \E c \in Campaigns : p \in Clients /\ CancelSelect(p, c)
  <2>1. /\ UNCHANGED rows /\ call'[p].op = "cancel" /\ p \notin Workers
        /\ \A q \in Callers \ {p} : call'[q] = call[q]
    BY <1>1, CallersAssumption DEF CancelSelect
  <2>2. Executing' = Executing
    BY <2>1, ExecutingAfter
  <2> QED
    BY <2>1, <2>2 DEF Atomic!vars, rows
<1>2. CASE p \in Clients /\ (CancelUpdateCampaign(p) \/ CancelUpdateRun(p))
  <2>1. /\ UNCHANGED rows /\ p \notin Workers
        /\ \A q \in Callers \ {p} : call'[q] = call[q]
    BY <1>2, CallersAssumption DEF CancelUpdateCampaign, CancelUpdateRun
  <2>2. Executing' = Executing
    BY <2>1, ExecutingAfter
  <2> QED
    BY <2>1, <2>2 DEF Atomic!vars, rows
<1>3. CASE ClaimSelect(p) \/ StartUpdateRun(p)
  <2>1. /\ UNCHANGED rows /\ ~Executes(p)
        /\ \A q \in Callers \ {p} : call'[q] = call[q]
    BY <1>3 DEF ClaimSelect, StartUpdateRun, Executes, Inv, CallerOK, CallShape, OpPhases
  <2>2. CASE ClaimSelect(p)
    <3>1. call'[p].op = "claim"
      BY <2>2 DEF ClaimSelect, IdleCall
    <3> QED
      BY <2>1, <3>1, InnerStepStutters DEF Executes
  <2>3. CASE StartUpdateRun(p)
    <3>1. call'[p] = IdleCall \/ (call'[p].op = "start" /\ call'[p].phase = "deleteFindings")
      BY <2>3 DEF StartUpdateRun, Calls
    <3> QED
      BY <2>1, <3>1, InnerStepStutters DEF Executes, IdleCall
  <2> QED
    BY <1>3, <2>2, <2>3
<1>4. CASE StartDeleteFindings(p) \/ StartUpdateCampaign(p)
  <2>1. /\ UNCHANGED rows /\ ~Executes(p) /\ ~Executes(p)'
        /\ \A q \in Callers \ {p} : call'[q] = call[q]
    BY <1>4 DEF StartDeleteFindings, StartUpdateCampaign, Executes, Calls
  <2> QED
    BY <2>1, InnerStepStutters
<1>5. CASE \E status \in RunFinishStatus, found \in 0..MaxFindings :
             FinishUpdateRun(p, status, found)
  <2>1. /\ UNCHANGED rows /\ Executes(p) /\ Executes(p)'
        /\ call'[p].c = call[p].c
        /\ \A q \in Callers \ {p} : call'[q] = call[q]
    BY <1>5 DEF FinishUpdateRun, Executes
  <2> QED
    BY <2>1, InnerStepStutters
<1>6. CASE FinishUpdateCampaign(p) \/ FinishInsertFindings(p)
  <2>1. /\ UNCHANGED rows /\ Executes(p) /\ Executes(p)'
        /\ call'[p].c = call[p].c
        /\ \A q \in Callers \ {p} : call'[q] = call[q]
    BY <1>6 DEF FinishUpdateCampaign, FinishInsertFindings, Executes, Calls
  <2> QED
    BY <2>1, InnerStepStutters
<1> QED
  BY <1>1, <1>2, <1>3, <1>4, <1>5, <1>6

(* Each COMMIT is the atomic operation whose statements it publishes.        *)
LEMMA CommitRefines ==
  ASSUME Inv, NEW p \in Callers, Commit(p) \/ CommitUnacknowledged(p)
  PROVE  Atomic!Next
<1>1. call[p] \in Calls /\ call \in [Callers -> Calls]
  BY DEF Inv, TypeOK
<1>2. CASE Commit(p)
  <2>1. CASE call[p].op = "finish"
    BY <1>1, <1>2, <2>1, PublishRefines DEF Commit
  <2>2. CASE call[p].op # "finish"
    BY <1>1, <1>2, <2>2, PublishRefines DEF Commit
  <2> QED
    BY <2>1, <2>2
<1>3. CASE CommitUnacknowledged(p)
  BY <1>3, PublishRefines DEF CommitUnacknowledged
<1> QED
  BY <1>2, <1>3

(* Every step of PgStore is a step of the atomic store or a stutter.         *)
LEMMA NextRefines == Inv /\ [Next]_vars => [Atomic!Next]_(Atomic!vars)
<1> SUFFICES ASSUME Inv, [Next]_vars PROVE Atomic!Next \/ UNCHANGED Atomic!vars
  OBVIOUS
<1> Workers \subseteq Callers /\ Clients \subseteq Callers /\ call \in [Callers -> Calls]
  BY DEF Callers, Inv, TypeOK
<1>1. ASSUME NEW c \in Campaigns, CreateCampaign(c) PROVE Atomic!Next
  <2>1. Executing' = Executing
    BY <1>1 DEF CreateCampaign, Executing, Executes
  <2>2. Atomic!Create(c)
    BY <1>1, <2>1 DEF CreateCampaign, Atomic!Create, Atomic!SetBoth
  <2> QED
    BY <2>2 DEF Atomic!Next
<1>2. ASSUME NEW k \in Clients, \E c \in Campaigns : CancelSelect(k, c)
      PROVE  UNCHANGED Atomic!vars
  BY <1>2, StatementRefines
<1>3. ASSUME NEW k \in Clients, CancelStep(k)
      PROVE  Atomic!Next \/ UNCHANGED Atomic!vars
  BY <1>3, StatementRefines, CommitRefines DEF CancelStep
<1>4. ASSUME NEW w \in Workers, WorkerStep(w)
      PROVE  Atomic!Next \/ UNCHANGED Atomic!vars
  BY <1>4, StatementRefines, CommitRefines DEF WorkerStep
<1>5. ASSUME NEW p \in Callers, DeadlockVictim(p) \/ StatementFails(p) \/ CommitUnacknowledged(p)
      PROVE  Atomic!Next \/ UNCHANGED Atomic!vars
  BY <1>5, RollBackRefines, CommitRefines DEF DeadlockVictim, StatementFails
<1>6. ASSUME NEW w \in Workers, WorkerDropsJob(w)
      PROVE  Atomic!Next \/ UNCHANGED Atomic!vars
  BY <1>6, RollBackRefines DEF WorkerDropsJob
<1>7. CASE UNCHANGED vars
  BY <1>7 DEF vars, Atomic!vars, Executing, Executes
<1> QED
  BY <1>1, <1>2, <1>3, <1>4, <1>5, <1>6, <1>7
  DEF Next, FaultFreeNext, Failure

(* PgStore implements the atomic store (with LateCancel): whatever the order   *)
(* of statements, aborts and failures, callers see whole operations.          *)
THEOREM PgStoreIsAtomic == Spec => ImplementsAtomicStore
<1>1. Init => Atomic!Init
  BY DEF Init, Atomic!Init, Executing, Executes, IdleCall, Callers
<1> QED
  BY <1>1, Invariance, NextRefines, PTL DEF Spec, ImplementsAtomicStore, Atomic!Spec

(* No worker's step, and no failure, changes the outcome of an ended run or     *)
(* takes one of its findings away.                                           *)
THEOREM OutcomesKept == Spec => WorkersKeepOutcomes
<1> DEFINE Kept(c) == IsTerminal(run[c]) =>
             /\ run'[c] \in {run[c], "cancelled"}
             /\ campaign'[c] \in {campaign[c], "cancelled"}
             /\ findings'[c] >= findings[c]
<1>1. ASSUME Inv, [Next]_vars, NEW c \in Campaigns PROVE Kept(c)
  <2>1. /\ campaign \in [Campaigns -> CampaignStatus \cup {"absent"}]
        /\ run \in [Campaigns -> RunStatus \cup {"absent"}]
        /\ findings \in [Campaigns -> Nat]
        /\ StatusMirrored /\ Workers \subseteq Callers /\ Clients \subseteq Callers
    BY <1>1 DEF Inv, TypeOK, RowsOK, Callers
  <2>2. ASSUME UNCHANGED <<campaign, run, findings>> PROVE Kept(c)
    BY <2>1, <2>2
  <2>3. ASSUME NEW p \in Callers, Commit(p) \/ CommitUnacknowledged(p) PROVE Kept(c)
    <3>1. /\ call[p].phase = "commit" /\ Publish(p) /\ SeenRows(p)
          /\ CallShape(p) /\ call[p].found \in Nat
      BY <1>1, <2>3, MaxFindingsAssumption
      DEF Commit, CommitUnacknowledged, Inv, CallerOK, TypeOK, Calls
    <3>2. CASE call[p].op \in {"cancel", "claim"}
      BY <1>1, <2>1, <3>1, <3>2, PublishedRows
    <3>3. CASE call[p].op = "start"
      <4>1. run[call[p].c] = "pending"
        BY <3>1, <3>3 DEF SeenRows, InTransaction
      <4> QED
        BY <1>1, <2>1, <3>1, <3>3, <4>1, PublishedRows DEF IsTerminal
    <3>4. CASE call[p].op = "finish"
      <4>1. tx[p].run # NoWrite => run[call[p].c] = "running"
        BY <3>1, <3>4 DEF SeenRows
      <4> QED
        BY <1>1, <2>1, <3>1, <3>4, <4>1, PublishedRows DEF IsTerminal
    <3> QED
      BY <3>1, <3>2, <3>3, <3>4 DEF CallShape, OpPhases
  <2>4. ASSUME NEW d \in Campaigns, CreateCampaign(d) PROVE Kept(c)
    <3>1. run[d] = "absent"
      BY <2>1, <2>4 DEF CreateCampaign, StatusMirrored, MirrorOf
    <3> QED
      BY <2>1, <2>4, <3>1 DEF CreateCampaign, IsTerminal
  <2>5. CASE \E k \in Clients, d \in Campaigns : CancelSelect(k, d)
    BY <2>2, <2>5 DEF CancelSelect, rows
  <2>6. CASE \E k \in Clients : CancelStep(k)
    BY <2>1, <2>2, <2>3, <2>6
    DEF CancelStep, CancelUpdateCampaign, CancelUpdateRun, rows
  <2>7. CASE \E w \in Workers : WorkerStep(w)
    BY <2>1, <2>2, <2>3, <2>7
    DEF WorkerStep, ClaimSelect, StartUpdateRun, StartDeleteFindings,
        StartUpdateCampaign, FinishUpdateRun, FinishUpdateCampaign,
        FinishInsertFindings, rows
  <2>8. CASE \/ \E p \in Callers : DeadlockVictim(p) \/ StatementFails(p)
             \/ \E w \in Workers : WorkerDropsJob(w)
    BY <2>2, <2>8 DEF DeadlockVictim, StatementFails, WorkerDropsJob, RollBack, rows
  <2>9. CASE UNCHANGED vars
    BY <2>2, <2>9 DEF vars
  <2> QED
    BY <1>1, <2>3, <2>4, <2>5, <2>6, <2>7, <2>8, <2>9
    DEF Next, FaultFreeNext, Failure
<1>2. Inv /\ [Next]_vars => [\A c \in Campaigns : Kept(c)]_vars
  BY <1>1
<1> QED
  BY <1>2, Invariance, PTL DEF Spec, WorkersKeepOutcomes

-----------------------------------------------------------------------------
(* CampaignStore_proofs proves its theorems of every implementation of the store. *)
Promised == INSTANCE CampaignStore_proofs WITH executing <- Executing, LateCancel <- TRUE

(* The proofs are about the store that is implemented here.                      *)
LEMMA SameStore == Atomic!Spec => Promised!Spec
<1>1. Atomic!Init => Promised!Init
  BY DEF Atomic!Init, Promised!Init
<1>2. ASSUME NEW c \in Campaigns
      PROVE  /\ Atomic!Create(c) => Promised!Create(c)
             /\ Atomic!Cancel(c) => Promised!Cancel(c)
             /\ \A w : Atomic!Claim(w, c) => Promised!Claim(w, c)
             /\ Atomic!Start(c) => Promised!Start(c)
             /\ \A status, found :
                  Atomic!Finish(c, status, found) => Promised!Finish(c, status, found)
  BY DEF Atomic!Create, Atomic!Cancel, Atomic!Claim, Atomic!Start, Atomic!Finish,
         Atomic!SetBoth, Atomic!IsTerminal,
         Promised!Create, Promised!Cancel, Promised!Claim, Promised!Start, Promised!Finish,
         Promised!SetBoth, Promised!IsTerminal
<1>3. \A abandoned : Atomic!Abandon(abandoned) => Promised!Abandon(abandoned)
  BY DEF Atomic!Abandon, Promised!Abandon
<1>4. Atomic!vars = Promised!vars /\ (Atomic!vars)' = (Promised!vars)'
  BY DEF Atomic!vars, Promised!vars
<1>5. [Atomic!Next]_(Atomic!vars) => [Promised!Next]_(Promised!vars)
  BY <1>2, <1>3, <1>4
  DEF Atomic!Next, Promised!Next, Atomic!RunFinishStatus, Promised!RunFinishStatus
<1> QED BY <1>1, <1>5, PTL DEF Atomic!Spec, Promised!Spec

(* A run is started at most once, whatever deadlocks, rollbacks and lost          *)
(* acknowledgements interfere: once its start is committed it is never pending   *)
(* again, and only the worker that saw it pending executes it.                   *)
THEOREM RunsAreStartedOnce ==
    Spec => [][\A c \in Campaigns :
                 /\ run[c] \notin {"absent", "pending"} => run'[c] \notin {"absent", "pending"}
                 /\ c \in Executing' \ Executing => run[c] = "pending"]_vars
<1> DEFINE Once == \A c \in Campaigns :
                     /\ run[c] \notin {"absent", "pending"}
                          => run'[c] \notin {"absent", "pending"}
                     /\ c \in Executing' \ Executing => run[c] = "pending"
<1>1. [\A c \in Campaigns : Promised!Legal(c)]_(Promised!vars) => [Once]_vars
  BY DEF Promised!Legal, Promised!vars
<1>2. Spec => [][Once]_vars
  BY <1>1, SameStore, PgStoreIsAtomic, Promised!StepsAreLegal, PTL DEF ImplementsAtomicStore
<1> QED BY <1>2

-----------------------------------------------------------------------------
(***************************************************************************)
(* Deadlocks.                                                                *)
(***************************************************************************)
(* p is a cancel that has the campaign and needs the run, q a worker's start  *)
(* or finish that has the run and needs the campaign.                         *)
CancelAgainstWorker(p, q) ==
    /\ WaitsFor(p, q) /\ WaitsFor(q, p)
    /\ At(p, "cancel", "updateRun")
    /\ q \in Workers /\ call[q].op \in {"start", "finish"}

(* Who waits for the campaign has no version of it, who waits for the run has  *)
(* none of the run, and only a cancel waits for the run.                      *)
LEMMA WaitingShape ==
    ASSUME Inv, NEW p \in Callers, NEW q \in Callers, WaitsFor(p, q)
    PROVE  /\ InTransaction(q)
           /\ call[p].c = call[q].c /\ p # q
           /\ \/ /\ WaitsForCampaign(p)
                 /\ tx[p].campaign = NoWrite /\ tx[q].campaign # NoWrite
              \/ /\ At(p, "cancel", "updateRun")
                 /\ tx[p].campaign # NoWrite /\ tx[p].run = NoWrite
                 /\ tx[q].run # NoWrite
<1>1. CallShape(p) /\ TxShape(p) /\ TxShape(q)
  BY DEF Inv, CallerOK
<1>2. tx[q].campaign # NoWrite \/ tx[q].run # NoWrite
  BY DEF WaitsFor
<1>3. InTransaction(q)
  BY <1>1, <1>2 DEF TxShape, NoTx
<1>4. WaitsForCampaign(p) => tx[p].campaign = NoWrite
  <2> SUFFICES ASSUME WaitsForCampaign(p) PROVE tx[p].campaign = NoWrite
    OBVIOUS
  <2>1. call[p].phase = "updateCampaign" /\ call[p].op \in {"cancel", "start", "finish"}
    BY <1>1 DEF WaitsForCampaign, CallShape, OpPhases
  <2> QED BY <1>1, <2>1 DEF TxShape, At, NoTx, Wrote
<1>5. At(p, "cancel", "updateRun") => tx[p].campaign # NoWrite /\ tx[p].run = NoWrite
  BY <1>1 DEF TxShape, Wrote, NoWrite
<1> QED
  BY <1>3, <1>4, <1>5 DEF WaitsFor, At

(* A caller that waits for the campaign, and has a version of the run, is a    *)
(* start or a finish.                                                        *)
LEMMA HolderOfRun ==
    ASSUME Inv, NEW p \in Callers, WaitsForCampaign(p), tx[p].run # NoWrite
    PROVE  p \in Workers /\ call[p].op \in {"start", "finish"}
<1>1. CallShape(p) /\ TxShape(p)
  BY DEF Inv, CallerOK
<1>2. call[p].phase = "updateCampaign" /\ call[p].op \in {"cancel", "start", "finish"}
  BY <1>1 DEF WaitsForCampaign, CallShape, OpPhases
<1>3. call[p].op # "cancel"
  BY <1>1, <1>2 DEF TxShape, At, NoTx
<1> QED
  BY <1>1, <1>2, <1>3 DEF CallShape

(* Any set of callers in which everyone waits for another one of the set has a *)
(* cancel and a worker's call that wait for each other.                       *)
LEMMA CyclesHavePairs ==
    ASSUME Inv, NEW S \in SUBSET Callers, S # {},
           \A p \in S : \E q \in S : WaitsFor(p, q)
    PROVE  \E p, q \in S : CancelAgainstWorker(p, q)
<1>1. PICK k \in S : At(k, "cancel", "updateRun") /\ tx[k].campaign # NoWrite
  <2>1. PICK p \in S, q \in S : WaitsFor(p, q)
    OBVIOUS
  <2>2. CASE WaitsForCampaign(p) /\ tx[q].campaign # NoWrite
    <3>1. PICK r \in S : WaitsFor(q, r)
      OBVIOUS
    <3> QED BY <2>2, <3>1, WaitingShape
  <2> QED BY <2>1, <2>2, WaitingShape
<1>2. PICK w \in S : WaitsFor(k, w)
  OBVIOUS
<1>3. /\ tx[w].run # NoWrite /\ call[k].c = call[w].c /\ w # k
  BY <1>1, <1>2 DEF WaitsFor, WaitsForCampaign, At
<1>4. PICK r \in S : WaitsFor(w, r)
  OBVIOUS
<1>5. WaitsForCampaign(w)
  BY <1>3, <1>4, WaitingShape
<1>6. WaitsFor(w, k)
  BY <1>1, <1>3, <1>5 DEF WaitsFor
<1> QED
  BY <1>1, <1>2, <1>3, <1>5, <1>6, HolderOfRun DEF CancelAgainstWorker

(* A transaction waits only for one in progress; and a cycle of waits, however  *)
(* long, contains a cancel_campaign, which locks campaigns before runs          *)
(* (postgres.rs 294-302), and a start_run or finish_run of the same campaign,    *)
(* which lock runs before campaigns (345-372, 384-402), that wait for each       *)
(* other.  Two cancels, or calls for different campaigns, never deadlock, and    *)
(* Postgres breaks every cycle when it aborts one of such a pair.             *)
THEOREM DeadlocksAreCancelAgainstWorker ==
    Spec => [](/\ \A p, q \in Callers : WaitsFor(p, q) => InTransaction(q)
               /\ \A S \in SUBSET Callers :
                    (S # {} /\ \A p \in S : \E q \in S : WaitsFor(p, q))
                       => \E p, q \in S : CancelAgainstWorker(p, q))
<1> DEFINE Waits == /\ \A p, q \in Callers : WaitsFor(p, q) => InTransaction(q)
                    /\ \A S \in SUBSET Callers :
                         (S # {} /\ \A p \in S : \E q \in S : WaitsFor(p, q))
                            => \E p, q \in S : CancelAgainstWorker(p, q)
<1>1. Inv => Waits
  BY WaitingShape, CyclesHavePairs
<1>2. Spec => []Waits
  BY <1>1, Invariance, PTL
<1> QED BY <1>2

=============================================================================
