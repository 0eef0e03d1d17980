------------------------------ MODULE MockStore ------------------------------
(***************************************************************************)
(* The in-memory Store of the API and worker tests (store/mock.rs), with the *)
(* worker tasks that call it.  Its methods never await, and tests run on one  *)
(* thread, so each is one step.                                              *)
(***************************************************************************)
EXTENDS Model, Naturals, Sequences

CONSTANTS Campaigns, Workers, MaxFindings, None

VARIABLES
    campaigns,   \* the campaign records, in the order of their creation
    runs,        \* per campaign: the status of its MockRun
    jobs,        \* per campaign: claimed_by of its MockJob
    findings,    \* per campaign: the number of its findings
    executing    \* campaigns some worker started and will call finish_run for

vars == <<campaigns, runs, jobs, findings, executing>>

CampaignIds == {campaigns[i].id : i \in DOMAIN campaigns}

(* campaigns.iter_mut().find(...).status = status                            *)
WithStatus(c, status) ==
    [i \in DOMAIN campaigns |->
        IF campaigns[i].id = c THEN [campaigns[i] EXCEPT !.status = status]
        ELSE campaigns[i]]

Init ==
    /\ campaigns = <<>>
    /\ runs = [c \in Campaigns |-> "absent"]
    /\ jobs = [c \in Campaigns |-> None]
    /\ findings = [c \in Campaigns |-> 0]
    /\ executing = {}

CreateCampaign(c) ==
    /\ c \notin CampaignIds
    /\ campaigns' = Append(campaigns, [id |-> c, status |-> "queued"])
    /\ runs' = [runs EXCEPT ![c] = "pending"]
    /\ UNCHANGED <<jobs, findings, executing>>

(* A campaign that has ended is returned as it is.                           *)
CancelCampaign(c) ==
    /\ \E i \in DOMAIN campaigns :
          campaigns[i].id = c /\ ~IsTerminal(campaigns[i].status)
    /\ campaigns' = WithStatus(c, "cancelled")
    /\ runs' = [runs EXCEPT ![c] = "cancelled"]
    /\ UNCHANGED <<jobs, findings, executing>>

Claimable(c) == jobs[c] = None /\ runs[c] = "pending"

(* The first job in the order of their creation.                             *)
ClaimJob(w, c) ==
    /\ \E i \in DOMAIN campaigns :
          /\ campaigns[i].id = c /\ Claimable(c)
          /\ \A j \in 1 .. i - 1 : ~Claimable(campaigns[j].id)
    /\ jobs' = [jobs EXCEPT ![c] = w]
    /\ UNCHANGED <<campaigns, runs, findings, executing>>

(* The worker that claimed the job starts its run, and runs it.              *)
StartRun(c) ==
    /\ jobs[c] # None
    /\ runs[c] = "pending"
    /\ runs' = [runs EXCEPT ![c] = "running"]
    /\ findings' = [findings EXCEPT ![c] = 0]
    /\ campaigns' = IF \E i \in DOMAIN campaigns :
                          campaigns[i].id = c /\ campaigns[i].status = "queued"
                    THEN WithStatus(c, "running") ELSE campaigns
    /\ executing' = executing \cup {c}
    /\ UNCHANGED jobs

(* The findings are pushed whatever became of the run.                        *)
FinishRun(c, status, found) ==
    /\ c \in executing
    /\ IF runs[c] = "running"
       THEN /\ runs' = [runs EXCEPT ![c] = status]
            /\ campaigns' = WithStatus(c, status)
       ELSE UNCHANGED <<campaigns, runs>>
    /\ findings' = [findings EXCEPT ![c] = @ + found]
    /\ executing' = executing \ {c}
    /\ UNCHANGED jobs

Next ==
    \E c \in Campaigns :
      \/ CreateCampaign(c)
      \/ CancelCampaign(c)
      \/ \E w \in Workers : ClaimJob(w, c)
      \/ StartRun(c)
      \/ \E status \in RunFinishStatus, found \in 0 .. MaxFindings :
            FinishRun(c, status, found)

Spec == Init /\ [][Next]_vars

-----------------------------------------------------------------------------
StatusOf(c) ==
    IF c \in CampaignIds
    THEN campaigns[CHOOSE i \in DOMAIN campaigns : campaigns[i].id = c].status
    ELSE "absent"

(* The Store trait as it is documented: a terminal status is final.           *)
Documented ==
    INSTANCE CampaignStore WITH campaign <- [c \in Campaigns |-> StatusOf(c)],
                                run <- runs, claimedBy <- jobs,
                                LateCancel <- FALSE

(* What a test observes through MockStore is what the documentation of Store   *)
(* allows, in the order of single steps.                                     *)
ImplementsDocumentedStore == Documented!Spec
=============================================================================
