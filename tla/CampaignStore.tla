---------------------------- MODULE CampaignStore ----------------------------
(***************************************************************************)
(* What the Store trait promises its callers about a campaign: every         *)
(* operation of PgStore that changes rows, taken as one atomic step, as if    *)
(* the transactions ran one after the other.  PgStore implements this        *)
(* specification statement by statement.                                     *)
(*                                                                         *)
(* LateCancel says whether a cancel may overwrite a terminal status.  The     *)
(* trait's documentation says FALSE; the code implements only TRUE, because  *)
(* cancel_campaign tests the status without locking the row.                 *)
(***************************************************************************)
EXTENDS Model, Naturals

CONSTANTS Campaigns, Workers, MaxFindings, None, LateCancel

VARIABLES
    campaign,    \* campaigns.status
    run,         \* runs.status
    claimedBy,   \* job_queue.claimed_by
    findings,    \* number of findings rows of the run
    executing    \* campaigns some worker started and will call finish_run for

vars == <<campaign, run, claimedBy, findings, executing>>

Init ==
    /\ campaign = [c \in Campaigns |-> "absent"]
    /\ run = [c \in Campaigns |-> "absent"]
    /\ claimedBy = [c \in Campaigns |-> None]
    /\ findings = [c \in Campaigns |-> 0]
    /\ executing = {}

SetBoth(c, campaignStatus, runStatus) ==
    /\ campaign' = [campaign EXCEPT ![c] = campaignStatus]
    /\ run' = [run EXCEPT ![c] = runStatus]

Create(c) ==
    /\ campaign[c] = "absent"
    /\ SetBoth(c, "queued", "pending")
    /\ UNCHANGED <<claimedBy, findings, executing>>

Cancel(c) ==
    /\ campaign[c] # "absent"
    /\ IsTerminal(campaign[c]) => LateCancel
    /\ SetBoth(c, "cancelled", "cancelled")
    /\ UNCHANGED <<claimedBy, findings, executing>>

(* The run was pending when the job was chosen; a cancel may have come since. *)
Claim(w, c) ==
    /\ campaign[c] # "absent"
    /\ claimedBy[c] = None
    /\ claimedBy' = [claimedBy EXCEPT ![c] = w]
    /\ UNCHANGED <<campaign, run, findings, executing>>

(* The worker that started the run may not get to know that it did.          *)
Start(c) ==
    /\ claimedBy[c] # None
    /\ run[c] = "pending"
    /\ SetBoth(c, "running", "running")
    /\ findings' = [findings EXCEPT ![c] = 0]
    /\ executing' \in {executing, executing \cup {c}}
    /\ UNCHANGED claimedBy

Finish(c, status, found) ==
    /\ c \in executing
    /\ \/ run[c] = "running" /\ SetBoth(c, status, status)
       \/ run[c] # "running" /\ UNCHANGED <<campaign, run>>
    /\ findings' = [findings EXCEPT ![c] = @ + found]
    /\ executing' = executing \ {c}
    /\ UNCHANGED claimedBy

(* A worker dies, or all of a server process, or a finish_run fails, and       *)
(* nobody takes over.                                                        *)
Abandon(abandoned) ==
    /\ abandoned \subseteq executing
    /\ executing' = executing \ abandoned
    /\ UNCHANGED <<campaign, run, claimedBy, findings>>

Next ==
    \/ \E c \in Campaigns :
         \/ Create(c)
         \/ Cancel(c)
         \/ \E w \in Workers : Claim(w, c)
         \/ Start(c)
         \/ \E status \in RunFinishStatus, found \in 0..MaxFindings :
              Finish(c, status, found)
    \/ \E abandoned \in SUBSET Campaigns : Abandon(abandoned)

Spec == Init /\ [][Next]_vars

=============================================================================
