------------------------- MODULE CampaignStore_proofs -------------------------
(***************************************************************************)
(* What every implementation of the Store gives its callers, because it       *)
(* implements CampaignStore: the theorems are proved once, of single steps,   *)
(* and hold of PgStore's statements, of MockStore's calls and of the runs of   *)
(* a server process through the refinements proved for those.                *)
(***************************************************************************)
EXTENDS CampaignStore, TLAPS

(* One campaign's row, its run's row and its findings belong together; who is    *)
(* to finish a run has started it.                                           *)
RowInv(c) ==
    /\ campaign[c] = MirrorOf(run[c])
    /\ findings[c] > 0 => IsTerminal(run[c])
    /\ c \in executing => run[c] \notin {"absent", "pending"}

StoreInv ==
    /\ campaign \in [Campaigns -> CampaignStatus \cup {"absent"}]
    /\ run \in [Campaigns -> RunStatus \cup {"absent"}]
    /\ claimedBy \in [Campaigns -> Workers \cup {None}]
    /\ findings \in [Campaigns -> Nat]
    /\ executing \subseteq Campaigns
    /\ \A c \in Campaigns : RowInv(c)

(* What a step may do to a campaign: create it, start its run, which it does     *)
(* once, end it, or overwrite how it ended by a cancel that came too late.     *)
Legal(c) ==
    /\ run[c] # "absent" => run'[c] # "absent"
    /\ run[c] \notin {"absent", "pending"} => run'[c] \notin {"absent", "pending"}
    /\ c \in executing' \ executing => run[c] = "pending" /\ run'[c] = "running"
    /\ IsTerminal(run[c]) =>
         /\ run'[c] # run[c] => LateCancel /\ run'[c] = "cancelled"
         /\ findings'[c] >= findings[c]

(* The initial states satisfy the invariant.                                 *)
LEMMA InitInv == Init => StoreInv
BY DEF Init, StoreInv, RowInv, MirrorOf

(* What a step makes of one campaign, of its run and of its findings.            *)
Becomes(c, status, runStatus, n) ==
    /\ campaign' = [campaign EXCEPT ![c] = status]
    /\ run' = [run EXCEPT ![c] = runStatus]
    /\ findings' = [findings EXCEPT ![c] = n]

(* A step of one campaign has to be looked at there only.                        *)
LEMMA OneCampaign ==
    ASSUME StoreInv, NEW c \in Campaigns,
           NEW status \in CampaignStatus, NEW runStatus \in RunStatus, NEW n \in Nat,
           Becomes(c, status, runStatus, n),
           claimedBy' \in [Campaigns -> Workers \cup {None}],
           executing' \in {executing, executing \cup {c}, executing \ {c}},
           status = MirrorOf(runStatus),
           n > 0 => IsTerminal(runStatus),
           c \in executing' => runStatus # "pending",
           run[c] \notin {"absent", "pending"} => runStatus # "pending",
           c \in executing' \ executing => run[c] = "pending" /\ runStatus = "running",
           IsTerminal(run[c]) =>
             /\ runStatus # run[c] => LateCancel /\ runStatus = "cancelled"
             /\ n >= findings[c]
    PROVE  StoreInv' /\ \A d \in Campaigns : Legal(d)
<1>1. /\ campaign'[c] = status /\ run'[c] = runStatus /\ findings'[c] = n
      /\ \A d \in Campaigns \ {c} :
            /\ campaign'[d] = campaign[d] /\ run'[d] = run[d]
            /\ findings'[d] = findings[d]
            /\ d \in executing' <=> d \in executing
  BY DEF StoreInv, Becomes
<1>2. /\ campaign' \in [Campaigns -> CampaignStatus \cup {"absent"}]
      /\ run' \in [Campaigns -> RunStatus \cup {"absent"}]
      /\ findings' \in [Campaigns -> Nat]
      /\ executing' \subseteq Campaigns
  BY DEF StoreInv, Becomes
<1>3. RowInv(c)' /\ Legal(c)
  BY <1>1 DEF RowInv, Legal, RunStatus
<1>4. ASSUME NEW d \in Campaigns \ {c} PROVE RowInv(d)' /\ Legal(d)
  <2>1. RowInv(d) /\ findings[d] \in Nat
    BY DEF StoreInv
  <2> QED BY <1>1, <2>1 DEF RowInv, Legal, IsTerminal
<1> QED BY <1>2, <1>3, <1>4 DEF StoreInv

(* create_campaign.                                                          *)
LEMMA CreateStep ==
    ASSUME StoreInv, NEW c \in Campaigns, Create(c)
    PROVE  StoreInv' /\ \A d \in Campaigns : Legal(d)
<1>1. RowInv(c) /\ findings \in [Campaigns -> Nat]
  BY DEF StoreInv
<1>2. run[c] = "absent" /\ ~IsTerminal(run[c])
  BY <1>1 DEF Create, RowInv, MirrorOf, IsTerminal
<1>3. findings[c] = 0 /\ c \notin executing
  BY <1>1, <1>2 DEF RowInv
<1>4. Becomes(c, "queued", "pending", 0)
  BY <1>1, <1>3 DEF Create, SetBoth, Becomes
<1>5. claimedBy' \in [Campaigns -> Workers \cup {None}] /\ executing' = executing
  BY DEF StoreInv, Create
<1>6. /\ "queued" \in CampaignStatus /\ "pending" \in RunStatus
      /\ "queued" = MirrorOf("pending")
  BY DEF CampaignStatus, RunStatus, MirrorOf
<1> QED BY <1>2, <1>3, <1>4, <1>5, <1>6, OneCampaign

(* cancel_campaign.                                                          *)
LEMMA CancelStep ==
    ASSUME StoreInv, NEW c \in Campaigns, Cancel(c)
    PROVE  StoreInv' /\ \A d \in Campaigns : Legal(d)
<1>1. RowInv(c) /\ findings \in [Campaigns -> Nat]
  BY DEF StoreInv
<1>2. Becomes(c, "cancelled", "cancelled", findings[c]) /\ findings[c] \in Nat
  BY <1>1 DEF Cancel, SetBoth, Becomes
<1>3. IsTerminal(run[c]) => LateCancel
  BY <1>1 DEF Cancel, RowInv, MirrorOf, IsTerminal
<1>4. claimedBy' \in [Campaigns -> Workers \cup {None}] /\ executing' = executing
  BY DEF StoreInv, Cancel
<1>5. /\ "cancelled" \in CampaignStatus /\ "cancelled" \in RunStatus
      /\ "cancelled" = MirrorOf("cancelled") /\ IsTerminal("cancelled")
  BY DEF CampaignStatus, RunStatus, MirrorOf, IsTerminal
<1> QED BY <1>2, <1>3, <1>4, <1>5, OneCampaign

(* claim_job.                                                                *)
LEMMA ClaimStep ==
    ASSUME StoreInv, NEW c \in Campaigns, NEW w \in Workers, Claim(w, c)
    PROVE  StoreInv' /\ \A d \in Campaigns : Legal(d)
<1>1. /\ UNCHANGED <<campaign, run, findings, executing>>
      /\ claimedBy' \in [Campaigns -> Workers \cup {None}]
  BY DEF Claim, StoreInv
<1>2. ASSUME NEW d \in Campaigns PROVE RowInv(d)' /\ Legal(d)
  <2>1. RowInv(d) /\ findings[d] \in Nat
    BY DEF StoreInv
  <2> QED BY <1>1, <2>1 DEF RowInv, Legal, IsTerminal
<1> QED BY <1>1, <1>2 DEF StoreInv

(* start_run.                                                                *)
LEMMA StartStep ==
    ASSUME StoreInv, NEW c \in Campaigns, Start(c)
    PROVE  StoreInv' /\ \A d \in Campaigns : Legal(d)
<1>1. run[c] = "pending" /\ ~IsTerminal(run[c])
  BY DEF Start, IsTerminal
<1>2. Becomes(c, "running", "running", 0)
  BY DEF Start, SetBoth, Becomes
<1>3. /\ claimedBy' \in [Campaigns -> Workers \cup {None}]
      /\ executing' \in {executing, executing \cup {c}}
  BY DEF StoreInv, Start
<1>4. /\ "running" \in CampaignStatus /\ "running" \in RunStatus
      /\ "running" = MirrorOf("running")
  BY DEF CampaignStatus, RunStatus, MirrorOf
<1> QED BY <1>1, <1>2, <1>3, <1>4, OneCampaign

(* finish_run.                                                               *)
LEMMA FinishStep ==
    ASSUME StoreInv, NEW c \in Campaigns, NEW status \in RunFinishStatus,
           NEW found \in 0..MaxFindings, Finish(c, status, found)
    PROVE  StoreInv' /\ \A d \in Campaigns : Legal(d)
<1> DEFINE n == findings[c] + found
<1>1. /\ RowInv(c) /\ findings[c] \in Nat
      /\ campaign \in [Campaigns -> CampaignStatus \cup {"absent"}]
      /\ run \in [Campaigns -> RunStatus \cup {"absent"}]
  BY DEF StoreInv
<1>2. n \in Nat /\ n >= findings[c]
  BY <1>1
<1>3. /\ findings' = [findings EXCEPT ![c] = n]
      /\ claimedBy' \in [Campaigns -> Workers \cup {None}]
      /\ c \in executing /\ executing' = executing \ {c}
  BY DEF Finish, StoreInv
<1>4. run[c] \in RunStatus \ {"pending"}
  BY <1>1, <1>3 DEF RowInv
<1>5. CASE run[c] = "running" /\ SetBoth(c, status, status)
  <2>1. Becomes(c, status, status, n)
    BY <1>3, <1>5 DEF SetBoth, Becomes
  <2>2. /\ status \in CampaignStatus /\ status \in RunStatus /\ status = MirrorOf(status)
        /\ IsTerminal(status) /\ status # "pending" /\ ~IsTerminal(run[c])
    BY <1>5 DEF RunFinishStatus, CampaignStatus, RunStatus, MirrorOf, IsTerminal
  <2> HIDE DEF n
  <2> QED BY <1>2, <1>3, <2>1, <2>2, OneCampaign
<1>6. CASE run[c] # "running" /\ UNCHANGED <<campaign, run>>
  <2>1. Becomes(c, campaign[c], run[c], n)
    BY <1>1, <1>3, <1>6 DEF Becomes
  <2>2. IsTerminal(run[c]) /\ run[c] \in RunStatus /\ run[c] # "pending"
    BY <1>4, <1>6 DEF RunStatus, IsTerminal
  <2>3. campaign[c] = MirrorOf(run[c]) /\ campaign[c] \in CampaignStatus
    BY <1>1, <2>2 DEF RowInv, MirrorOf, IsTerminal, CampaignStatus
  <2> HIDE DEF n
  <2> QED BY <1>2, <1>3, <2>1, <2>2, <2>3, OneCampaign
<1> QED BY <1>5, <1>6 DEF Finish

(* Every step, stuttering included, preserves the invariant and is legal.        *)
LEMMA NextInv == StoreInv /\ [Next]_vars => StoreInv' /\ \A c \in Campaigns : Legal(c)
<1> SUFFICES ASSUME StoreInv, [Next]_vars
             PROVE  StoreInv' /\ \A c \in Campaigns : Legal(c)
  OBVIOUS
<1>1. CASE \/ \E abandoned \in SUBSET Campaigns : Abandon(abandoned)
           \/ UNCHANGED vars
  <2>1. /\ UNCHANGED <<campaign, run, claimedBy, findings>>
        /\ executing' \subseteq executing
    BY <1>1 DEF Abandon, vars
  <2>2. ASSUME NEW c \in Campaigns PROVE RowInv(c)' /\ Legal(c)
    <3>1. RowInv(c) /\ findings[c] \in Nat
      BY DEF StoreInv
    <3> QED BY <2>1, <3>1 DEF RowInv, Legal, IsTerminal
  <2> QED BY <2>1, <2>2 DEF StoreInv
<1> QED BY <1>1, CreateStep, CancelStep, ClaimStep, StartStep, FinishStep DEF Next

(* The inductive invariant holds in every reachable state.                   *)
THEOREM Invariance == Spec => []StoreInv
BY InitInv, NextInv, PTL DEF Spec

(* A campaign has the status of its run, and findings are those of runs that     *)
(* have ended.                                                               *)
THEOREM RowsBelongTogether ==
    Spec => [](\A c \in Campaigns : /\ campaign[c] = MirrorOf(run[c])
                                    /\ findings[c] > 0 => IsTerminal(run[c]))
<1>1. StoreInv => \A c \in Campaigns : /\ campaign[c] = MirrorOf(run[c])
                                       /\ findings[c] > 0 => IsTerminal(run[c])
  BY DEF StoreInv, RowInv
<1> QED BY <1>1, Invariance, PTL

(* No step loses a campaign, puts a run back into the queue, starts one a second *)
(* time or takes a finding away, and what becomes of an ended run is nothing,   *)
(* or "cancelled" where a late cancel is let through.                         *)
THEOREM StepsAreLegal == Spec => [][\A c \in Campaigns : Legal(c)]_vars
BY Invariance, NextInv, PTL DEF Spec

(* The Store as it is documented (store/mod.rs:72): a terminal status is final.  *)
THEOREM DocumentedStatusIsFinal ==
    ASSUME ~LateCancel
    PROVE  Spec => [][\A c \in Campaigns : IsTerminal(run[c]) => run'[c] = run[c]]_vars
<1>1. (\A c \in Campaigns : Legal(c))
        => \A c \in Campaigns : IsTerminal(run[c]) => run'[c] = run[c]
  BY DEF Legal
<1> QED BY <1>1, StepsAreLegal, PTL

=============================================================================
