--------------------------- MODULE MockStore_proofs ---------------------------
(***************************************************************************)
(* MockStore implements the documented CampaignStore, for any campaigns,      *)
(* workers and numbers of findings.                                          *)
(***************************************************************************)
EXTENDS MockStore, TLAPS

Records == [id : Campaigns, status : CampaignStatus]

TypeInv ==
    /\ campaigns \in Seq(Records)
    /\ runs \in [Campaigns -> RunStatus \cup {"absent"}]
    /\ jobs \in [Campaigns -> Workers \cup {None}]
    /\ findings \in [Campaigns -> Nat]
    /\ executing \subseteq Campaigns

(* Each campaign has one record, and a run from the same moment on.            *)
RecordsInv ==
    /\ \A i, j \in DOMAIN campaigns : campaigns[i].id = campaigns[j].id => i = j
    /\ \A c \in Campaigns : c \in CampaignIds <=> runs[c] # "absent"
    /\ \A c \in executing : runs[c] # "absent"

(* The status of a campaign mirrors that of its run.                          *)
MirrorInv ==
    \A i \in DOMAIN campaigns : campaigns[i].status = MirrorOf(runs[campaigns[i].id])

Inv == TypeInv /\ RecordsInv /\ MirrorInv

-----------------------------------------------------------------------------
(* Setting a status keeps the records and their ids.                          *)
LEMMA WithStatusIsSeq ==
    ASSUME TypeInv, NEW c, NEW status \in CampaignStatus
    PROVE  /\ WithStatus(c, status) \in Seq(Records)
           /\ DOMAIN WithStatus(c, status) = DOMAIN campaigns
           /\ \A i \in DOMAIN campaigns :
                 /\ campaigns[i] \in Records
                 /\ WithStatus(c, status)[i].id = campaigns[i].id
                 /\ WithStatus(c, status)[i].status =
                      IF campaigns[i].id = c THEN status ELSE campaigns[i].status
<1>1. \A i \in DOMAIN campaigns : campaigns[i] \in Records
  BY DEF TypeInv
<1>2. \A i \in DOMAIN campaigns :
         /\ WithStatus(c, status)[i] \in Records
         /\ WithStatus(c, status)[i].id = campaigns[i].id
         /\ WithStatus(c, status)[i].status =
              IF campaigns[i].id = c THEN status ELSE campaigns[i].status
  BY <1>1 DEF WithStatus, Records
<1>3. PICK n \in Nat : DOMAIN campaigns = 1 .. n
  BY DEF TypeInv
<1>4. WithStatus(c, status) \in [1 .. n -> Records]
  BY <1>2, <1>3 DEF WithStatus
<1> QED
  BY <1>1, <1>2, <1>3, <1>4 DEF WithStatus

(* Under the invariant the refinement mapping is the mirrored status.          *)
LEMMA StatusIsMirrored ==
    ASSUME Inv, NEW c \in Campaigns
    PROVE  StatusOf(c) = MirrorOf(runs[c])
<1>1. CASE c \in CampaignIds
  <2>1. PICK k \in DOMAIN campaigns : campaigns[k].id = c
    BY <1>1 DEF CampaignIds
  <2>2. PICK n : n = CHOOSE i \in DOMAIN campaigns : campaigns[i].id = c
    OBVIOUS
  <2>3. n \in DOMAIN campaigns /\ campaigns[n].id = c
    BY <2>1, <2>2
  <2> QED
    BY <1>1, <2>2, <2>3 DEF StatusOf, Inv, MirrorInv
<1>2. CASE c \notin CampaignIds
  BY <1>2 DEF StatusOf, Inv, RecordsInv, MirrorOf
<1> QED
  BY <1>1, <1>2

(* The same after a step.                                                    *)
LEMMA StatusIsMirroredNext ==
    ASSUME Inv', NEW c \in Campaigns
    PROVE  StatusOf(c)' = MirrorOf(runs'[c])
<1>1. CASE c \in CampaignIds'
  <2>1. PICK k \in DOMAIN campaigns' : campaigns'[k].id = c
    BY <1>1 DEF CampaignIds
  <2>2. PICK n : n = CHOOSE i \in DOMAIN campaigns' : campaigns'[i].id = c
    OBVIOUS
  <2>3. n \in DOMAIN campaigns' /\ campaigns'[n].id = c
    BY <2>1, <2>2
  <2> QED
    BY <1>1, <2>2, <2>3 DEF StatusOf, Inv, MirrorInv
<1>2. CASE c \notin CampaignIds'
  BY <1>2 DEF StatusOf, Inv, RecordsInv, MirrorOf
<1> QED
  BY <1>1, <1>2

(* The initial states satisfy the invariant.                                 *)
LEMMA InitInv == Init => Inv
BY DEF Init, Inv, TypeInv, RecordsInv, MirrorInv, CampaignIds

(* A step that sets the status of one campaign and of its run to mirroring     *)
(* values preserves the invariant.                                           *)
LEMMA SetStatusInv ==
    ASSUME Inv, NEW c \in Campaigns, NEW runStatus \in RunStatus,
           c \in CampaignIds,
           campaigns' = WithStatus(c, MirrorOf(runStatus)),
           runs' = [runs EXCEPT ![c] = runStatus],
           jobs' \in [Campaigns -> Workers \cup {None}],
           findings' \in [Campaigns -> Nat],
           executing' \subseteq executing \cup {c}
    PROVE  Inv'
<1>1. MirrorOf(runStatus) \in CampaignStatus
  BY DEF MirrorOf, RunStatus, CampaignStatus
<1>2. /\ campaigns' \in Seq(Records)
      /\ DOMAIN campaigns' = DOMAIN campaigns
      /\ \A i \in DOMAIN campaigns :
            /\ campaigns[i] \in Records
            /\ campaigns'[i].id = campaigns[i].id
            /\ campaigns'[i].status =
                 IF campaigns[i].id = c THEN MirrorOf(runStatus) ELSE campaigns[i].status
  BY <1>1, WithStatusIsSeq DEF Inv
<1>3. \A d \in Campaigns : runs'[d] = IF d = c THEN runStatus ELSE runs[d]
  BY DEF Inv, TypeInv
<1>4. TypeInv'
  BY <1>2 DEF Inv, TypeInv
<1>5. CampaignIds' = CampaignIds
  BY <1>2 DEF CampaignIds
<1>6. RecordsInv'
  BY <1>2, <1>3, <1>5 DEF Inv, TypeInv, RecordsInv, RunStatus
<1>7. MirrorInv'
  BY <1>2, <1>3 DEF Inv, MirrorInv, Records
<1> QED
  BY <1>4, <1>6, <1>7 DEF Inv

(* ... and is a SetBoth of the documented store.                               *)
LEMMA SetStatusRefines ==
    ASSUME Inv, Inv', NEW c \in Campaigns, NEW runStatus \in RunStatus,
           runs' = [runs EXCEPT ![c] = runStatus]
    PROVE  Documented!SetBoth(c, MirrorOf(runStatus), runStatus)
<1>1. \A d \in Campaigns : runs'[d] = IF d = c THEN runStatus ELSE runs[d]
  BY DEF Inv, TypeInv
<1>2. \A d \in Campaigns : StatusOf(d)' = IF d = c THEN MirrorOf(runStatus) ELSE StatusOf(d)
  BY <1>1, StatusIsMirrored, StatusIsMirroredNext
<1>3. [d \in Campaigns |-> StatusOf(d)]'
        = [[d \in Campaigns |-> StatusOf(d)] EXCEPT ![c] = MirrorOf(runStatus)]
  BY <1>2
<1> QED
  BY <1>3 DEF Documented!SetBoth

(* A step that leaves records and runs alone keeps every status.               *)
LEMMA StatusUnchanged ==
    ASSUME UNCHANGED campaigns
    PROVE  [d \in Campaigns |-> StatusOf(d)]' = [d \in Campaigns |-> StatusOf(d)]
BY DEF StatusOf, CampaignIds

-----------------------------------------------------------------------------
(* Each operation preserves the invariant and is one of the documented store.  *)
LEMMA CreateCampaignStep ==
    ASSUME Inv, NEW c \in Campaigns, CreateCampaign(c)
    PROVE  Inv' /\ Documented!Create(c)
<1> DEFINE row == [id |-> c, status |-> "queued"]
<1>1. /\ c \notin CampaignIds
      /\ campaigns' = Append(campaigns, row)
      /\ runs' = [runs EXCEPT ![c] = "pending"]
      /\ UNCHANGED <<jobs, findings, executing>>
  BY DEF CreateCampaign
<1>2. row \in Records /\ row.id = c /\ row.status = "queued"
  BY DEF Records, CampaignStatus
<1> HIDE DEF row
<1>3. PICK n \in Nat : n = Len(campaigns) /\ DOMAIN campaigns = 1 .. n
  BY DEF Inv, TypeInv
<1>4. /\ campaigns' \in Seq(Records)
      /\ DOMAIN campaigns' = 1 .. n + 1
      /\ campaigns'[n + 1] = row
      /\ \A i \in 1 .. n : campaigns'[i] = campaigns[i]
  BY <1>1, <1>2, <1>3 DEF Inv, TypeInv
<1>5. \A d \in Campaigns : runs'[d] = IF d = c THEN "pending" ELSE runs[d]
  BY <1>1 DEF Inv, TypeInv
<1>6. CampaignIds' = CampaignIds \cup {c}
  BY <1>2, <1>3, <1>4 DEF CampaignIds
<1>7. TypeInv'
  BY <1>1, <1>4 DEF Inv, TypeInv, RunStatus
<1>8. RecordsInv'
  <2>1. \A i \in 1 .. n : campaigns[i].id \in CampaignIds
    BY <1>3 DEF CampaignIds
  <2>2. \A i, j \in DOMAIN campaigns' : campaigns'[i].id = campaigns'[j].id => i = j
    BY <1>1, <1>2, <1>3, <1>4, <2>1 DEF Inv, RecordsInv
  <2>3. \A d \in Campaigns : d \in CampaignIds' <=> runs'[d] # "absent"
    BY <1>5, <1>6 DEF Inv, RecordsInv
  <2>4. \A d \in executing' : runs'[d] # "absent"
    BY <1>1, <1>5 DEF Inv, TypeInv, RecordsInv
  <2> QED
    BY <2>2, <2>3, <2>4 DEF RecordsInv
<1>9. MirrorInv'
  <2>1. \A i \in 1 .. n : campaigns[i].id \in CampaignIds /\ campaigns[i].id \in Campaigns
    <3>1. \A i \in 1 .. n : campaigns[i] \in Records
      BY <1>3 DEF Inv, TypeInv
    <3> QED
      BY <1>3, <3>1 DEF CampaignIds, Records
  <2> QED
    BY <1>1, <1>2, <1>3, <1>4, <1>5, <2>1 DEF Inv, MirrorInv, MirrorOf
<1>10. Inv'
  BY <1>7, <1>8, <1>9 DEF Inv
<1>11. StatusOf(c) = "absent"
  BY <1>1 DEF StatusOf
<1>12. Documented!SetBoth(c, "queued", "pending")
  BY <1>1, <1>10, SetStatusRefines DEF MirrorOf, RunStatus
<1> QED
  BY <1>1, <1>10, <1>11, <1>12 DEF Documented!Create

(* A cancel is one of a campaign that has not ended.                           *)
LEMMA CancelCampaignStep ==
    ASSUME Inv, NEW c \in Campaigns, CancelCampaign(c)
    PROVE  Inv' /\ Documented!Cancel(c)
<1>1. /\ campaigns' = WithStatus(c, "cancelled")
      /\ runs' = [runs EXCEPT ![c] = "cancelled"]
      /\ UNCHANGED <<jobs, findings, executing>>
  BY DEF CancelCampaign
<1>2. PICK i \in DOMAIN campaigns : campaigns[i].id = c /\ ~IsTerminal(campaigns[i].status)
  BY DEF CancelCampaign
<1>3. c \in CampaignIds
  BY <1>2 DEF CampaignIds
<1>4. Inv'
  BY <1>1, <1>3, SetStatusInv DEF Inv, TypeInv, MirrorOf, RunStatus
<1>5. StatusOf(c) = campaigns[i].status /\ StatusOf(c) # "absent"
  BY <1>2, <1>3, StatusIsMirrored DEF Inv, TypeInv, RecordsInv, MirrorInv, MirrorOf, RunStatus
<1>6. Documented!SetBoth(c, "cancelled", "cancelled")
  BY <1>1, <1>4, SetStatusRefines DEF MirrorOf, RunStatus
<1>7. ~Documented!IsTerminal(StatusOf(c))
  BY <1>2, <1>5 DEF IsTerminal, Documented!IsTerminal
<1> QED
  BY <1>1, <1>4, <1>5, <1>6, <1>7 DEF Documented!Cancel

(* A claim is one of a job nobody has.                                        *)
LEMMA ClaimJobStep ==
    ASSUME Inv, NEW c \in Campaigns, NEW w \in Workers, ClaimJob(w, c)
    PROVE  Inv' /\ Documented!Claim(w, c)
<1>1. /\ jobs[c] = None /\ runs[c] = "pending"
      /\ jobs' = [jobs EXCEPT ![c] = w]
      /\ UNCHANGED <<campaigns, runs, findings, executing>>
  BY DEF ClaimJob, Claimable
<1>2. Inv'
  BY <1>1 DEF Inv, TypeInv, RecordsInv, MirrorInv, CampaignIds
<1>3. StatusOf(c) # "absent"
  BY <1>1, StatusIsMirrored DEF MirrorOf
<1>4. UNCHANGED [d \in Campaigns |-> StatusOf(d)]
  BY <1>1, StatusUnchanged
<1> QED
  BY <1>1, <1>2, <1>3, <1>4 DEF Documented!Claim

(* A start finds the campaign queued.                                        *)
LEMMA StartRunStep ==
    ASSUME Inv, NEW c \in Campaigns, StartRun(c)
    PROVE  Inv' /\ Documented!Start(c)
<1>1. /\ jobs[c] # None /\ runs[c] = "pending"
      /\ runs' = [runs EXCEPT ![c] = "running"]
      /\ findings' = [findings EXCEPT ![c] = 0]
      /\ executing' = executing \cup {c}
      /\ UNCHANGED jobs
  BY DEF StartRun
<1>2. c \in CampaignIds
  BY <1>1 DEF Inv, RecordsInv
<1>3. PICK i \in DOMAIN campaigns : campaigns[i].id = c
  BY <1>2 DEF CampaignIds
<1>4. campaigns[i].status = "queued"
  BY <1>1, <1>3 DEF Inv, MirrorInv, MirrorOf
<1>5. campaigns' = WithStatus(c, "running")
  BY <1>3, <1>4 DEF StartRun
<1>6. Inv'
  <2>1. findings' \in [Campaigns -> Nat]
    BY <1>1 DEF Inv, TypeInv
  <2> QED
    BY <1>1, <1>2, <1>5, <2>1, SetStatusInv DEF Inv, TypeInv, MirrorOf, RunStatus
<1>7. Documented!SetBoth(c, "running", "running")
  BY <1>1, <1>6, SetStatusRefines DEF MirrorOf, RunStatus
<1> QED
  BY <1>1, <1>6, <1>7 DEF Documented!Start

(* A finish counts its findings whatever became of the run.                   *)
LEMMA FinishRunStep ==
    ASSUME Inv, NEW c \in Campaigns, NEW status \in RunFinishStatus,
           NEW found \in 0 .. MaxFindings, FinishRun(c, status, found)
    PROVE  Inv' /\ Documented!Finish(c, status, found)
<1>1. /\ c \in executing
      /\ findings' = [findings EXCEPT ![c] = @ + found]
      /\ executing' = executing \ {c}
      /\ UNCHANGED jobs
  BY DEF FinishRun
<1>2. found \in Nat /\ findings' \in [Campaigns -> Nat]
  <2>1. found \in Nat
    OBVIOUS
  <2> QED
    BY <1>1, <2>1 DEF Inv, TypeInv
<1>3. status \in RunStatus /\ MirrorOf(status) = status
  BY DEF RunFinishStatus, RunStatus, MirrorOf
<1>4. CASE runs[c] = "running"
  <2>1. runs' = [runs EXCEPT ![c] = status] /\ campaigns' = WithStatus(c, status)
    BY <1>4 DEF FinishRun
  <2>2. c \in CampaignIds
    BY <1>4 DEF Inv, RecordsInv
  <2>3. Inv'
    BY <1>1, <1>2, <1>3, <2>1, <2>2, SetStatusInv DEF Inv, TypeInv
  <2>4. Documented!SetBoth(c, status, status)
    BY <1>3, <2>1, <2>3, SetStatusRefines
  <2> QED
    BY <1>1, <1>4, <2>3, <2>4 DEF Documented!Finish
<1>5. CASE runs[c] # "running"
  <2>1. UNCHANGED <<campaigns, runs>>
    BY <1>5 DEF FinishRun
  <2>2. Inv'
    BY <1>1, <1>2, <2>1 DEF Inv, TypeInv, RecordsInv, MirrorInv, CampaignIds
  <2>3. UNCHANGED [d \in Campaigns |-> StatusOf(d)]
    BY <2>1, StatusUnchanged
  <2> QED
    BY <1>1, <1>5, <2>1, <2>2, <2>3 DEF Documented!Finish
<1> QED
  BY <1>4, <1>5

(* Every step, stuttering included, preserves the invariant and is a step or a *)
(* stutter of the documented store.                                          *)
LEMMA NextStep ==
    Inv /\ [Next]_vars => Inv' /\ [Documented!Next]_(Documented!vars)
<1> SUFFICES ASSUME Inv, [Next]_vars
             PROVE  Inv' /\ (Documented!Next \/ UNCHANGED Documented!vars)
  OBVIOUS
<1>1. CASE UNCHANGED vars
  <2>1. Inv'
    BY <1>1 DEF vars, Inv, TypeInv, RecordsInv, MirrorInv, CampaignIds
  <2>2. UNCHANGED Documented!vars
    BY <1>1, StatusUnchanged DEF vars, Documented!vars
  <2> QED
    BY <2>1, <2>2
<1>2. ASSUME NEW c \in Campaigns, CreateCampaign(c)
      PROVE  Inv' /\ Documented!Next
  BY <1>2, CreateCampaignStep DEF Documented!Next
<1>3. ASSUME NEW c \in Campaigns, CancelCampaign(c)
      PROVE  Inv' /\ Documented!Next
  BY <1>3, CancelCampaignStep DEF Documented!Next
<1>4. ASSUME NEW c \in Campaigns, NEW w \in Workers, ClaimJob(w, c)
      PROVE  Inv' /\ Documented!Next
  BY <1>4, ClaimJobStep DEF Documented!Next
<1>5. ASSUME NEW c \in Campaigns, StartRun(c)
      PROVE  Inv' /\ Documented!Next
  BY <1>5, StartRunStep DEF Documented!Next
<1>6. ASSUME NEW c \in Campaigns, NEW status \in RunFinishStatus,
             NEW found \in 0 .. MaxFindings, FinishRun(c, status, found)
      PROVE  Inv' /\ Documented!Next
  <2>1. status \in Documented!RunFinishStatus
    BY DEF RunFinishStatus, Documented!RunFinishStatus
  <2>2. Inv' /\ Documented!Finish(c, status, found)
    BY <1>6, FinishRunStep
  <2> QED
    BY <2>1, <2>2 DEF Documented!Next
<1> QED
  BY <1>1, <1>2, <1>3, <1>4, <1>5, <1>6 DEF Next

(* Everything a test can do with MockStore the documented Store allows, and so  *)
(* no test built on MockStore meets what only PgStore does: a cancel that      *)
(* overwrites the outcome of a run that ended meanwhile (store/mock.rs 155-258  *)
(* against postgres.rs).                                                     *)
THEOREM MockStoreIsDocumented == Spec => ImplementsDocumentedStore
<1>1. Init => Documented!Init
  BY DEF Init, StatusOf, CampaignIds, Documented!Init
<1>2. Documented!Init /\ [][Documented!Next]_(Documented!vars) => Documented!Spec
  BY DEF Documented!Spec
<1> QED
  BY <1>1, InitInv, NextStep, PTL DEF Spec, ImplementsDocumentedStore, Documented!Spec

-----------------------------------------------------------------------------
(* CampaignStore_proofs proves its theorems of every implementation.             *)
Promise == INSTANCE CampaignStore_proofs
             WITH campaign <- [c \in Campaigns |-> StatusOf(c)],
                  run <- runs, claimedBy <- jobs, LateCancel <- FALSE

(* The proofs are about the store that is implemented here.                      *)
LEMMA SameStore == Documented!Spec => Promise!Spec
<1>1. Documented!Init => Promise!Init
  BY DEF Documented!Init, Promise!Init
<1>2. ASSUME NEW c \in Campaigns
      PROVE  /\ Documented!Create(c) => Promise!Create(c)
             /\ Documented!Cancel(c) => Promise!Cancel(c)
             /\ \A w : Documented!Claim(w, c) => Promise!Claim(w, c)
             /\ Documented!Start(c) => Promise!Start(c)
             /\ \A status, found :
                  Documented!Finish(c, status, found) => Promise!Finish(c, status, found)
  BY DEF Documented!Create, Documented!Cancel, Documented!Claim, Documented!Start, Documented!Finish,
         Documented!SetBoth, Documented!IsTerminal,
         Promise!Create, Promise!Cancel, Promise!Claim, Promise!Start, Promise!Finish,
         Promise!SetBoth, Promise!IsTerminal
<1>3. \A abandoned : Documented!Abandon(abandoned) => Promise!Abandon(abandoned)
  BY DEF Documented!Abandon, Promise!Abandon
<1>4. Documented!vars = Promise!vars /\ (Documented!vars)' = (Promise!vars)'
  BY DEF Documented!vars, Promise!vars
<1>5. [Documented!Next]_(Documented!vars) => [Promise!Next]_(Promise!vars)
  BY <1>2, <1>3, <1>4
  DEF Documented!Next, Promise!Next, Documented!RunFinishStatus, Promise!RunFinishStatus
<1> QED BY <1>1, <1>5, PTL DEF Documented!Spec, Promise!Spec

(* Under a test nothing changes how a run has ended, not even a late cancel: the  *)
(* status is final, as store/mod.rs:72 says of every Store and PgStore does not   *)
(* keep.                                                                     *)
THEOREM MockStatusIsFinal ==
    Spec => [][\A c \in Campaigns : IsTerminal(runs[c]) => runs'[c] = runs[c]]_vars
<1>1. Promise!Spec =>
        [][\A c \in Campaigns : Promise!IsTerminal(runs[c]) => runs'[c] = runs[c]]_(Promise!vars)
  BY Promise!DocumentedStatusIsFinal
<1>2. [\A c \in Campaigns : Promise!IsTerminal(runs[c]) => runs'[c] = runs[c]]_(Promise!vars)
        => [\A c \in Campaigns : IsTerminal(runs[c]) => runs'[c] = runs[c]]_vars
  BY DEF Promise!IsTerminal, IsTerminal, Promise!vars
<1> QED
  BY <1>1, <1>2, SameStore, MockStoreIsDocumented, PTL DEF ImplementsDocumentedStore
=============================================================================
