-------------------------------- MODULE Model --------------------------------
(***************************************************************************)
(* The status vocabularies of crates/server/src/store/model.rs.  A campaign *)
(* and its one run (runs.campaign_id is UNIQUE) use two words for the       *)
(* moment before any worker took them, "queued" and "pending", and the same *)
(* words afterwards.  "absent" stands for a row that does not exist (yet).  *)
(***************************************************************************)

CampaignStatus == {"queued", "running", "completed", "cancelled", "failed"}

RunStatus == {"pending", "running", "completed", "cancelled", "failed"}

(* What a worker may report through finish_run: RunFinishStatus.            *)
RunFinishStatus == {"completed", "cancelled", "failed"}

(* CampaignStatus::is_terminal; the same words are terminal for a run.      *)
IsTerminal(status) == status \in {"completed", "cancelled", "failed"}

(* The campaign status that mirrors a run status.                           *)
MirrorOf(runStatus) == IF runStatus = "pending" THEN "queued" ELSE runStatus

=============================================================================
