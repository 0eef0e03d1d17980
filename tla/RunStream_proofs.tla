--------------------------- MODULE RunStream_proofs ---------------------------
(***************************************************************************)
(* Proofs about RunStream for any numbers of campaigns, workers and requests    *)
(* and any capacity of the channels.                                          *)
(*                                                                         *)
(* What a client is told is tied to what is persisted by the order in which      *)
(* Worker::process does things.  Inv records that order: CampaignInv(c) says     *)
(* which events a run's channel carries at which point of process, and that an   *)
(* outcome comes last; RequestInv(s) says what a client has seen of them.        *)
(***************************************************************************)
EXTENDS RunStream, TLAPS

Outcomes == {"completed", "failed"}

(* finish_run has been called, or never will be.                              *)
Over == {"persisted", "lost", "closed", "returned", "abandoned", "crashed"}

(* Worker::process after a successful start_run.                              *)
Begun == {"started", "opened", "running", "sandboxed", "parsed", "completed",
          "failed", "announced", "persisted", "lost", "closed", "returned"}

HasChannel == Begun \ {"started", "closed", "returned"}

Announced == {"announced", "persisted", "lost", "closed", "returned"}

Has(c, event) == \E i \in 1..Len(sent[c]) : sent[c][i] = event

CampaignInv(c) ==
    /\ campaign[c] = "absent" <=> run[c] = "absent"
    /\ job[c] \in Begun => run[c] \notin {"absent", "pending"}
    /\ c \in channels => job[c] \in HasChannel
    /\ job[c] \notin Over => findings[c] = 0
    /\ findings[c] <= Found(c)
    /\ job[c] = "persisted" => findings[c] = Found(c)
    /\ Has(c, "iterations") => job[c] \in {"parsed", "completed", "announced"} \cup Over
    /\ (Has(c, "completed") \/ Has(c, "failed")) => job[c] \in {"announced"} \cup Over
    /\ job[c] \in {"parsed", "completed"} => Has(c, "iterations")
    /\ Has(c, "completed") => Has(c, "iterations")
    /\ Has(c, "failed") => ~Has(c, "iterations")
    /\ ~Has(c, "cancelled")
    /\ run[c] \in Outcomes => run[c] = Outcome(c) /\ job[c] \in Over
    /\ (Has(c, "completed") \/ Has(c, "failed")) => run[c] \notin {"absent", "pending"}
    /\ job[c] = "persisted" => run[c] \in Outcomes \cup {"cancelled"}
    /\ job[c] \in Over => c \notin executing
    /\ job[c] \in Announced => Len(sent[c]) > 0 /\ sent[c][Len(sent[c])] \in Outcomes
    /\ \A i \in 1..Len(sent[c]) : i # Len(sent[c]) => sent[c][i] \notin Outcomes

InFlightOrTold(s) == InFlight(s) \/ watch[s].ended \in {"outcome", "closed"}

RequestInv(s) ==
    LET w == watch[s] IN
    /\ InFlightOrTold(s) => w.c \in Campaigns
    /\ InFlight(s) => w.ended = "no"
    /\ w.progress \notin Outcomes
    /\ "cancelled" \in {w.last, w.progress} =>
         w.c \in Campaigns /\ run[w.c] = "cancelled"
    /\ (InFlight(s) /\ w.last \in Outcomes) => job[w.c] \in Over
    /\ (w.phase = "streaming" /\ w.last \in Outcomes) =>
         \A i \in 1..Len(sent[w.c]) : i > w.next => sent[w.c][i] # "iterations"
    /\ w.phase = "streaming" =>
         /\ w.from <= w.next /\ w.next <= Len(sent[w.c])
         /\ w.next > w.from => sent[w.c][w.next] \notin Outcomes
    /\ w.ended = "outcome" => w.told \in Outcomes /\ Has(w.c, w.told)
    /\ w.ended = "closed" => job[w.c] = "returned" /\ w.from = Len(sent[w.c])

Inv ==
    /\ TypeOK
    /\ \A c \in Campaigns : CampaignInv(c)
    /\ \A s \in Requests : RequestInv(s)

-----------------------------------------------------------------------------
(* The initial states satisfy the invariant.                                 *)
LEMMA InitInv == Init => Inv
<1> SUFFICES ASSUME Init PROVE Inv
  OBVIOUS
<1> USE DEF Init, Store!Init
<1>1. TypeOK
  BY DEF TypeOK, Watches, Idle, Statuses, JobPhases
<1>2. ASSUME NEW c \in Campaigns PROVE CampaignInv(c)
  <2>1. Len(sent[c]) = 0
    OBVIOUS
  <2>2. /\ job[c] = "queued" /\ run[c] = "absent" /\ campaign[c] = "absent"
        /\ findings[c] = 0 /\ c \notin channels
    OBVIOUS
  <2>3. \A e : ~Has(c, e)
    BY <2>1 DEF Has
  <2>4. Found(c) = 0
    BY <2>1 DEF Found
  <2> QED BY <2>1, <2>2, <2>3, <2>4
      DEF CampaignInv, Begun, HasChannel, Over, Outcomes, Announced
<1>3. ASSUME NEW s \in Requests PROVE RequestInv(s)
  BY DEF RequestInv, InFlightOrTold, InFlight, Idle, Outcomes
<1> QED BY <1>1, <1>2, <1>3 DEF Inv

(* What an event appended to a channel changes about what it carries.           *)
LEMMA AppendHas ==
    ASSUME NEW c \in Campaigns, NEW event, sent[c] \in Seq(Events), event \in Events,
           sent'[c] = Append(sent[c], event)
    PROVE  /\ Len(sent'[c]) = Len(sent[c]) + 1 /\ Len(sent[c]) \in Nat
           /\ \A i \in 1..Len(sent[c]) : sent'[c][i] = sent[c][i]
           /\ sent'[c][Len(sent[c]) + 1] = event
           /\ \A e : Has(c, e)' <=> (Has(c, e) \/ e = event)
<1>1. /\ Len(sent'[c]) = Len(sent[c]) + 1 /\ Len(sent[c]) \in Nat
      /\ \A i \in 1..Len(sent[c]) : sent'[c][i] = sent[c][i]
      /\ sent'[c][Len(sent[c]) + 1] = event
  OBVIOUS
<1>2. ASSUME NEW e PROVE Has(c, e)' <=> (Has(c, e) \/ e = event)
  BY <1>1 DEF Has
<1> QED BY <1>1, <1>2

(***************************************************************************)
(* A step of the store or of Worker::process concerns one run; its channel       *)
(* grows only while process is not over.                                      *)
(***************************************************************************)
Untouched(d) ==
    /\ campaign'[d] = campaign[d] /\ run'[d] = run[d] /\ findings'[d] = findings[d]
    /\ job'[d] = job[d] /\ sent'[d] = sent[d]
    /\ d \in channels' <=> d \in channels
    /\ d \in executing' <=> d \in executing

Grows(c) ==
    /\ \/ sent'[c] = sent[c]
       \/ job[c] \notin Over /\ \E e \in Events : sent'[c] = Append(sent[c], e)
    /\ job[c] \in Over => job'[c] \in Over
    /\ job[c] = "returned" => job'[c] = "returned"
    /\ run[c] = "cancelled" => run'[c] = "cancelled"

(* What is true of a run nobody touches stays true.                           *)
LEMMA UntouchedInv ==
    ASSUME NEW d \in Campaigns, CampaignInv(d), Untouched(d)
    PROVE  CampaignInv(d)'
<1>1. \A e : Has(d, e)' <=> Has(d, e)
  BY DEF Untouched, Has
<1>2. Found(d)' = Found(d) /\ Outcome(d)' = Outcome(d)
  BY DEF Untouched, Found, Outcome
<1> QED BY <1>1, <1>2 DEF CampaignInv, Untouched

(* What a client has seen stays true while the channels grow.                  *)
LEMMA RequestKept ==
    ASSUME TypeOK, NEW s \in Requests, RequestInv(s), watch'[s] = watch[s],
           \A c \in Campaigns : Grows(c)
    PROVE  RequestInv(s)'
<1> DEFINE w == watch[s]
           c == w.c
<1>0. w \in Watches /\ w.next \in Nat /\ w.from \in Nat
  BY DEF TypeOK, Watches
<1>1. InFlightOrTold(s)' = InFlightOrTold(s) /\ InFlight(s)' = InFlight(s)
  BY DEF InFlightOrTold, InFlight
<1>2. InFlightOrTold(s) => c \in Campaigns
  BY DEF RequestInv
<1>3. ASSUME c \in Campaigns PROVE sent[c] \in Seq(Events) /\ Grows(c)
  BY <1>3 DEF TypeOK
<1>4. ASSUME c \in Campaigns
      PROVE  /\ Len(sent[c]) \in Nat /\ Len(sent'[c]) \in Nat
             /\ Len(sent[c]) <= Len(sent'[c])
             /\ \A i \in 1..Len(sent[c]) : sent'[c][i] = sent[c][i]
             /\ \A e : Has(c, e) => Has(c, e)'
             /\ job[c] \in Over => sent'[c] = sent[c] /\ job'[c] \in Over
             /\ job[c] = "returned" => job'[c] = "returned" /\ sent'[c] = sent[c]
  <2>1. CASE sent'[c] = sent[c]
    BY <1>3, <1>4, <2>1 DEF Grows, Has
  <2>2. CASE job[c] \notin Over /\ \E e \in Events : sent'[c] = Append(sent[c], e)
    <3>1. PICK e \in Events : sent'[c] = Append(sent[c], e)
      BY <2>2
    <3>2. /\ Len(sent'[c]) = Len(sent[c]) + 1 /\ Len(sent[c]) \in Nat
          /\ \A i \in 1..Len(sent[c]) : sent'[c][i] = sent[c][i]
          /\ \A x : Has(c, x) => Has(c, x)'
      BY <1>3, <1>4, <3>1, AppendHas
    <3> QED BY <2>2, <3>2 DEF Over
  <2> QED BY <1>3, <1>4, <2>1, <2>2 DEF Grows
<1>5. InFlightOrTold(s)' => c \in Campaigns
  BY <1>1, <1>2
<1>6. w.progress \notin Outcomes /\ (InFlight(s)' => w.ended = "no")
  BY <1>1 DEF RequestInv
<1>7. (InFlight(s)' /\ w.last \in Outcomes) => job'[c] \in Over
  BY <1>1, <1>2, <1>4 DEF RequestInv, InFlightOrTold
<1>8. (w.phase = "streaming" /\ w.last \in Outcomes) =>
        \A i \in 1..Len(sent'[c]) : i > w.next => sent'[c][i] # "iterations"
  <2> SUFFICES ASSUME w.phase = "streaming", w.last \in Outcomes
               PROVE  \A i \in 1..Len(sent'[c]) : i > w.next => sent'[c][i] # "iterations"
    OBVIOUS
  <2>1. c \in Campaigns /\ job[c] \in Over
    BY <1>2 DEF RequestInv, InFlightOrTold, InFlight
  <2>2. sent'[c] = sent[c]
    BY <1>4, <2>1
  <2> QED BY <2>2 DEF RequestInv
<1>9. w.phase = "streaming" =>
        /\ w.from <= w.next /\ w.next <= Len(sent'[c])
        /\ w.next > w.from => sent'[c][w.next] \notin Outcomes
  <2> SUFFICES ASSUME w.phase = "streaming"
               PROVE  /\ w.from <= w.next /\ w.next <= Len(sent'[c])
                      /\ w.next > w.from => sent'[c][w.next] \notin Outcomes
    OBVIOUS
  <2>1. c \in Campaigns
    BY <1>2 DEF InFlightOrTold, InFlight
  <2>2. /\ w.from <= w.next /\ w.next <= Len(sent[c])
        /\ w.next > w.from => sent[c][w.next] \notin Outcomes
    BY DEF RequestInv
  <2> HIDE DEF w, c
  <2> QED BY <1>0, <1>4, <2>1, <2>2
<1>10. w.ended = "outcome" => w.told \in Outcomes /\ Has(c, w.told)'
  BY <1>2, <1>4 DEF RequestInv, InFlightOrTold
<1>11. w.ended = "closed" => job'[c] = "returned" /\ w.from = Len(sent'[c])
  BY <1>2, <1>4 DEF RequestInv, InFlightOrTold
<1>12. (Has(watch[s].c, watch[s].told))' <=> Has(c, w.told)'
  BY DEF Has
<1>13. "cancelled" \in {w.last, w.progress} =>
         c \in Campaigns /\ run'[c] = "cancelled"
  BY <1>3 DEF RequestInv, Grows
<1> QED BY <1>1, <1>5, <1>6, <1>7, <1>8, <1>9, <1>10, <1>11, <1>12, <1>13 DEF RequestInv

(* A step that keeps its own run's invariant and leaves the others alone.        *)
LEMMA CampaignStep ==
    ASSUME Inv, TypeOK', NEW c \in Campaigns, watch' = watch,
           \A d \in Campaigns : d # c => Untouched(d),
           CampaignInv(c)', Grows(c)
    PROVE  Inv'
<1>1. ASSUME NEW d \in Campaigns PROVE CampaignInv(d)'
  BY UntouchedInv DEF Inv
<1>2. \A d \in Campaigns : Grows(d)
  BY DEF Grows, Untouched
<1>3. ASSUME NEW s \in Requests PROVE RequestInv(s)'
  BY <1>2, RequestKept DEF Inv
<1> QED BY <1>1, <1>3 DEF Inv

(* Advance moves one job and no other.                                        *)
LEMMA AdvanceJob ==
    ASSUME TypeOK, NEW c \in Campaigns, NEW from, NEW to \in JobPhases,
           Advance(c, from, to)
    PROVE  /\ job[c] = from /\ job'[c] = to
           /\ job' \in [Campaigns -> JobPhases]
           /\ \A d \in Campaigns : d # c => job'[d] = job[d]
BY DEF Advance, TypeOK

(* A step of process that only moves on, neither reporting nor persisting.      *)
LEMMA MovesOn ==
    ASSUME Inv, NEW c \in Campaigns, NEW from \in JobPhases, NEW to \in JobPhases,
           Advance(c, from, to),
           UNCHANGED <<server, storeVars, sent, watch>>,
           channels' \subseteq Campaigns,
           \A d \in Campaigns : d # c => (d \in channels' <=> d \in channels),
           to \in Begun => from \in Begun,
           c \in channels' => to \in HasChannel,
           from \in Over <=> to \in Over,
           from # "returned", to # "persisted",
           from \in {"parsed", "completed", "announced"} =>
             to \in {"parsed", "completed", "announced"} \cup Over,
           to \in {"parsed", "completed"} => from \in {"parsed", "completed"},
           to \in Announced => from \in Announced,
           from = "announced" => to \in {"announced"} \cup Over
    PROVE  Inv'
<1>0. TypeOK /\ CampaignInv(c)
  BY DEF Inv
<1>1. /\ job[c] = from /\ job'[c] = to
      /\ job' \in [Campaigns -> JobPhases]
      /\ \A d \in Campaigns : d # c => job'[d] = job[d]
  BY <1>0, AdvanceJob
<1>2. /\ campaign' = campaign /\ run' = run /\ findings' = findings
      /\ claimedBy' = claimedBy /\ executing' = executing
      /\ sent' = sent /\ watch' = watch /\ server' = server
  BY DEF storeVars
<1>3. TypeOK'
  BY <1>0, <1>1, <1>2 DEF TypeOK
<1>4. \A d \in Campaigns : d # c => Untouched(d)
  BY <1>1, <1>2 DEF Untouched
<1>5. Grows(c)
  BY <1>1, <1>2 DEF Grows
<1>6. CampaignInv(c)'
  <2>1. \A e : Has(c, e)' <=> Has(c, e)
    BY <1>2 DEF Has
  <2>2. Found(c)' = Found(c) /\ Outcome(c)' = Outcome(c)
    BY <1>2 DEF Found, Outcome
  <2> QED BY <1>0, <1>1, <1>2, <2>1, <2>2 DEF CampaignInv
<1> QED BY <1>2, <1>3, <1>4, <1>5, <1>6, CampaignStep

(* A step of process that reports an event and moves on.                      *)
LEMMA ReportsAndMovesOn ==
    ASSUME Inv, NEW c \in Campaigns, NEW from \in Begun \ Over, NEW to \in Begun \ Over,
           NEW event \in Events, Advance(c, from, to), Emit(c, event),
           from # "announced",
           c \in channels => to \in HasChannel,
           from \in {"parsed", "completed"} => to \in {"parsed", "completed", "announced"},
           event = "iterations" => to \in {"parsed", "completed"},
           to \in {"parsed", "completed"} =>
             from \in {"parsed", "completed"} \/ event = "iterations",
           event \in Outcomes <=> to = "announced",
           event = "completed" => from = "completed",
           event = "failed" => from = "failed",
           event # "cancelled"
    PROVE  Inv'
<1>0. TypeOK /\ CampaignInv(c) /\ sent[c] \in Seq(Events)
  BY DEF Inv, TypeOK
<1>1. /\ job[c] = from /\ job'[c] = to
      /\ job' \in [Campaigns -> JobPhases]
      /\ \A d \in Campaigns : d # c => job'[d] = job[d]
  BY <1>0, AdvanceJob DEF Begun, JobPhases
<1>2. /\ campaign' = campaign /\ run' = run /\ findings' = findings
      /\ claimedBy' = claimedBy /\ executing' = executing
      /\ channels' = channels /\ watch' = watch /\ server' = server
  BY DEF storeVars, Emit
<1>3. /\ sent'[c] = Append(sent[c], event) /\ sent' \in [Campaigns -> Seq(Events)]
      /\ \A d \in Campaigns : d # c => sent'[d] = sent[d]
  BY <1>0 DEF Emit, TypeOK
<1>4. TypeOK'
  BY <1>0, <1>1, <1>2, <1>3 DEF TypeOK
<1>5. \A d \in Campaigns : d # c => Untouched(d)
  BY <1>1, <1>2, <1>3 DEF Untouched
<1>6. Grows(c)
  BY <1>1, <1>2, <1>3 DEF Grows, Over
<1>7. CampaignInv(c)'
  <2>1. /\ Len(sent'[c]) = Len(sent[c]) + 1 /\ Len(sent[c]) \in Nat
        /\ \A i \in 1..Len(sent[c]) : sent'[c][i] = sent[c][i]
        /\ sent'[c][Len(sent[c]) + 1] = event
        /\ \A e : Has(c, e)' <=> (Has(c, e) \/ e = event)
    BY <1>0, <1>3, AppendHas
  <2>2. findings'[c] = 0 /\ findings'[c] <= Found(c)'
    BY <1>0, <1>1, <1>2 DEF CampaignInv, Found
  <2>3. run'[c] \notin Outcomes
    BY <1>0, <1>1, <1>2 DEF CampaignInv
  <2>4. ~Has(c, "completed") /\ ~Has(c, "failed")
    BY <1>0, <1>1 DEF CampaignInv
  <2>5. \A i \in 1..Len(sent'[c]) : i # Len(sent'[c]) => sent'[c][i] \notin Outcomes
    <3>1. \A i \in 1..Len(sent[c]) : sent[c][i] \notin Outcomes
      BY <2>4 DEF Has, Outcomes
    <3> QED BY <2>1, <3>1
  <2>6. to \in Announced => Len(sent'[c]) > 0 /\ sent'[c][Len(sent'[c])] \in Outcomes
    BY <2>1 DEF Announced, Over
  <2>7. Has(c, "completed")' => Has(c, "iterations")'
    BY <1>0, <1>1, <2>1, <2>4 DEF CampaignInv
  <2>8. Has(c, "failed")' => ~Has(c, "iterations")'
    BY <1>0, <1>1, <2>1, <2>4 DEF CampaignInv, Over
  <2>9. Has(c, "iterations")' => to \in {"parsed", "completed", "announced"} \cup Over
    BY <1>0, <1>1, <2>1 DEF CampaignInv
  <2>10. (Has(c, "completed")' \/ Has(c, "failed")') => to \in {"announced"} \cup Over
    BY <2>1, <2>4 DEF Outcomes
  <2>11. to \in {"parsed", "completed"} => Has(c, "iterations")'
    BY <1>0, <1>1, <2>1 DEF CampaignInv
  <2>12. ~Has(c, "cancelled")'
    BY <1>0, <2>1 DEF CampaignInv
  <2>13. /\ campaign'[c] = "absent" <=> run'[c] = "absent"
         /\ run'[c] \notin {"absent", "pending"}
         /\ c \in channels' => to \in HasChannel
         /\ to # "persisted"
    BY <1>0, <1>1, <1>2 DEF CampaignInv, Over
  <2> QED BY <1>1, <2>2, <2>3, <2>5, <2>6, <2>7, <2>8, <2>9, <2>10, <2>11, <2>12, <2>13
      DEF CampaignInv
<1> QED BY <1>2, <1>4, <1>5, <1>6, <1>7, CampaignStep

(* The steps of process between start_run and finish_run, and after it.         *)
LEMMA ProcessStepInv ==
    ASSUME Inv, NEW c \in Campaigns,
           \/ DropJob(c) \/ OpenChannel(c) \/ EmitRunning(c)
           \/ EmitLog(c) \/ SandboxFails(c) \/ EmitIterations(c)
           \/ EmitFinding(c) \/ NoFinding(c) \/ AnnounceOutcome(c)
           \/ CloseChannel(c) \/ ProcessReturns(c)
    PROVE  Inv'
<1>0. channels \subseteq Campaigns /\ (c \in channels => job[c] \in HasChannel)
  BY DEF Inv, TypeOK, CampaignInv
<1> USE DEF Begun, HasChannel, Over, Announced, Outcomes, Events, Reports, RunStatus
<1>1. CASE DropJob(c)
  <2>1. job[c] = "claimed"
    BY <1>1 DEF DropJob, Advance
  <2> QED BY <1>0, <1>1, <2>1, MovesOn DEF DropJob, JobPhases
<1>2. CASE OpenChannel(c)
  BY <1>0, <1>2, MovesOn DEF OpenChannel, JobPhases
<1>3. CASE EmitRunning(c)
  BY <1>3, ReportsAndMovesOn DEF EmitRunning
<1>4. CASE EmitLog(c)
  BY <1>4, ReportsAndMovesOn DEF EmitLog
<1>5. CASE SandboxFails(c)
  BY <1>0, <1>5, MovesOn DEF SandboxFails, JobPhases
<1>6. CASE EmitIterations(c)
  BY <1>6, ReportsAndMovesOn DEF EmitIterations
<1>7. CASE EmitFinding(c)
  BY <1>7, ReportsAndMovesOn DEF EmitFinding
<1>8. CASE NoFinding(c)
  BY <1>0, <1>8, MovesOn DEF NoFinding, JobPhases
<1>9. CASE AnnounceOutcome(c)
  <2>1. PICK outcome \in {"completed", "failed"} :
          Advance(c, outcome, "announced") /\ Emit(c, outcome)
    BY <1>9 DEF AnnounceOutcome
  <2>2. CASE outcome = "completed"
    BY <2>1, <2>2, ReportsAndMovesOn
  <2>3. CASE outcome = "failed"
    BY <2>1, <2>3, ReportsAndMovesOn
  <2> QED BY <2>1, <2>2, <2>3
<1>10. CASE CloseChannel(c)
  <2>1. PICK phase \in {"persisted", "lost"} : Advance(c, phase, "closed")
    BY <1>10 DEF CloseChannel
  <2>2. /\ UNCHANGED <<server, storeVars, sent, watch>> /\ channels' = channels \ {c}
    BY <1>10 DEF CloseChannel
  <2>3. CASE phase = "persisted"
    BY <1>0, <2>1, <2>2, <2>3, MovesOn DEF JobPhases
  <2>4. CASE phase = "lost"
    BY <1>0, <2>1, <2>2, <2>4, MovesOn DEF JobPhases
  <2> QED BY <2>1, <2>3, <2>4
<1>11. CASE ProcessReturns(c)
  <2>1. c \notin channels
    BY <1>0, <1>11 DEF ProcessReturns, Advance
  <2> QED BY <1>0, <1>11, <2>1, MovesOn DEF ProcessReturns, JobPhases
<1> QED BY <1>1, <1>2, <1>3, <1>4, <1>5, <1>6, <1>7, <1>8, <1>9, <1>10, <1>11

(* A step that leaves job, channels and sent of the run alone keeps what the     *)
(* channel carries.                                                          *)
LEMMA SameChannel ==
    ASSUME NEW c \in Campaigns, sent'[c] = sent[c]
    PROVE  /\ \A e : Has(c, e)' <=> Has(c, e)
           /\ Found(c)' = Found(c) /\ Outcome(c)' = Outcome(c)
BY DEF Has, Found, Outcome

(* create_campaign and cancel_campaign.                                       *)
LEMMA ApiStepInv ==
    ASSUME Inv, NEW c \in Campaigns, CreateCampaign(c) \/ CancelCampaign(c)
    PROVE  Inv'
<1>0. TypeOK /\ CampaignInv(c)
  BY DEF Inv
<1>1. /\ job' = job /\ channels' = channels /\ sent' = sent /\ watch' = watch
      /\ server' = server /\ findings' = findings /\ claimedBy' = claimedBy
      /\ executing' = executing
  BY DEF CreateCampaign, CancelCampaign, Store!Create, Store!Cancel
<1>2. PICK ca \in {"queued", "cancelled"}, r \in {"pending", "cancelled"} :
        Store!SetBoth(c, ca, r) /\ (r = "pending" => campaign[c] = "absent")
  BY DEF CreateCampaign, CancelCampaign, Store!Create, Store!Cancel
<1>3. /\ campaign' = [campaign EXCEPT ![c] = ca] /\ run' = [run EXCEPT ![c] = r]
  BY <1>2 DEF Store!SetBoth
<1>4. /\ campaign'[c] = ca /\ run'[c] = r
      /\ campaign' \in [Campaigns -> CampaignStatus \cup {"absent"}]
      /\ run' \in [Campaigns -> RunStatus \cup {"absent"}]
      /\ \A d \in Campaigns : d # c => campaign'[d] = campaign[d] /\ run'[d] = run[d]
  BY <1>0, <1>3 DEF TypeOK, CampaignStatus, RunStatus
<1>5. TypeOK'
  BY <1>0, <1>1, <1>4 DEF TypeOK
<1>6. \A d \in Campaigns : d # c => Untouched(d)
  BY <1>1, <1>4 DEF Untouched
<1>7. Grows(c)
  BY <1>0, <1>1, <1>2, <1>4 DEF Grows, CampaignInv
<1>8. CampaignInv(c)'
  <2>1. /\ \A e : Has(c, e)' <=> Has(c, e)
        /\ Found(c)' = Found(c) /\ Outcome(c)' = Outcome(c)
    BY <1>1, SameChannel
  <2>2. /\ job[c] \in Begun => r # "pending"
        /\ (Has(c, "completed") \/ Has(c, "failed")) => r # "pending"
        /\ job[c] = "persisted" => r = "cancelled"
    BY <1>0, <1>2 DEF CampaignInv, Begun
  <2> QED BY <1>0, <1>1, <1>4, <2>1, <2>2 DEF CampaignInv, Outcomes
<1> QED BY <1>1, <1>5, <1>6, <1>7, <1>8, CampaignStep

(* claim_job and start_run, with the ways they can fail.                        *)
LEMMA StartStepInv ==
    ASSUME Inv, NEW c \in Campaigns, ClaimJob(c) \/ StartRun(c) \/ StartRunRefused(c)
    PROVE  Inv'
<1>0. TypeOK /\ CampaignInv(c)
  BY DEF Inv
<1>1. PICK from \in {"queued", "claimed"}, to \in {"claimed", "started", "dropped"} :
        Advance(c, from, to) /\ (from = "queued" => to = "claimed")
  BY DEF ClaimJob, StartRun, StartRunRefused
<1>2. /\ job[c] = from /\ job'[c] = to
      /\ job' \in [Campaigns -> JobPhases]
      /\ \A d \in Campaigns : d # c => job'[d] = job[d]
  BY <1>0, <1>1, AdvanceJob DEF JobPhases
<1>3. /\ channels' = channels /\ sent' = sent /\ watch' = watch /\ server' = server
  BY DEF ClaimJob, StartRun, StartRunRefused
<1>4. c \notin channels
  BY <1>0, <1>2 DEF CampaignInv, HasChannel, Begun
<1>5. /\ \A e : Has(c, e)' <=> Has(c, e)
      /\ Found(c)' = Found(c) /\ Outcome(c)' = Outcome(c)
      /\ Found(c) >= 0
  BY <1>3, SameChannel DEF Found
<1>6. (run[c] = "cancelled" => run'[c] = "cancelled") => Grows(c)
  BY <1>2, <1>3 DEF Grows, Over
<1>7. /\ ~Has(c, "iterations") /\ ~Has(c, "completed") /\ ~Has(c, "failed")
      /\ ~Has(c, "cancelled") /\ findings[c] = 0 /\ run[c] \notin Outcomes
      /\ campaign[c] = "absent" <=> run[c] = "absent"
      /\ \A i \in 1..Len(sent[c]) : i # Len(sent[c]) => sent[c][i] \notin Outcomes
  BY <1>0, <1>2 DEF CampaignInv, Over
<1>8. CASE to # "started" /\ UNCHANGED <<campaign, run, findings, executing>>
           /\ claimedBy' \in [Campaigns -> Workers \cup {None}]
  <2>1. TypeOK'
    BY <1>0, <1>2, <1>3, <1>8 DEF TypeOK
  <2>2. \A d \in Campaigns : d # c => Untouched(d)
    BY <1>2, <1>3, <1>8 DEF Untouched
  <2>3. CampaignInv(c)'
    BY <1>2, <1>3, <1>4, <1>5, <1>7, <1>8 DEF CampaignInv, Begun, Over, Announced
  <2> QED BY <1>3, <1>6, <1>8, <2>1, <2>2, <2>3, CampaignStep
<1>9. CASE /\ Store!Start(c)
           /\ executing' \in {executing, executing \cup {c}}
  <2>1. /\ campaign' = [campaign EXCEPT ![c] = "running"]
        /\ run' = [run EXCEPT ![c] = "running"]
        /\ findings' = [findings EXCEPT ![c] = 0] /\ claimedBy' = claimedBy
        /\ run[c] = "pending"
    BY <1>9 DEF Store!Start, Store!SetBoth
  <2>2. /\ campaign'[c] = "running" /\ run'[c] = "running" /\ findings'[c] = 0
        /\ campaign' \in [Campaigns -> CampaignStatus \cup {"absent"}]
        /\ run' \in [Campaigns -> RunStatus \cup {"absent"}]
        /\ findings' \in [Campaigns -> Nat]
        /\ \A d \in Campaigns : d # c => /\ campaign'[d] = campaign[d]
                                         /\ run'[d] = run[d] /\ findings'[d] = findings[d]
    BY <1>0, <2>1 DEF TypeOK, CampaignStatus, RunStatus
  <2>3. executing' \subseteq Campaigns
    BY <1>0, <1>9 DEF TypeOK
  <2>4. TypeOK'
    BY <1>0, <1>2, <1>3, <2>1, <2>2, <2>3 DEF TypeOK
  <2>5. \A d \in Campaigns : d # c => Untouched(d)
    BY <1>2, <1>3, <1>9, <2>2 DEF Untouched
  <2>6. CampaignInv(c)'
    BY <1>2, <1>3, <1>4, <1>5, <1>7, <2>2 DEF CampaignInv, Over, Announced, Outcomes
  <2> QED BY <1>3, <1>6, <2>1, <2>4, <2>5, <2>6, CampaignStep
<1>10. CASE ClaimJob(c)
  <2>1. PICK w \in Workers : Store!Claim(w, c)
    BY <1>10 DEF ClaimJob
  <2>2. claimedBy' \in [Campaigns -> Workers \cup {None}]
    BY <1>0, <2>1 DEF Store!Claim, TypeOK
  <2>3. to # "started"
    BY <1>2, <1>10 DEF ClaimJob, Advance
  <2> QED BY <1>8, <2>1, <2>2, <2>3 DEF Store!Claim
<1>11. CASE StartRun(c)
  BY <1>9, <1>11 DEF StartRun
<1>12. CASE StartRunRefused(c)
  <2>1. CASE Store!Start(c) /\ executing' = executing
    BY <1>9, <2>1
  <2>2. CASE UNCHANGED storeVars
    <3>1. to = "dropped"
      BY <1>0, <1>2, <1>12 DEF StartRunRefused, Advance, TypeOK
    <3> QED BY <1>0, <1>8, <2>2, <3>1 DEF storeVars, TypeOK
  <2> QED BY <1>12, <2>1, <2>2 DEF StartRunRefused
<1> QED BY <1>10, <1>11, <1>12

(* finish_run, with the ways it can fail.                                      *)
LEMMA FinishStepInv ==
    ASSUME Inv, NEW c \in Campaigns, FinishRun(c) \/ FinishRunFails(c)
    PROVE  Inv'
<1>0. TypeOK /\ CampaignInv(c)
  BY DEF Inv
<1>1. PICK to \in {"persisted", "lost"} : Advance(c, "announced", to)
  BY DEF FinishRun, FinishRunFails
<1>2. /\ job[c] = "announced" /\ job'[c] = to
      /\ job' \in [Campaigns -> JobPhases]
      /\ \A d \in Campaigns : d # c => job'[d] = job[d]
  BY <1>0, <1>1, AdvanceJob DEF JobPhases
<1>3. /\ channels' = channels /\ sent' = sent /\ watch' = watch /\ server' = server
  BY DEF FinishRun, FinishRunFails
<1>4. /\ \A e : Has(c, e)' <=> Has(c, e)
      /\ Found(c)' = Found(c) /\ Outcome(c)' = Outcome(c)
      /\ Found(c) \in {0, 1} /\ Outcome(c) \in Outcomes
  BY <1>3, SameChannel DEF Found, Outcome, Outcomes
<1>5. (run[c] = "cancelled" => run'[c] = "cancelled") => Grows(c)
  BY <1>2, <1>3 DEF Grows, Over
<1>6. /\ findings[c] = 0 /\ run[c] \notin Outcomes
      /\ run[c] \notin {"absent", "pending"}
  BY <1>0, <1>2 DEF CampaignInv, Over, Begun
<1>7. CASE Store!Finish(c, Outcome(c), Found(c))
  <2>1. /\ findings' = [findings EXCEPT ![c] = @ + Found(c)]
        /\ executing' = executing \ {c} /\ claimedBy' = claimedBy
    BY <1>7 DEF Store!Finish
  <2>2. \/ /\ campaign' = [campaign EXCEPT ![c] = Outcome(c)]
           /\ run' = [run EXCEPT ![c] = Outcome(c)] /\ run[c] = "running"
        \/ campaign' = campaign /\ run' = run /\ run[c] # "running"
    BY <1>7 DEF Store!Finish, Store!SetBoth
  <2>3. /\ campaign' \in [Campaigns -> CampaignStatus \cup {"absent"}]
        /\ run' \in [Campaigns -> RunStatus \cup {"absent"}]
        /\ \A d \in Campaigns : d # c => campaign'[d] = campaign[d] /\ run'[d] = run[d]
        /\ \/ campaign'[c] = Outcome(c) /\ run'[c] = Outcome(c) /\ run[c] = "running"
           \/ campaign'[c] = campaign[c] /\ run'[c] = run[c] /\ run[c] = "cancelled"
    BY <1>0, <1>4, <1>6, <2>2 DEF TypeOK, CampaignStatus, RunStatus, Outcomes
  <2>4. /\ findings'[c] = Found(c) /\ findings' \in [Campaigns -> Nat]
        /\ \A d \in Campaigns : d # c => findings'[d] = findings[d]
    BY <1>0, <1>4, <1>6, <2>1 DEF TypeOK
  <2>5. TypeOK'
    BY <1>0, <1>2, <1>3, <2>1, <2>3, <2>4 DEF TypeOK
  <2>6. \A d \in Campaigns : d # c => Untouched(d)
    BY <1>2, <1>3, <2>1, <2>3, <2>4 DEF Untouched
  <2>7. /\ campaign'[c] = "absent" <=> run'[c] = "absent"
        /\ run'[c] \notin {"absent", "pending"}
        /\ run'[c] \in Outcomes => run'[c] = Outcome(c)
        /\ run'[c] \in Outcomes \cup {"cancelled"}
    BY <1>0, <1>4, <1>6, <2>3 DEF CampaignInv, Outcomes
  <2>8. CampaignInv(c)'
    BY <1>0, <1>2, <1>3, <1>4, <2>1, <2>4, <2>7
    DEF CampaignInv, Over, Announced, HasChannel, Begun
  <2> QED BY <1>3, <1>5, <2>3, <2>5, <2>6, <2>8, CampaignStep
<1>8. CASE Store!Abandon({c}) /\ to = "lost"
  <2>1. /\ campaign' = campaign /\ run' = run /\ findings' = findings
        /\ claimedBy' = claimedBy /\ executing' = executing \ {c}
    BY <1>8 DEF Store!Abandon
  <2>2. TypeOK'
    BY <1>0, <1>2, <1>3, <2>1 DEF TypeOK
  <2>3. \A d \in Campaigns : d # c => Untouched(d)
    BY <1>2, <1>3, <2>1 DEF Untouched
  <2>4. CampaignInv(c)'
    BY <1>0, <1>2, <1>3, <1>4, <1>8, <2>1
    DEF CampaignInv, Over, Announced, HasChannel, Begun
  <2> QED BY <1>3, <1>5, <2>1, <2>2, <2>3, <2>4, CampaignStep
<1>9. CASE FinishRun(c)
  BY <1>7, <1>9 DEF FinishRun
<1>10. CASE FinishRunFails(c)
  <2>1. to = "lost"
    BY <1>0, <1>2, <1>10 DEF FinishRunFails, Advance, TypeOK
  <2> QED BY <1>7, <1>8, <1>10, <2>1 DEF FinishRunFails
<1> QED BY <1>9, <1>10

(* A step of stream_run changes one request and nothing else.                   *)
LEMMA RequestStep ==
    ASSUME Inv, NEW s \in Requests, NEW w \in Watches,
           UNCHANGED <<server, storeVars, job, channels, sent>>,
           watch' = [watch EXCEPT ![s] = w], RequestInv(s)'
    PROVE  Inv'
<1>1. /\ campaign' = campaign /\ run' = run /\ findings' = findings
      /\ claimedBy' = claimedBy /\ executing' = executing /\ job' = job
      /\ channels' = channels /\ sent' = sent /\ server' = server
  BY DEF storeVars
<1>2. /\ watch' \in [Requests -> Watches]
      /\ \A t \in Requests : t # s => watch'[t] = watch[t]
  BY DEF Inv, TypeOK
<1>3. TypeOK'
  BY <1>1, <1>2 DEF Inv, TypeOK
<1>4. ASSUME NEW c \in Campaigns PROVE CampaignInv(c)' /\ Grows(c)
  BY <1>1, UntouchedInv DEF Inv, Untouched, Grows
<1>5. ASSUME NEW t \in Requests PROVE RequestInv(t)'
  BY <1>2, <1>4, RequestKept DEF Inv
<1> QED BY <1>3, <1>4, <1>5 DEF Inv

(* What a step of stream_run leaves alone, read at the request's own run.        *)
LEMMA OwnRequest ==
    ASSUME Inv, NEW s \in Requests, NEW w \in Watches,
           UNCHANGED <<server, storeVars, job, channels, sent>>,
           watch' = [watch EXCEPT ![s] = w]
    PROVE  /\ watch'[s] = w /\ job' = job /\ sent' = sent /\ run' = run
           /\ InFlight(s)' <=> w.phase \in {"read", "streaming"}
           /\ InFlightOrTold(s)' <=> w.phase \in {"read", "streaming"}
                                        \/ w.ended \in {"outcome", "closed"}
<1>1. watch'[s] = w /\ job' = job /\ sent' = sent /\ run' = run
  BY DEF Inv, TypeOK, storeVars
<1> QED BY <1>1 DEF InFlight, InFlightOrTold

(* get_run: what it read may be an outcome, but then process is over.            *)
LEMMA GetRunInv ==
    ASSUME Inv, NEW s \in Requests, NEW c \in Campaigns, GetRun(s, c)
    PROVE  Inv'
<1>0. PICK w : w = [Idle EXCEPT !.phase = "read", !.c = c, !.last = run[c]]
  OBVIOUS
<1>1. /\ watch' = [watch EXCEPT ![s] = w]
      /\ UNCHANGED <<server, storeVars, job, channels, sent>>
  BY <1>0 DEF GetRun
<1>2. /\ w.phase = "read" /\ w.c = c /\ w.last = run[c] /\ w.ended = "no"
      /\ w.progress = "none" /\ w.told = "none" /\ w.next = 0 /\ w.from = 0
  BY <1>0 DEF Idle
<1>3. w \in Watches
  BY <1>0 DEF GetRun, Idle, Watches, Statuses, Inv, TypeOK
<1>4. run[c] \in Outcomes => job[c] \in Over
  BY DEF Inv, CampaignInv
<1>5. /\ watch'[s] = w /\ job' = job /\ sent' = sent /\ run' = run
      /\ InFlight(s)' <=> w.phase \in {"read", "streaming"}
      /\ InFlightOrTold(s)' <=> w.phase \in {"read", "streaming"}
                                   \/ w.ended \in {"outcome", "closed"}
  BY <1>1, <1>3, OwnRequest
<1>6. RequestInv(s)'
  BY <1>2, <1>4, <1>5 DEF RequestInv, Outcomes
<1> QED BY <1>1, <1>3, <1>6, RequestStep

(* subscribe, or the one status event when there is no channel.                 *)
LEMMA SubscribeInv ==
    ASSUME Inv, NEW s \in Requests, Subscribe(s) \/ NotLive(s)
    PROVE  Inv'
<1> DEFINE c == watch[s].c
<1>0. /\ watch[s] \in Watches /\ RequestInv(s) /\ watch[s].phase = "read"
      /\ c \in Campaigns /\ watch[s].ended = "no"
  BY DEF Inv, TypeOK, Subscribe, NotLive, RequestInv, InFlightOrTold, InFlight
<1>1. CASE Subscribe(s)
  <2> DEFINE now == Len(sent[c])
  <2>0. PICK w : w = [watch[s] EXCEPT !.phase = "streaming", !.next = now, !.from = now]
    OBVIOUS
  <2>1. /\ watch' = [watch EXCEPT ![s] = w]
        /\ UNCHANGED <<server, storeVars, job, channels, sent>>
    BY <1>1, <2>0 DEF Subscribe, Inv, TypeOK
  <2>2. now \in Nat
    BY <1>0 DEF Inv, TypeOK
  <2>3. w \in Watches
    BY <1>0, <2>0, <2>2 DEF Watches
  <2>4. /\ w.phase = "streaming" /\ w.c = c /\ w.last = watch[s].last
        /\ w.next = now /\ w.from = now
        /\ w.progress = watch[s].progress /\ w.ended = watch[s].ended
        /\ w.told = watch[s].told
    BY <1>0, <2>0 DEF Watches
  <2>5. /\ watch'[s] = w /\ job' = job /\ sent' = sent /\ run' = run
        /\ InFlight(s)' <=> w.phase \in {"read", "streaming"}
        /\ InFlightOrTold(s)' <=> w.phase \in {"read", "streaming"}
                                     \/ w.ended \in {"outcome", "closed"}
    BY <2>1, <2>3, OwnRequest
  <2>6. RequestInv(s)'
    BY <1>0, <2>2, <2>4, <2>5 DEF RequestInv, InFlight
  <2> QED BY <2>1, <2>3, <2>6, RequestStep
<1>2. CASE NotLive(s)
  <2>0. PICK w : w = [watch[s] EXCEPT !.phase = "ended", !.ended = "notLive",
                                      !.told = watch[s].last]
    OBVIOUS
  <2>1. /\ watch' = [watch EXCEPT ![s] = w]
        /\ UNCHANGED <<server, storeVars, job, channels, sent>>
    BY <1>2, <2>0 DEF NotLive, Inv, TypeOK
  <2>2. w \in Watches
    BY <1>0, <2>0 DEF Watches
  <2>3. /\ w.phase = "ended" /\ w.ended = "notLive" /\ w.c = c
        /\ w.last = watch[s].last /\ w.progress = watch[s].progress
    BY <1>0, <2>0 DEF Watches
  <2>4. /\ watch'[s] = w /\ run' = run
        /\ InFlight(s)' <=> w.phase \in {"read", "streaming"}
        /\ InFlightOrTold(s)' <=> w.phase \in {"read", "streaming"}
                                     \/ w.ended \in {"outcome", "closed"}
    BY <2>1, <2>2, OwnRequest
  <2>5. RequestInv(s)'
    BY <1>0, <2>3, <2>4 DEF RequestInv
  <2> QED BY <2>1, <2>2, <2>5, RequestStep
<1> QED BY <1>1, <1>2

(* An event received: a progress event goes out with the last status, which is   *)
(* no outcome of the worker; an outcome ends the stream.                       *)
LEMMA ReceiveInv ==
    ASSUME Inv, NEW s \in Requests, Receive(s)
    PROVE  Inv'
<1> DEFINE c == watch[s].c
           n == watch[s].next + 1
           event == sent[c][n]
           w0 == [watch[s] EXCEPT !.next = n]
<1>0. /\ watch[s] \in Watches /\ RequestInv(s) /\ watch[s].phase = "streaming"
      /\ c \in Campaigns /\ watch[s].ended = "no"
  BY DEF Inv, TypeOK, Receive, RequestInv, InFlightOrTold, InFlight
<1>1. CampaignInv(c) /\ sent[c] \in Seq(Events)
  BY <1>0 DEF Inv, TypeOK
<1>2. n \in 1..Len(sent[c]) /\ Len(sent[c]) \in Nat /\ watch[s].from \in Nat
  BY <1>0, <1>1 DEF Receive, Pending, Watches
<1>3. event \in Events /\ Has(c, event)
  BY <1>1, <1>2 DEF Has
<1>4. UNCHANGED <<server, storeVars, job, channels, sent>>
  BY DEF Receive
<1>5. w0 \in Watches
  BY <1>0, <1>2 DEF Watches
<1>6. /\ w0.phase = "streaming" /\ w0.c = c /\ w0.last = watch[s].last
      /\ w0.next = n /\ w0.from = watch[s].from /\ w0.told = watch[s].told
      /\ w0.progress = watch[s].progress /\ w0.ended = watch[s].ended
  BY <1>0 DEF Watches
<1>7. watch[s].from <= n /\ n > watch[s].from
  BY <1>0, <1>2 DEF RequestInv, Watches
<1>8. event = "iterations" => watch[s].last \notin Outcomes
  BY <1>0, <1>2 DEF RequestInv, Watches
<1>9. event \notin {"cancelled"}
  BY <1>1, <1>3 DEF CampaignInv
<1>10. watch[s].last \in Outcomes => job[c] \in Over
  BY <1>0 DEF RequestInv, InFlight
<1>11. watch[s].last \in Outcomes =>
         \A i \in 1..Len(sent[c]) : i > n => sent[c][i] # "iterations"
  BY <1>0, <1>2 DEF RequestInv, Watches
<1>12. PICK w : w =
              CASE event = "iterations" -> [w0 EXCEPT !.progress = w0.last]
                  [] event \in RunStatus /\ IsTerminal(event) ->
                       [w0 EXCEPT !.last = event, !.told = event,
                                  !.phase = "ended", !.ended = "outcome"]
                  [] event \in RunStatus /\ ~IsTerminal(event) ->
                       [w0 EXCEPT !.last = event, !.told = event]
                  [] OTHER -> w0
  OBVIOUS
<1>16. watch' = [watch EXCEPT ![s] = w]
  BY <1>12 DEF Receive
<1>17. event = sent[c][n]
  OBVIOUS
<1>18. "cancelled" \in {watch[s].last, watch[s].progress} => run[c] = "cancelled"
  BY <1>0 DEF RequestInv
<1> HIDE DEF w0, n, event, c
<1>13. CASE event = "iterations"
  <2>1. w = [w0 EXCEPT !.progress = w0.last]
    BY <1>12, <1>13 DEF RunStatus
  <2>2. w \in Watches
    BY <1>5, <2>1 DEF Watches
  <2>3. /\ w.phase = "streaming" /\ w.c = c /\ w.last = watch[s].last
        /\ w.next = n /\ w.from = watch[s].from /\ w.told = watch[s].told
        /\ w.progress = watch[s].last /\ w.ended = watch[s].ended
    BY <1>5, <1>6, <2>1 DEF Watches
  <2>4. /\ watch'[s] = w /\ job' = job /\ sent' = sent /\ run' = run
        /\ InFlight(s)' <=> w.phase \in {"read", "streaming"}
        /\ InFlightOrTold(s)' <=> w.phase \in {"read", "streaming"}
                                     \/ w.ended \in {"outcome", "closed"}
    BY <1>4, <1>16, <2>2, OwnRequest
  <2>5. RequestInv(s)'
    BY <1>0, <1>2, <1>7, <1>8, <1>10, <1>13, <1>17, <1>18, <2>3, <2>4
    DEF RequestInv, Outcomes
  <2> QED BY <1>4, <1>16, <2>2, <2>5, RequestStep
<1>14. CASE event \in RunStatus /\ IsTerminal(event)
  <2>1. event \in Outcomes /\ event # "iterations"
    BY <1>9, <1>14 DEF IsTerminal, Outcomes
  <2>2. w = [w0 EXCEPT !.last = event, !.told = event,
                       !.phase = "ended", !.ended = "outcome"]
    BY <1>12, <1>14, <2>1
  <2>3. w \in Watches
    BY <1>5, <1>14, <2>2 DEF Watches, Statuses
  <2>4. /\ w.phase = "ended" /\ w.c = c /\ w.told = event /\ w.last = event
        /\ w.progress = watch[s].progress /\ w.ended = "outcome"
    BY <1>5, <1>6, <2>2 DEF Watches
  <2>5. /\ watch'[s] = w /\ job' = job /\ sent' = sent /\ run' = run
        /\ InFlight(s)' <=> w.phase \in {"read", "streaming"}
        /\ InFlightOrTold(s)' <=> w.phase \in {"read", "streaming"}
                                     \/ w.ended \in {"outcome", "closed"}
    BY <1>4, <1>16, <2>3, OwnRequest
  <2>6. (Has(watch[s].c, watch[s].told))' <=> Has(c, event)
    BY <2>4, <2>5 DEF Has
  <2>7. RequestInv(s)'
    BY <1>0, <1>3, <1>9, <1>18, <2>1, <2>4, <2>5, <2>6 DEF RequestInv
  <2> QED BY <1>4, <1>16, <2>3, <2>7, RequestStep
<1>15. CASE event # "iterations" /\ ~(event \in RunStatus /\ IsTerminal(event))
  <2>0. event \notin Outcomes
    BY <1>15 DEF Outcomes, RunStatus, IsTerminal
  <2>1. w \in {w0, [w0 EXCEPT !.last = event, !.told = event]}
        /\ (w # w0 => event \in RunStatus)
    BY <1>12, <1>15
  <2>2. w \in Watches
    BY <1>5, <2>1 DEF Watches, Statuses
  <2>3. /\ w.phase = "streaming" /\ w.c = c
        /\ w.last \in {watch[s].last, event}
        /\ w.next = n /\ w.from = watch[s].from
        /\ w.progress = watch[s].progress /\ w.ended = watch[s].ended
    BY <1>5, <1>6, <2>1 DEF Watches
  <2>4. /\ watch'[s] = w /\ job' = job /\ sent' = sent /\ run' = run
        /\ InFlight(s)' <=> w.phase \in {"read", "streaming"}
        /\ InFlightOrTold(s)' <=> w.phase \in {"read", "streaming"}
                                     \/ w.ended \in {"outcome", "closed"}
    BY <1>4, <1>16, <2>2, OwnRequest
  <2>5. RequestInv(s)'
    BY <1>0, <1>2, <1>7, <1>9, <1>10, <1>11, <1>17, <1>18, <2>0, <2>3, <2>4 DEF RequestInv
  <2> QED BY <1>4, <1>16, <2>2, <2>5, RequestStep
<1> QED BY <1>13, <1>14, <1>15

(* A lagging receiver resumes short of the last event, the only one that can be   *)
(* an outcome.                                                               *)
LEMMA LaggedInv ==
    ASSUME Inv, NEW s \in Requests, Lagged(s)
    PROVE  Inv'
<1> DEFINE c == watch[s].c
           n == Len(sent[c]) - Capacity
<1>0. /\ watch[s] \in Watches /\ RequestInv(s) /\ watch[s].phase = "streaming"
      /\ c \in Campaigns /\ watch[s].ended = "no"
  BY DEF Inv, TypeOK, Lagged, RequestInv, InFlightOrTold, InFlight
<1>1. CampaignInv(c) /\ Len(sent[c]) \in Nat
  BY <1>0 DEF Inv, TypeOK
<1>2. /\ n \in Nat /\ n > watch[s].next /\ n < Len(sent[c])
      /\ watch[s].next \in Nat /\ watch[s].from \in Nat
  BY <1>0, <1>1, CapacityAssumption DEF Lagged, Behind, Pending, Watches
<1>3. /\ watch[s].from <= n /\ n \in 1..Len(sent[c]) /\ n # Len(sent[c])
  BY <1>0, <1>1, <1>2 DEF RequestInv
<1>4. sent[c][n] \notin Outcomes
  BY <1>1, <1>3 DEF CampaignInv
<1>5. watch[s].last \in Outcomes =>
        /\ job[c] \in Over
        /\ \A i \in 1..Len(sent[c]) : i > n => sent[c][i] # "iterations"
  BY <1>0, <1>1, <1>2 DEF RequestInv, InFlight
<1>6. PICK w : w = [watch[s] EXCEPT !.next = n]
  OBVIOUS
<1>7. /\ UNCHANGED <<server, storeVars, job, channels, sent>>
      /\ watch' = [watch EXCEPT ![s] = w]
  BY <1>6 DEF Lagged, Inv, TypeOK
<1>8. w \in Watches
  BY <1>0, <1>2, <1>6 DEF Watches
<1>9. /\ w.phase = "streaming" /\ w.c = c /\ w.last = watch[s].last
      /\ w.next = n /\ w.from = watch[s].from /\ w.ended = "no"
      /\ w.progress = watch[s].progress
  BY <1>0, <1>6 DEF Watches
<1>10. /\ watch'[s] = w /\ job' = job /\ sent' = sent /\ run' = run
       /\ InFlight(s)' <=> w.phase \in {"read", "streaming"}
       /\ InFlightOrTold(s)' <=> w.phase \in {"read", "streaming"}
                                    \/ w.ended \in {"outcome", "closed"}
  BY <1>7, <1>8, OwnRequest
<1>11. /\ watch[s].progress \notin Outcomes
       /\ "cancelled" \in {watch[s].last, watch[s].progress} => run[c] = "cancelled"
  BY <1>0 DEF RequestInv
<1> HIDE DEF n, c
<1>12. RequestInv(s)'
  BY <1>0, <1>2, <1>3, <1>4, <1>5, <1>9, <1>10, <1>11 DEF RequestInv
<1> QED BY <1>7, <1>8, <1>12, RequestStep

(* A stream that was told nothing since it subscribed, because nothing was sent:   *)
(* what process sent last is an outcome, and receiving that ends the stream.    *)
LEMMA ClosedInv ==
    ASSUME Inv, NEW s \in Requests, Closed(s)
    PROVE  Inv'
<1> DEFINE c == watch[s].c
<1>0. /\ watch[s] \in Watches /\ RequestInv(s) /\ watch[s].phase = "streaming"
      /\ c \in Campaigns /\ job[c] = "returned"
  BY DEF Inv, TypeOK, Closed, RequestInv, InFlightOrTold, InFlight
<1>1. CampaignInv(c) /\ Len(sent[c]) \in Nat
  BY <1>0 DEF Inv, TypeOK
<1>2. /\ watch[s].next = Len(sent[c])
      /\ watch[s].next \in Nat /\ watch[s].from \in Nat
  BY <1>0, <1>1 DEF Closed, Pending, Watches
<1>3. sent[c][Len(sent[c])] \in Outcomes
  BY <1>0, <1>1 DEF CampaignInv, Announced
<1>4. watch[s].from = Len(sent[c])
  BY <1>0, <1>1, <1>2, <1>3 DEF RequestInv
<1>5. PICK w : w = [watch[s] EXCEPT !.phase = "ended", !.ended = "closed"]
  OBVIOUS
<1>6. /\ UNCHANGED <<server, storeVars, job, channels, sent>>
      /\ watch' = [watch EXCEPT ![s] = w]
  BY <1>5 DEF Closed, Inv, TypeOK
<1>7. w \in Watches
  BY <1>0, <1>5 DEF Watches
<1>8. /\ w.phase = "ended" /\ w.c = c /\ w.from = watch[s].from
      /\ w.ended = "closed" /\ w.last = watch[s].last
      /\ w.progress = watch[s].progress
  BY <1>0, <1>5 DEF Watches
<1>9. /\ watch'[s] = w /\ job' = job /\ sent' = sent /\ run' = run
      /\ InFlight(s)' <=> w.phase \in {"read", "streaming"}
      /\ InFlightOrTold(s)' <=> w.phase \in {"read", "streaming"}
                                   \/ w.ended \in {"outcome", "closed"}
  BY <1>6, <1>7, OwnRequest
<1>10. RequestInv(s)'
  BY <1>0, <1>4, <1>8, <1>9 DEF RequestInv
<1> QED BY <1>6, <1>7, <1>10, RequestStep

(* A request that is not there (any more) has been told nothing.                *)
LEMMA IdleInv ==
    ASSUME NEW s \in Requests, watch'[s] = Idle
    PROVE  RequestInv(s)'
BY DEF RequestInv, InFlightOrTold, InFlight, Idle, Outcomes

(* The client goes away.                                                     *)
LEMMA DisconnectInv ==
    ASSUME Inv, NEW s \in Requests, Disconnect(s)
    PROVE  Inv'
<1>1. Idle \in Watches
  BY DEF Idle, Watches, Statuses
<1>2. PICK w : w = Idle
  OBVIOUS
<1>3. /\ UNCHANGED <<server, storeVars, job, channels, sent>>
      /\ watch' = [watch EXCEPT ![s] = w]
  BY <1>2 DEF Disconnect
<1>4. watch'[s] = Idle
  BY <1>2, <1>3 DEF Inv, TypeOK
<1> QED BY <1>1, <1>2, <1>3, <1>4, IdleInv, RequestStep

(* The process ends in the middle of jobs, whether by main's return or not.       *)
LEMMA ProcessEndsInv ==
    ASSUME Inv, NEW phase \in {"abandoned", "crashed"}, ProcessEnds(phase),
           watch' \in [Requests -> Watches],
           \A s \in Requests : watch'[s] \in {watch[s], Idle}
    PROVE  Inv'
<1>0. TypeOK
  BY DEF Inv
<1>1. /\ campaign' = campaign /\ run' = run /\ findings' = findings
      /\ claimedBy' = claimedBy /\ sent' = sent /\ channels' = {}
      /\ server' = "down" /\ executing' \subseteq executing
      /\ \A c \in Campaigns : MidJob(c) => c \notin executing'
  BY DEF ProcessEnds
<1>2. /\ job' \in [Campaigns -> JobPhases]
      /\ \A c \in Campaigns : job'[c] = IF MidJob(c) THEN phase ELSE job[c]
  BY <1>0 DEF ProcessEnds, TypeOK, JobPhases
<1>3. TypeOK'
  BY <1>0, <1>1, <1>2 DEF TypeOK
<1>4. ASSUME NEW c \in Campaigns PROVE CampaignInv(c)' /\ Grows(c)
  <2>0. CampaignInv(c) /\ job[c] \in JobPhases /\ findings[c] \in Nat
    BY <1>0 DEF Inv, TypeOK
  <2>1. /\ \A e : Has(c, e)' <=> Has(c, e)
        /\ Found(c)' = Found(c) /\ Outcome(c)' = Outcome(c)
    BY <1>1, SameChannel
  <2>2. \/ MidJob(c) /\ job'[c] = phase
        \/ job[c] \in {"queued", "dropped", "returned", "abandoned", "crashed"}
             /\ job'[c] = job[c]
    BY <1>2 DEF MidJob
  <2>3. Grows(c)
    BY <1>1, <2>2 DEF Grows, Over, MidJob
  <2>4. /\ campaign'[c] = campaign[c] /\ run'[c] = run[c] /\ findings'[c] = findings[c]
        /\ sent'[c] = sent[c] /\ c \notin channels'
    BY <1>1
  <2>5. job'[c] \in Over => c \notin executing'
    BY <1>1, <2>0, <2>2 DEF CampaignInv
  <2>6. CASE job'[c] = job[c]
    BY <2>0, <2>1, <2>3, <2>4, <2>5, <2>6 DEF CampaignInv
  <2>7. CASE job'[c] = phase
    <3>1. /\ phase \in Over /\ phase \notin Begun /\ phase \notin Announced
          /\ phase \notin {"persisted", "parsed", "completed"}
      BY DEF Over, Begun, Announced
    <3> QED BY <2>0, <2>1, <2>3, <2>4, <2>5, <2>7, <3>1 DEF CampaignInv
  <2> QED BY <2>2, <2>6, <2>7
<1>5. ASSUME NEW s \in Requests PROVE RequestInv(s)'
  <2>1. CASE watch'[s] = watch[s]
    BY <1>0, <1>4, <2>1, RequestKept DEF Inv
  <2>2. CASE watch'[s] = Idle
    BY <2>2, IdleInv
  <2> QED BY <2>1, <2>2
<1> QED BY <1>3, <1>4, <1>5 DEF Inv

(* SIGTERM, the end of main, a crash, and a new process on the same database.    *)
LEMMA LifetimeInv ==
    ASSUME Inv, Sigterm \/ MainReturns \/ Crash \/ Restart \/ UNCHANGED vars
    PROVE  Inv'
<1>1. CASE Sigterm \/ Restart \/ UNCHANGED vars
  <2>1. /\ campaign' = campaign /\ run' = run /\ findings' = findings
        /\ claimedBy' = claimedBy /\ executing' = executing /\ job' = job
        /\ channels' = channels /\ sent' = sent /\ watch' = watch
        /\ server' \in {"serving", "draining", server}
    BY <1>1 DEF Sigterm, Restart, vars, storeVars
  <2>2. TypeOK'
    BY <2>1 DEF Inv, TypeOK
  <2>3. ASSUME NEW c \in Campaigns PROVE CampaignInv(c)' /\ Grows(c)
    BY <2>1, UntouchedInv DEF Inv, Untouched, Grows
  <2>4. ASSUME NEW s \in Requests PROVE RequestInv(s)'
    BY <2>1, <2>3, RequestKept DEF Inv
  <2> QED BY <2>2, <2>3, <2>4 DEF Inv
<1>2. CASE MainReturns
  BY <1>2, ProcessEndsInv DEF MainReturns, Inv, TypeOK
<1>3. CASE Crash
  <2>1. Idle \in Watches
    BY DEF Idle, Watches, Statuses
  <2>2. /\ watch' \in [Requests -> Watches]
        /\ \A s \in Requests : watch'[s] \in {watch[s], Idle}
    BY <1>3, <2>1 DEF Crash, Inv, TypeOK
  <2> QED BY <1>3, <2>2, ProcessEndsInv DEF Crash
<1> QED BY <1>1, <1>2, <1>3

-----------------------------------------------------------------------------
(* Every step, stuttering included, preserves the invariant.                 *)
LEMMA NextInv == Inv /\ [Next]_vars => Inv'
<1> SUFFICES ASSUME Inv, [Next]_vars PROVE Inv'
  OBVIOUS
<1>1. ASSUME NEW c \in Campaigns,
             \/ CreateCampaign(c) \/ CancelCampaign(c)
             \/ ClaimJob(c) \/ DropJob(c) \/ StartRun(c) \/ StartRunRefused(c)
             \/ ProcessStep(c)
      PROVE  Inv'
  BY <1>1, ApiStepInv, StartStepInv, FinishStepInv, ProcessStepInv DEF ProcessStep
<1>2. ASSUME NEW s \in Requests,
             (\E c \in Campaigns : GetRun(s, c)) \/ StreamStep(s) \/ Disconnect(s)
      PROVE  Inv'
  BY <1>2, GetRunInv, SubscribeInv, ReceiveInv, LaggedInv, ClosedInv, DisconnectInv
  DEF StreamStep
<1>3. CASE Sigterm \/ MainReturns \/ Crash \/ Restart \/ UNCHANGED vars
  BY <1>3, LifetimeInv
<1> QED BY <1>1, <1>2, <1>3 DEF Next

(* The inductive invariant holds in every reachable state.                   *)
THEOREM Invariance == Spec => []Inv
BY InitInv, NextInv, PTL DEF Spec

(* Every variable keeps its type.                                            *)
THEOREM TypeCorrect == Spec => []TypeOK
BY Invariance, PTL DEF Inv

(* Nobody who subscribed before the outcome was announced misses it.            *)
THEOREM NobodyMissesTheOutcome == Spec => []OutcomeNotMissed
<1>1. Inv => OutcomeNotMissed
  BY DEF Inv, RequestInv, OutcomeNotMissed
<1> QED BY <1>1, Invariance, PTL

(* What a stream said is what is persisted, unless a cancel overwrote it or     *)
(* finish_run is still to come or never will.                                 *)
THEOREM StreamsTellTheTruth == Spec => []AnnouncedIsPersisted
<1>1. Inv => AnnouncedIsPersisted
  <2> SUFFICES ASSUME Inv, NEW s \in Requests, watch[s].ended = "outcome"
               PROVE  \/ run[watch[s].c] \in {watch[s].told, "cancelled"}
                      \/ /\ run[watch[s].c] = "running"
                         /\ watch[s].c \in executing => job[watch[s].c] = "announced"
                         /\ job[watch[s].c] # "persisted"
    BY DEF AnnouncedIsPersisted
  <2> DEFINE c == watch[s].c
  <2>1. c \in Campaigns /\ watch[s].told \in Outcomes /\ Has(c, watch[s].told)
    BY DEF Inv, RequestInv, InFlightOrTold
  <2>2. CampaignInv(c) /\ run[c] \in RunStatus \cup {"absent"}
    BY <2>1 DEF Inv, TypeOK
  <2>3. Has(c, "iterations") <=> Outcome(c) = "completed"
    BY DEF Has, Outcome
  <2>4. watch[s].told = Outcome(c)
    BY <2>1, <2>2, <2>3 DEF CampaignInv, Outcomes, Outcome
  <2>5. Has(c, "completed") \/ Has(c, "failed")
    BY <2>1 DEF Outcomes
  <2>6. run[c] \in Outcomes \cup {"cancelled", "running"}
    BY <2>2, <2>5 DEF CampaignInv, RunStatus, Outcomes
  <2>7. run[c] \in Outcomes => run[c] = watch[s].told
    BY <2>2, <2>4 DEF CampaignInv
  <2>8. run[c] = "running" =>
          (c \in executing => job[c] = "announced") /\ job[c] # "persisted"
    BY <2>2, <2>5 DEF CampaignInv, Outcomes
  <2> QED BY <2>6, <2>7, <2>8
<1> QED BY <1>1, Invariance, PTL

(* The findings of the stream and of the store agree.                          *)
THEOREM FindingsAreAnnounced == Spec => []FindingsAnnounced
<1>1. Inv => FindingsAnnounced
  BY DEF Inv, CampaignInv, FindingsAnnounced
<1> QED BY <1>1, Invariance, PTL

(* No progress event carries an outcome of the worker, nor a cancel of a run     *)
(* that is not cancelled for good.                                           *)
THEOREM ProgressPrecedesOutcome == Spec => []ProgressIsNotOver
<1>1. Inv => ProgressIsNotOver
  BY DEF Inv, RequestInv, ProgressIsNotOver, Outcomes
<1> QED BY <1>1, Invariance, PTL

(* A channel is open only while a started run is being worked on.               *)
THEOREM ChannelsAreOfStartedRuns == Spec => []ChannelWhileWorkedOn
<1>1. Inv => ChannelWhileWorkedOn
  <2> SUFFICES ASSUME Inv, NEW c \in channels
               PROVE  /\ run[c] \notin {"absent", "pending"}
                      /\ job[c] \notin {"queued", "claimed", "dropped", "closed",
                                        "returned", "abandoned", "crashed"}
    BY DEF ChannelWhileWorkedOn
  <2>1. c \in Campaigns
    BY DEF Inv, TypeOK
  <2> QED BY <2>1 DEF Inv, CampaignInv, HasChannel, Begun
<1> QED BY <1>1, Invariance, PTL

-----------------------------------------------------------------------------
(***************************************************************************)
(* The database, seen from here, is an atomic CampaignStore.                   *)
(***************************************************************************)
(* What the tasks of the process do to the rows is one call of the Store, or      *)
(* nothing.                                                                  *)
LEMMA CallStep ==
    ASSUME NEW c \in Campaigns,
           \/ CreateCampaign(c) \/ CancelCampaign(c)
           \/ ClaimJob(c) \/ DropJob(c) \/ StartRun(c) \/ StartRunRefused(c)
           \/ ProcessStep(c)
    PROVE  Store!Next \/ UNCHANGED storeVars
<1>1. CASE CreateCampaign(c) \/ CancelCampaign(c)
  BY <1>1 DEF CreateCampaign, CancelCampaign, Store!Next
<1>2. CASE ClaimJob(c)
  BY <1>2 DEF ClaimJob, Store!Next
<1>3. CASE StartRun(c) \/ StartRunRefused(c)
  BY <1>3 DEF StartRun, StartRunRefused, Store!Next
<1>4. CASE FinishRun(c) \/ FinishRunFails(c)
  <2>1. Outcome(c) \in Store!RunFinishStatus /\ Found(c) \in 0..MaxFindings
    BY DEF Outcome, Found, MaxFindings, Store!RunFinishStatus
  <2>2. \/ Store!Finish(c, Outcome(c), Found(c))
        \/ Store!Abandon({c})
    BY <1>4 DEF FinishRun, FinishRunFails
  <2>3. {c} \in SUBSET Campaigns
    OBVIOUS
  <2> QED BY <2>1, <2>2, <2>3 DEF Store!Next
<1>5. CASE DropJob(c) \/ (ProcessStep(c) /\ ~FinishRun(c) /\ ~FinishRunFails(c))
  BY <1>5 DEF DropJob, ProcessStep, OpenChannel, EmitRunning, EmitLog, SandboxFails,
              EmitIterations, EmitFinding, NoFinding, AnnounceOutcome, CloseChannel,
              ProcessReturns, Emit
<1> QED BY <1>1, <1>2, <1>3, <1>4, <1>5

(* The end of the process abandons what it was in the middle of, all at once.    *)
LEMMA EndStep ==
    ASSUME NEW phase, ProcessEnds(phase)
    PROVE  Store!Next
<1> DEFINE abandoned == executing \cap {c \in Campaigns : MidJob(c)}
<1>1. /\ abandoned \in SUBSET Campaigns /\ abandoned \subseteq executing
      /\ executing' = executing \ abandoned
      /\ UNCHANGED <<campaign, run, claimedBy, findings>>
  BY DEF ProcessEnds
<1> HIDE DEF abandoned
<1> QED BY <1>1 DEF Store!Next, Store!Abandon

(* Every step, stuttering included, is a step of the store or a stutter.          *)
LEMMA StepOfStore == [Next]_vars => [Store!Next]_(Store!vars)
<1> SUFFICES ASSUME [Next]_vars PROVE Store!Next \/ UNCHANGED storeVars
  BY DEF Store!vars, storeVars
<1>1. ASSUME NEW s \in Requests,
             (\E c \in Campaigns : GetRun(s, c)) \/ StreamStep(s) \/ Disconnect(s)
      PROVE  UNCHANGED storeVars
  BY <1>1 DEF GetRun, StreamStep, Subscribe, NotLive, Receive, Lagged, Closed, Disconnect
<1>2. CASE MainReturns \/ Crash
  BY <1>2, EndStep DEF MainReturns, Crash
<1>3. CASE Sigterm \/ Restart \/ UNCHANGED vars
  BY <1>3 DEF Sigterm, Restart, vars, storeVars
<1> QED BY <1>1, <1>2, <1>3, CallStep DEF Next

(* Nothing the process does to the database, and nothing its end leaves undone,   *)
(* is more than calls of the Store.                                          *)
LEMMA CallsTheStore == Spec => Store!Spec
<1>1. Init => Store!Init
  BY DEF Init
<1> QED BY <1>1, StepOfStore, PTL DEF Spec, Store!Spec

(* CampaignStore_proofs proves its theorems of every implementation of the store. *)
Promised == INSTANCE CampaignStore_proofs WITH LateCancel <- TRUE

(* The proofs are about the store that is implemented here.                      *)
LEMMA SameStore == Store!Spec => Promised!Spec
<1>1. Store!Init => Promised!Init
  BY DEF Store!Init, Promised!Init
<1>2. ASSUME NEW c \in Campaigns
      PROVE  /\ Store!Create(c) => Promised!Create(c)
             /\ Store!Cancel(c) => Promised!Cancel(c)
             /\ \A w : Store!Claim(w, c) => Promised!Claim(w, c)
             /\ Store!Start(c) => Promised!Start(c)
             /\ \A status, found :
                  Store!Finish(c, status, found) => Promised!Finish(c, status, found)
  BY DEF Store!Create, Store!Cancel, Store!Claim, Store!Start, Store!Finish,
         Store!SetBoth, Store!IsTerminal,
         Promised!Create, Promised!Cancel, Promised!Claim, Promised!Start, Promised!Finish,
         Promised!SetBoth, Promised!IsTerminal
<1>3. \A abandoned : Store!Abandon(abandoned) => Promised!Abandon(abandoned)
  BY DEF Store!Abandon, Promised!Abandon
<1>4. Store!vars = Promised!vars /\ (Store!vars)' = (Promised!vars)'
  BY DEF Store!vars, Promised!vars
<1>5. [Store!Next]_(Store!vars) => [Promised!Next]_(Promised!vars)
  BY <1>2, <1>3, <1>4
  DEF Store!Next, Promised!Next, Store!RunFinishStatus, Promised!RunFinishStatus
<1> QED BY <1>1, <1>5, PTL DEF Store!Spec, Promised!Spec

(* A run is started at most once, whatever crashes and restarts in between: it     *)
(* never is pending again, and no worker gets to execute it later.             *)
THEOREM RunsAreStartedOnce ==
    Spec => [][\A c \in Campaigns :
                 /\ run[c] \notin {"absent", "pending"} => run'[c] \notin {"absent", "pending"}
                 /\ c \in executing' \ executing => run[c] = "pending"]_vars
<1> DEFINE Once == \A c \in Campaigns :
                     /\ run[c] \notin {"absent", "pending"}
                          => run'[c] \notin {"absent", "pending"}
                     /\ c \in executing' \ executing => run[c] = "pending"
<1>1. [\A c \in Campaigns : Promised!Legal(c)]_(Promised!vars) => [Once]_vars
  BY DEF Promised!Legal, Promised!vars
<1>2. Spec => [][Once]_vars
  BY <1>1, SameStore, CallsTheStore, Promised!StepsAreLegal, PTL
<1> QED BY <1>2

(* What a GET of the campaign and of its run say agrees at every moment, with the  *)
(* process serving, draining or down, and findings are those of an ended run.    *)
THEOREM RowsBelongTogether ==
    Spec => [](\A c \in Campaigns : /\ campaign[c] = MirrorOf(run[c])
                                    /\ findings[c] > 0 => IsTerminal(run[c]))
<1>1. (\A c \in Campaigns : /\ campaign[c] = Promised!MirrorOf(run[c])
                            /\ findings[c] > 0 => Promised!IsTerminal(run[c]))
       => \A c \in Campaigns : /\ campaign[c] = MirrorOf(run[c])
                               /\ findings[c] > 0 => IsTerminal(run[c])
  BY DEF Promised!MirrorOf, Promised!IsTerminal, MirrorOf, IsTerminal
<1> QED
  BY <1>1, SameStore, CallsTheStore, Promised!RowsBelongTogether, PTL

=============================================================================
