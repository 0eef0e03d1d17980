------------------------------ MODULE RunStream ------------------------------
(***************************************************************************)
(* A run from claim to persisted result, and the clients that watch it:      *)
(* Worker::process (worker/mod.rs) with the production SubprocessRunner       *)
(* (runner/subprocess.rs), the ProgressHub (worker/progress.rs) and the SSE   *)
(* handler stream_run (api/stream.rs), in a server process that is told to     *)
(* stop (main.rs), crashes and starts again.                                  *)
(*                                                                         *)
(* The store is the atomic CampaignStore, which PgStore is proved to          *)
(* implement.  A tokio broadcast channel is the sequence of events sent on    *)
(* it, of which a receiver can still read the last Capacity.                  *)
(***************************************************************************)
EXTENDS Model, Naturals, Sequences

CONSTANTS Campaigns,   \* campaigns, each with its one run
          Workers,     \* worker tasks of this server process
          Watchers,    \* SSE requests, served by this server process
          Remote,      \* SSE requests served by another server process
          Capacity,    \* CHANNEL_CAPACITY
          None

ASSUME CapacityAssumption == Capacity \in Nat \ {0}
ASSUME RemoteAssumption == Remote \cap Watchers = {}

VARIABLES
    server,     \* this server process: the listener, its workers and its hub
    campaign, run, claimedBy, findings, executing,   \* see CampaignStore
    job,        \* per run: where Worker::process is
    channels,   \* ProgressHub::channels: runs with an entry
    sent,       \* per run: events sent on its channel so far
    watch       \* per SSE request: the state of stream_run

storeVars == <<campaign, run, claimedBy, findings, executing>>
vars == <<server, campaign, run, claimedBy, findings, executing, job, channels, sent, watch>>

MaxFindings == 1   \* SubprocessRunner reports the one crash libFuzzer stopped at

Store == INSTANCE CampaignStore WITH LateCancel <- TRUE

Requests == Watchers \cup Remote

(* A status event is the status itself.                                      *)
Reports == {"log", "iterations", "finding"}
Events == Reports \cup RunStatus

JobPhases == {"queued", "claimed", "dropped", "started", "opened", "running",
              "sandboxed", "parsed", "completed", "failed", "announced",
              "persisted", "lost", "closed", "returned",
              "abandoned", "crashed"}

(***************************************************************************)
(* watch[s].last is last_status; .told is the last status event the client    *)
(* got and .progress the status in its last progress event.  .from, where in  *)
(* the channel it subscribed, and .ended, why the stream ended, are history.  *)
(***************************************************************************)
Statuses == RunStatus \cup {"none"}

Watches == [phase : {"idle", "read", "streaming", "ended"},
            c : Campaigns \cup {None},
            last : Statuses, told : Statuses, progress : Statuses,
            next : Nat, from : Nat,
            ended : {"no", "notLive", "outcome", "closed"}]

Idle == [phase |-> "idle", c |-> None, last |-> "none", told |-> "none",
         progress |-> "none", next |-> 0, from |-> 0, ended |-> "no"]

-----------------------------------------------------------------------------
Init ==
    /\ server = "serving"
    /\ Store!Init
    /\ job = [c \in Campaigns |-> "queued"]
    /\ channels = {}
    /\ sent = [c \in Campaigns |-> <<>>]
    /\ watch = [s \in Requests |-> Idle]

(***************************************************************************)
(* API: create_campaign and cancel_campaign.                                 *)
(***************************************************************************)
CreateCampaign(c) ==
    /\ Store!Create(c)
    /\ UNCHANGED <<server, job, channels, sent, watch>>

CancelCampaign(c) ==
    /\ Store!Cancel(c)
    /\ UNCHANGED <<server, job, channels, sent, watch>>

(***************************************************************************)
(* Worker::run_loop and Worker::process.                                     *)
(***************************************************************************)
Advance(c, from, to) == job[c] = from /\ job' = [job EXCEPT ![c] = to]

ClaimJob(c) ==
    /\ server # "down"
    /\ Advance(c, "queued", "claimed")
    /\ \E w \in Workers : Store!Claim(w, c)
    /\ UNCHANGED <<server, channels, sent, watch>>

(* get_campaign fails, or the target is not in the registry.                 *)
DropJob(c) ==
    /\ Advance(c, "claimed", "dropped")
    /\ UNCHANGED <<server, storeVars, channels, sent, watch>>

StartRun(c) ==
    /\ Advance(c, "claimed", "started")
    /\ Store!Start(c) /\ executing' = executing \cup {c}
    /\ UNCHANGED <<server, channels, sent, watch>>

(* start_run answers FALSE, or fails after its COMMIT took effect; failing     *)
(* before that is DropJob to everybody else.                                 *)
StartRunRefused(c) ==
    /\ Advance(c, "claimed", "dropped")
    /\ \/ run[c] # "pending" /\ UNCHANGED storeVars
       \/ Store!Start(c) /\ executing' = executing
    /\ UNCHANGED <<server, channels, sent, watch>>

(* Mutation: the publisher is taken before start_run has answered. *)
OpenBeforeStart(c) ==
    /\ job[c] = "claimed" /\ c \notin channels
    /\ channels' = channels \cup {c}
    /\ UNCHANGED <<server, storeVars, job, sent, watch>>

(* ProgressHub::publisher *)
OpenChannel(c) ==
    /\ Advance(c, "started", "opened")
    /\ channels' = channels \cup {c}
    /\ UNCHANGED <<server, storeVars, sent, watch>>

(* ProgressPublisher::emit: with nobody subscribed the event is just gone.    *)
Emit(c, event) ==
    /\ sent' = [sent EXCEPT ![c] = Append(@, event)]
    /\ UNCHANGED <<server, storeVars, channels, watch>>

EmitRunning(c) == Advance(c, "opened", "running") /\ Emit(c, "running")

(* SubprocessRunner::run: the command line, then the sandboxed subprocess,    *)
(* then its parsed output.                                                   *)
EmitLog(c) == Advance(c, "running", "sandboxed") /\ Emit(c, "log")

SandboxFails(c) ==
    /\ Advance(c, "sandboxed", "failed")
    /\ UNCHANGED <<server, storeVars, channels, sent, watch>>

EmitIterations(c) == Advance(c, "sandboxed", "parsed") /\ Emit(c, "iterations")

EmitFinding(c) == Advance(c, "parsed", "completed") /\ Emit(c, "finding")

NoFinding(c) ==
    /\ Advance(c, "parsed", "completed")
    /\ UNCHANGED <<server, storeVars, channels, sent, watch>>

(* Mutation: the stream is told "completed" whatever the runner returned.     *)
AnnounceCompleted(c) ==
    \E outcome \in {"completed", "failed"} :
      Advance(c, outcome, "announced") /\ Emit(c, "completed")

AnnounceOutcome(c) ==
    \E outcome \in {"completed", "failed"} :
      Advance(c, outcome, "announced") /\ Emit(c, outcome)

Found(c) == IF \E i \in 1..Len(sent[c]) : sent[c][i] = "finding" THEN 1 ELSE 0

(* The RunFinish that Worker::process built: the findings with "completed".   *)
Outcome(c) ==
    IF \E i \in 1..Len(sent[c]) : sent[c][i] = "iterations" THEN "completed"
                                                            ELSE "failed"

(* Mutation: finish_run is called without the runner's findings. *)
FinishWithoutFindings(c) ==
    /\ Advance(c, "announced", "persisted")
    /\ Store!Finish(c, Outcome(c), 0)
    /\ UNCHANGED <<server, channels, sent, watch>>

FinishRun(c) ==
    /\ Advance(c, "announced", "persisted")
    /\ Store!Finish(c, Outcome(c), Found(c))
    /\ UNCHANGED <<server, channels, sent, watch>>

(* finish_run fails: the error is logged and the result is gone, or it had     *)
(* been committed.                                                           *)
FinishRunFails(c) ==
    /\ Advance(c, "announced", "lost")
    /\ Store!Abandon({c}) \/ Store!Finish(c, Outcome(c), Found(c))
    /\ UNCHANGED <<server, channels, sent, watch>>

(* Mutation: Worker::process forgets ProgressHub::close. *)
NeverClose(c) ==
    /\ \E phase \in {"persisted", "lost"} : Advance(c, phase, "closed")
    /\ UNCHANGED <<server, storeVars, channels, sent, watch>>

(* Mutation: the iteration count is reported once more when all is persisted. *)
ReportBeforeClose(c) ==
    /\ \E phase \in {"persisted", "lost"} : Advance(c, phase, "closed")
    /\ channels' = channels \ {c}
    /\ sent' = [sent EXCEPT ![c] = Append(@, "iterations")]
    /\ UNCHANGED <<server, storeVars, watch>>

CloseChannel(c) ==
    /\ \E phase \in {"persisted", "lost"} : Advance(c, phase, "closed")
    /\ channels' = channels \ {c}
    /\ UNCHANGED <<server, storeVars, sent, watch>>

(* Worker::process returns and drops its publisher, the last sender.          *)
ProcessReturns(c) ==
    /\ Advance(c, "closed", "returned")
    /\ UNCHANGED <<server, storeVars, channels, sent, watch>>

(***************************************************************************)
(* stream_run: get_run, then subscribe, then the events.                     *)
(***************************************************************************)
(* Mutation: no 404 for a run that does not exist. *)
GetAnyRun(s, c) ==
    /\ s \in Watchers => server = "serving"
    /\ watch[s].phase \in {"idle", "ended"}
    /\ watch' = [watch EXCEPT ![s] =
                   [Idle EXCEPT !.phase = "read", !.c = c, !.last = run[c]]]
    /\ UNCHANGED <<server, storeVars, job, channels, sent>>

(* Mutation: the listener goes on accepting during the drain. *)
GetRunWhileDraining(s, c) ==
    /\ s \in Watchers => server # "down"
    /\ watch[s].phase \in {"idle", "ended"}
    /\ run[c] # "absent"
    /\ watch' = [watch EXCEPT ![s] =
                   [Idle EXCEPT !.phase = "read", !.c = c, !.last = run[c]]]
    /\ UNCHANGED <<server, storeVars, job, channels, sent>>

GetRun(s, c) ==
    /\ s \in Watchers => server = "serving"
    /\ watch[s].phase \in {"idle", "ended"}
    /\ run[c] # "absent"
    /\ watch' = [watch EXCEPT ![s] =
                   [Idle EXCEPT !.phase = "read", !.c = c, !.last = run[c]]]
    /\ UNCHANGED <<server, storeVars, job, channels, sent>>

Live(s) == s \in Watchers /\ watch[s].c \in channels

Subscribe(s) ==
    /\ watch[s].phase = "read" /\ Live(s)
    /\ LET now == Len(sent[watch[s].c]) IN
       watch' = [watch EXCEPT ![s].phase = "streaming",
                              ![s].next = now, ![s].from = now]
    /\ UNCHANGED <<server, storeVars, job, channels, sent>>

(* No channel: one status event with what get_run had read, and the end.      *)
NotLive(s) ==
    /\ watch[s].phase = "read" /\ ~Live(s)
    /\ watch' = [watch EXCEPT ![s].phase = "ended", ![s].ended = "notLive",
                              ![s].told = watch[s].last]
    /\ UNCHANGED <<server, storeVars, job, channels, sent>>

Pending(s) == Len(sent[watch[s].c]) - watch[s].next

Behind(s) == Pending(s) > Capacity

Receive(s) ==
    /\ watch[s].phase = "streaming"
    /\ Pending(s) > 0 /\ ~Behind(s)
    /\ LET event == sent[watch[s].c][watch[s].next + 1]
           w == [watch[s] EXCEPT !.next = @ + 1]
       IN watch' = [watch EXCEPT ![s] =
            CASE event = "iterations" -> [w EXCEPT !.progress = w.last]
              [] event \in RunStatus /\ IsTerminal(event) ->
                   [w EXCEPT !.last = event, !.told = event,
                             !.phase = "ended", !.ended = "outcome"]
              [] event \in RunStatus /\ ~IsTerminal(event) ->
                   [w EXCEPT !.last = event, !.told = event]
              [] OTHER -> w]
    /\ UNCHANGED <<server, storeVars, job, channels, sent>>

(* Mutation: a subscriber that lags resumes at the end of the channel. *)
LaggedToEnd(s) ==
    /\ watch[s].phase = "streaming" /\ Behind(s)
    /\ watch' = [watch EXCEPT ![s].next = Len(sent[watch[s].c])]
    /\ UNCHANGED <<server, storeVars, job, channels, sent>>

(* RecvError::Lagged: the receiver resumes at the oldest event still kept.     *)
Lagged(s) ==
    /\ watch[s].phase = "streaming" /\ Behind(s)
    /\ watch' = [watch EXCEPT ![s].next = Len(sent[watch[s].c]) - Capacity]
    /\ UNCHANGED <<server, storeVars, job, channels, sent>>

(* RecvError::Closed: every sender is gone and every event was read.          *)
Closed(s) ==
    /\ watch[s].phase = "streaming" /\ Pending(s) = 0
    /\ watch[s].c \notin channels /\ job[watch[s].c] = "returned"
    /\ watch' = [watch EXCEPT ![s].phase = "ended", ![s].ended = "closed"]
    /\ UNCHANGED <<server, storeVars, job, channels, sent>>

Disconnect(s) ==
    /\ watch[s].phase \in {"read", "streaming"}
    /\ watch' = [watch EXCEPT ![s] = Idle]
    /\ UNCHANGED <<server, storeVars, job, channels, sent>>

(***************************************************************************)
(* main: SIGTERM makes the listener refuse new requests, and main returns when  *)
(* the ones in flight are answered.  Nobody tells the workers: they go on        *)
(* claiming jobs, and whatever one of them is in the middle of ends with the    *)
(* process, as it does in a crash.                                            *)
(***************************************************************************)
Sigterm ==
    /\ server = "serving" /\ server' = "draining"
    /\ UNCHANGED <<storeVars, job, channels, sent, watch>>

MidJob(c) == job[c] \notin {"queued", "dropped", "returned", "abandoned", "crashed"}

ProcessEnds(phase) ==
    /\ server' = "down"
    /\ job' = [c \in Campaigns |-> IF MidJob(c) THEN phase ELSE job[c]]
    /\ executing' = executing \ {c \in Campaigns : MidJob(c)}
    /\ channels' = {}
    /\ UNCHANGED <<campaign, run, claimedBy, findings, sent>>

InFlight(s) == watch[s].phase \in {"read", "streaming"}

MainReturns ==
    /\ server = "draining"
    /\ \A s \in Watchers : ~InFlight(s)
    /\ ProcessEnds("abandoned")
    /\ UNCHANGED watch

Crash ==
    /\ server # "down"
    /\ ProcessEnds("crashed")
    /\ watch' = [s \in Requests |->
                   IF s \in Watchers /\ InFlight(s) THEN Idle ELSE watch[s]]

(* The same database, an empty hub.  A job that was claimed stays claimed.     *)
Restart ==
    /\ server = "down" /\ server' = "serving"
    /\ UNCHANGED <<storeVars, job, channels, sent, watch>>

-----------------------------------------------------------------------------
ProcessStep(c) ==
    \/ OpenChannel(c) \/ EmitRunning(c)
    \/ EmitLog(c) \/ SandboxFails(c) \/ EmitIterations(c)
    \/ EmitFinding(c) \/ NoFinding(c)
    \/ AnnounceOutcome(c) \/ FinishRun(c) \/ FinishRunFails(c)
    \/ CloseChannel(c) \/ ProcessReturns(c)

StreamStep(s) ==
    \/ Subscribe(s) \/ NotLive(s)
    \/ Receive(s) \/ Lagged(s) \/ Closed(s)

Next ==
    \/ \E c \in Campaigns :
         \/ CreateCampaign(c) \/ CancelCampaign(c)
         \/ ClaimJob(c) \/ DropJob(c) \/ StartRun(c) \/ StartRunRefused(c)
         \/ ProcessStep(c)
    \/ \E s \in Requests :
         \/ \E c \in Campaigns : GetRun(s, c)
         \/ StreamStep(s) \/ Disconnect(s)
    \/ Sigterm \/ MainReturns \/ Crash \/ Restart

Spec == Init /\ [][Next]_vars

(***************************************************************************)
(* Fairness: a started Worker::process is a tokio task that is polled until   *)
(* it returns (the subprocess is bounded by JOB_TIMEOUT_SECONDS), and so is   *)
(* the stream of a client that stays connected and reads.  main is polled too, *)
(* so it returns once nothing is in flight.                                   *)
(***************************************************************************)
Fairness ==
    /\ \A c \in Campaigns : WF_vars(ProcessStep(c))
    /\ \A s \in Requests : WF_vars(StreamStep(s))
    /\ WF_vars(MainReturns)

FairSpec == Spec /\ Fairness

(***************************************************************************)
(* Properties.                                                             *)
(***************************************************************************)
TypeOK ==
    /\ server \in {"serving", "draining", "down"}
    /\ campaign \in [Campaigns -> CampaignStatus \cup {"absent"}]
    /\ run \in [Campaigns -> RunStatus \cup {"absent"}]
    /\ claimedBy \in [Campaigns -> Workers \cup {None}]
    /\ findings \in [Campaigns -> Nat]
    /\ executing \subseteq Campaigns
    /\ job \in [Campaigns -> JobPhases]
    /\ channels \subseteq Campaigns
    /\ sent \in [Campaigns -> Seq(Events)]
    /\ watch \in [Requests -> Watches]

(* Whoever subscribed before the worker announced the outcome is told it,      *)
(* however far it lagged: the stream never just stops (stream.rs, 178-182).   *)
OutcomeNotMissed ==
    \A s \in Requests :
      watch[s].ended = "closed" => watch[s].from = Len(sent[watch[s].c])

(* What a finished stream said is what the store has, or a cancel came; or it   *)
(* still has "running", because finish_run, which comes after the               *)
(* announcement, is yet to be called or failed, or the process ended before.   *)
(* After a finish_run that succeeded the run is never left "running".           *)
AnnouncedIsPersisted ==
    \A s \in Requests :
      LET c == watch[s].c IN
      watch[s].ended = "outcome" =>
        \/ run[c] \in {watch[s].told, "cancelled"}
        \/ /\ run[c] = "running"
           /\ c \in executing => job[c] = "announced"
           /\ job[c] # "persisted"

(* Every persisted finding was announced on the stream, and after a           *)
(* successful finish_run every announced one is persisted.                    *)
FindingsAnnounced ==
    \A c \in Campaigns :
      /\ findings[c] <= Found(c)
      /\ job[c] = "persisted" => findings[c] = Found(c)

(* A progress event never carries an outcome of the worker: those are          *)
(* announced after the last progress event, although the status it carries    *)
(* starts as whatever the database said when the client connected.  It does    *)
(* carry "cancelled" for a client that connected after a cancel, to a run       *)
(* whose worker goes on; then that is what the run stays.                      *)
ProgressIsNotOver ==
    \A s \in Requests :
      /\ watch[s].progress \notin {"completed", "failed"}
      /\ watch[s].progress = "cancelled" => run[watch[s].c] = "cancelled"

(* worker/progress.rs, 33-34: a run can be subscribed to only after start_run   *)
(* committed, and not once its worker is through with it.                     *)
ChannelWhileWorkedOn ==
    \A c \in channels :
      /\ run[c] \notin {"absent", "pending"}
      /\ job[c] \notin {"queued", "claimed", "dropped", "closed", "returned",
                        "abandoned", "crashed"}

(* Every stream ends, also one that subscribed after the outcome had been      *)
(* announced and that no event will ever reach.                               *)
StreamsEnd ==
    \A s \in Requests : (watch[s].phase = "streaming") ~> (watch[s].phase # "streaming")

(* The drain of a SIGTERM comes to its end although open streams hold it: each  *)
(* one is told its outcome or closed, and no new one is let in.               *)
DrainEnds == (server = "draining") ~> (server # "draining")

(* worker/mod.rs, 9-12: "on SIGTERM the HTTP server drains gracefully (see       *)
(* `main.rs`) but a worker mid-job keeps running until that job finishes".     *)
MidJobKeepsRunning ==
    \A c \in Campaigns : job[c] = "abandoned" => run[c] # "running"

(* stream.rs, 129-134: "no channel means this run is either still `Pending`    *)
(* (not yet claimed by a worker) or already terminal".                        *)
NoChannelMeansNotLive ==
    \A s \in Watchers :
      watch[s].ended = "notLive" =>
        watch[s].told = "pending" \/ IsTerminal(watch[s].told)

=============================================================================
