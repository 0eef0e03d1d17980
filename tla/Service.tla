------------------------------- MODULE Service -------------------------------
(***************************************************************************)
(* Server processes that share one database, from their start to their end:   *)
(* main (main.rs), Config::from_env (config.rs), TargetRegistry (targets.rs)  *)
(* and PgStore::sync_targets (store/postgres.rs); and what the registry and   *)
(* the configuration of a process decide: which campaigns create_campaign     *)
(* (api/campaigns.rs) accepts and what Worker::process (worker/mod.rs) and    *)
(* SubprocessRunner (runner/subprocess.rs) make of them.                      *)
(*                                                                         *)
(* A process is one lifetime: a restart or a second instance, which may read  *)
(* another targets.json or another JOB_TIMEOUT_SECONDS, is another process.   *)
(***************************************************************************)
EXTENDS Integers, Sequences, FiniteSets

CONSTANTS Processes,
          Campaigns,
          Ids,        \* target ids
          Blank,      \* a target whose id or fuzz_target_name is empty
          None,
          MaxRows,    \* bound: the targets of one targets.json
          MaxI32,     \* i32::MAX, scaled down
          MaxI64,     \* i64::MAX, scaled down
          Timeouts,   \* values of JOB_TIMEOUT_SECONDS, a u64
          Budgets     \* values of timeBudgetSecs, an i64

ASSUME ProcessesAssumption == IsFiniteSet(Processes) /\ None \notin Processes
ASSUME IdsAssumption == IsFiniteSet(Ids) /\ Blank \notin Ids
ASSUME NumbersAssumption ==
    /\ MaxRows \in Nat /\ MaxI32 \in Nat /\ MaxI64 \in Nat
    /\ Timeouts \subseteq Nat /\ Budgets \subseteq Int

VARIABLES
    phase,      \* per process: how far main() is
    timeout,    \* per process: Config::job_timeout
    manifest,   \* per process: the targets.json it read
    order,      \* per process: TargetRegistry::order
    next,       \* per process: rows its sync_targets has upserted
    lock,       \* per id: the transaction that holds the row's lock
    table,      \* per id: the process whose version of the row is committed
    campaign    \* per campaign: the row, its job and its run

processVars == <<phase, timeout, manifest, order, next>>
vars == <<phase, timeout, manifest, order, next, lock, table, campaign>>

Phases == {"starting", "syncing", "working", "serving", "stopped", "victim"}

Lists(S) == UNION {[1 .. n -> S] : n \in 0 .. MaxRows}

Listed(p) == {order[p][i] : i \in DOMAIN order[p]}

-----------------------------------------------------------------------------
(***************************************************************************)
(* Numbers.                                                                  *)
(***************************************************************************)
(* A cast to a signed integer whose largest value is max keeps the low bits.   *)
Wrapped(n, max) == LET m == n % (2 * (max + 1))
                   IN  IF m > max THEN m - 2 * (max + 1) ELSE m

AsI32(n) == Wrapped(n, MaxI32)

AsI64(n) == Wrapped(n, MaxI64)

(* `.max(0) as u32` of an i32                                                *)
AtLeastZero(n) == IF n < 0 THEN 0 ELSE n

(***************************************************************************)
(* A campaign: .by and .target are of the request, .requested is its          *)
(* timeBudgetSecs and .stored the column; .worker is the process that claimed *)
(* the job and .maxTotal the -max_total_time it gave libFuzzer.               *)
(***************************************************************************)
CampaignPhases == {"absent", "queued", "claimed", "unknown", "running", "done", "lost"}

CampaignRecords ==
    [phase : CampaignPhases, by : Processes \cup {None}, target : Ids \cup {None},
     requested : Int, stored : (-MaxI32 - 1) .. MaxI32,
     worker : Processes \cup {None}, maxTotal : 0 .. MaxI32]

Absent == [phase |-> "absent", by |-> None, target |-> None, requested |-> 0,
           stored |-> 0, worker |-> None, maxTotal |-> 0]

Init ==
    /\ phase = [p \in Processes |-> "starting"]
    /\ timeout \in [Processes -> Timeouts]
    /\ manifest = [p \in Processes |-> <<>>]
    /\ order = [p \in Processes |-> <<>>]
    /\ next = [p \in Processes |-> 0]
    /\ lock = [id \in Ids |-> None]
    /\ table = [id \in Ids |-> None]
    /\ campaign = [c \in Campaigns |-> Absent]

-----------------------------------------------------------------------------
(***************************************************************************)
(* The end of a process, by an error main returns, a signal or a crash: its   *)
(* transaction is rolled back, and the jobs its workers claimed are nobody's. *)
(***************************************************************************)
Unlocked(p) == [id \in Ids |-> IF lock[id] = p THEN None ELSE lock[id]]

Orphaned(p) ==
    [c \in Campaigns |->
        IF campaign[c].worker = p /\ campaign[c].phase \in {"claimed", "running"}
        THEN [campaign[c] EXCEPT !.phase = "lost"] ELSE campaign[c]]

(* Mutation: the connection of a failed sync goes back to the pool as it is. *)
EndInTransaction(p, as) ==
    /\ phase' = [phase EXCEPT ![p] = as]
    /\ campaign' = Orphaned(p)
    /\ UNCHANGED <<timeout, manifest, order, next, lock, table>>

End(p, as) ==
    /\ phase' = [phase EXCEPT ![p] = as]
    /\ lock' = Unlocked(p)
    /\ campaign' = Orphaned(p)
    /\ UNCHANGED <<timeout, manifest, order, next, table>>

Stop(p) == phase[p] \notin {"stopped", "victim"} /\ End(p, "stopped")

(***************************************************************************)
(* TargetRegistry::load.  Config::from_env, connect, migrate and reading the  *)
(* file come before it; when one fails main returns, which is Stop.           *)
(***************************************************************************)
(* Mutation: only duplicates are rejected. *)
ValidIds(m) == \A i, j \in DOMAIN m : m[i] = m[j] => i = j

Valid(m) == /\ \A i \in DOMAIN m : m[i] # Blank
            /\ \A i, j \in DOMAIN m : m[i] = m[j] => i = j

(* Mutation: list() comes in the order of the HashMap, of each process its own. *)
LoadUnordered(p) ==
    /\ phase[p] = "starting"
    /\ \E m, o \in Lists(Ids \cup {Blank}) :
          /\ Valid(m)
          /\ Len(o) = Len(m)
          /\ {o[i] : i \in DOMAIN o} = {m[i] : i \in DOMAIN m}
          /\ manifest' = [manifest EXCEPT ![p] = m]
          /\ order' = [order EXCEPT ![p] = o]
    /\ phase' = [phase EXCEPT ![p] = "syncing"]
    /\ UNCHANGED <<timeout, next, lock, table, campaign>>

LoadManifest(p) ==
    /\ phase[p] = "starting"
    /\ \E m \in Lists(Ids \cup {Blank}) :
          /\ Valid(m)
          /\ manifest' = [manifest EXCEPT ![p] = m]
          /\ order' = [order EXCEPT ![p] = m]
    /\ phase' = [phase EXCEPT ![p] = "syncing"]
    /\ UNCHANGED <<timeout, next, lock, table, campaign>>

(***************************************************************************)
(* PgStore::sync_targets: one transaction, which locks each row it upserts,   *)
(* an existing or a new one, until it ends.                                   *)
(***************************************************************************)
Pending(p) == phase[p] = "syncing" /\ next[p] < Len(order[p])

NextRow(p) == order[p][next[p] + 1]

Holder(p) == lock[NextRow(p)]

Blocked(p) == Pending(p) /\ Holder(p) \notin {None, p}

(* These transactions wait for one another, and each is waited for.           *)
Deadlocked(S) == (\A q \in S : Blocked(q)) /\ S = {Holder(q) : q \in S}

(* Mutation: without the transaction each row is committed on its own. *)
SyncRowAlone(p) ==
    /\ Pending(p)
    /\ table' = [table EXCEPT ![NextRow(p)] = p]
    /\ next' = [next EXCEPT ![p] = @ + 1]
    /\ UNCHANGED <<phase, timeout, manifest, order, lock, campaign>>

SyncRow(p) ==
    /\ Pending(p)
    /\ ~Blocked(p)
    /\ lock' = [lock EXCEPT ![NextRow(p)] = p]
    /\ next' = [next EXCEPT ![p] = @ + 1]
    /\ UNCHANGED <<phase, timeout, manifest, order, table, campaign>>

(* Mutation: the sync also deletes the rows its manifest does not list. *)
CommittedExactly(p) == [id \in Ids |-> IF id \in Listed(p) THEN p ELSE None]

Committed(p) == [id \in Ids |-> IF id \in Listed(p) THEN p ELSE table[id]]

(* Mutation: the transaction is left open. *)
SyncWithoutCommit(p) ==
    /\ phase[p] = "syncing"
    /\ next[p] = Len(order[p])
    /\ phase' = [phase EXCEPT ![p] = "working"]
    /\ UNCHANGED <<timeout, manifest, order, next, lock, table, campaign>>

(* With the workers spawned the process takes jobs before it listens.         *)
SyncCommit(p) ==
    /\ phase[p] = "syncing"
    /\ next[p] = Len(order[p])
    /\ table' = Committed(p)
    /\ lock' = Unlocked(p)
    /\ phase' = [phase EXCEPT ![p] = "working"]
    /\ UNCHANGED <<timeout, manifest, order, next, campaign>>

(***************************************************************************)
(* Postgres ends one of the transactions that wait for one another in a       *)
(* cycle; sync_targets then fails and main returns.                          *)
(***************************************************************************)
DeadlockVictim(p) ==
    /\ \E S \in SUBSET Processes : p \in S /\ Deadlocked(S)
    /\ End(p, "victim")

(* TcpListener::bind; when it fails main returns, which is Stop.              *)
Bind(p) ==
    /\ phase[p] = "working"
    /\ phase' = [phase EXCEPT ![p] = "serving"]
    /\ UNCHANGED <<timeout, manifest, order, next, lock, table, campaign>>

-----------------------------------------------------------------------------
(***************************************************************************)
(* create_campaign; a refused request changes nothing.                       *)
(***************************************************************************)
(* Mutation: only the lower end of the budget is checked. *)
BudgetPositive(p, b) == 1 <= b

(* AppState::max_time_budget_secs is the timeout as an i64.                    *)
BudgetAccepted(p, b) == 1 <= b /\ b <= AsI64(timeout[p])

(* Mutation: the foreign key is left to find out what is no target. *)
AnyTarget(p, id) == table[id] # None

KnownTarget(p, id) == id \in Listed(p)

CreateCampaign(p, c) ==
    /\ phase[p] = "serving"
    /\ campaign[c].phase = "absent"
    /\ \E id \in Ids, b \in Budgets :
          /\ KnownTarget(p, id)
          /\ BudgetAccepted(p, b)
          /\ table[id] # None
          /\ campaign' = [campaign EXCEPT ![c] =
                 [@ EXCEPT !.phase = "queued", !.by = p, !.target = id,
                           !.requested = b, !.stored = AsI32(b)]]
    /\ UNCHANGED <<processVars, lock, table>>

ClaimJob(p, c) ==
    /\ phase[p] \in {"working", "serving"}
    /\ campaign[c].phase = "queued"
    /\ campaign' = [campaign EXCEPT ![c].phase = "claimed", ![c].worker = p]
    /\ UNCHANGED <<processVars, lock, table>>

(***************************************************************************)
(* Worker::process looks the target up and hands the job to the runner, or    *)
(* returns.                                                                  *)
(***************************************************************************)
DropJob(p, c) ==
    /\ campaign[c].phase = "claimed" /\ campaign[c].worker = p
    /\ campaign[c].target \notin Listed(p)
    /\ campaign' = [campaign EXCEPT ![c].phase = "unknown"]
    /\ UNCHANGED <<processVars, lock, table>>

RunJob(p, c) ==
    /\ campaign[c].phase = "claimed" /\ campaign[c].worker = p
    /\ campaign[c].target \in Listed(p)
    /\ campaign' = [campaign EXCEPT ![c].phase = "running",
                                    ![c].maxTotal = AtLeastZero(campaign[c].stored)]
    /\ UNCHANGED <<processVars, lock, table>>

FinishJob(p, c) ==
    /\ campaign[c].phase = "running" /\ campaign[c].worker = p
    /\ campaign' = [campaign EXCEPT ![c].phase = "done"]
    /\ UNCHANGED <<processVars, lock, table>>

Next ==
    \E p \in Processes :
        \/ LoadManifest(p)
        \/ SyncRow(p)
        \/ SyncCommit(p)
        \/ DeadlockVictim(p)
        \/ Bind(p)
        \/ Stop(p)
        \/ \E c \in Campaigns :
              \/ CreateCampaign(p, c)
              \/ ClaimJob(p, c)
              \/ DropJob(p, c)
              \/ RunJob(p, c)
              \/ FinishJob(p, c)

(***************************************************************************)
(* The main task is scheduled, and Postgres answers statements that wait for  *)
(* nothing and looks for deadlocks (deadlock_timeout).                        *)
(***************************************************************************)
Fairness == \A p \in Processes : /\ WF_vars(SyncRow(p))
                                 /\ WF_vars(SyncCommit(p))
                                 /\ WF_vars(DeadlockVictim(p))

Spec == Init /\ [][Next]_vars /\ Fairness

-----------------------------------------------------------------------------
(* Every variable has the values the code can give it: a registry has no      *)
(* blank target, the column and libFuzzer's argument fit their integers.      *)
TypeOK ==
    /\ phase \in [Processes -> Phases]
    /\ timeout \in [Processes -> Timeouts]
    /\ manifest \in [Processes -> Lists(Ids)]
    /\ order \in [Processes -> Lists(Ids)]
    /\ next \in [Processes -> 0 .. MaxRows]
    /\ lock \in [Ids -> Processes \cup {None}]
    /\ table \in [Ids -> Processes \cup {None}]
    /\ campaign \in [Campaigns -> CampaignRecords]

(* A process takes requests and jobs only when every target of its registry   *)
(* has a committed row, whatever the other processes synced since: the        *)
(* foreign key of a campaign it accepts cannot fail.                          *)
NoForeignKeyError ==
    \A p \in Processes : phase[p] \in {"working", "serving"} =>
        \A id \in Listed(p) : table[id] # None

(* The table never mixes two manifests: the rows two processes both list are  *)
(* all of the one or all of the other, or of a third that came after them.    *)
NoMixedManifests ==
    \A p, q \in Processes : p # q =>
        ~\E i, j \in Listed(p) \cap Listed(q) : table[i] = p /\ table[j] = q

Ascending(rank, m) == \A i, j \in DOMAIN m : i < j => rank[m[i]] < rank[m[j]]

(* A start fails on a deadlock of sync_targets only when the manifests        *)
(* disagree on the order of their targets: if one ranking of the ids orders   *)
(* every targets.json that was read, no process was ever a victim.            *)
DeadlockOnlyByOrder ==
    (\E p \in Processes : phase[p] = "victim") =>
        ~\E rank \in [Ids -> 1 .. Cardinality(Ids)] :
            \A q \in Processes : Ascending(rank, manifest[q])

(* The -max_total_time a run gets from any worker is the timeBudgetSecs the   *)
(* client asked for, at least 1 (0 would mean no limit to libFuzzer), unless   *)
(* that does not fit the column.  Then it is another, smaller number; and only *)
(* a process whose JOB_TIMEOUT_SECONDS does not fit either accepts it.         *)
BudgetAsRequested ==
    \A c \in Campaigns : campaign[c].phase \in {"running", "done"} =>
        /\ campaign[c].maxTotal <= campaign[c].requested
        /\ campaign[c].requested <= MaxI32 =>
              campaign[c].maxTotal = campaign[c].requested /\ campaign[c].maxTotal >= 1
        /\ campaign[c].requested > MaxI32 => timeout[campaign[c].by] > MaxI32

(* A claimed job is given up for an unknown target, its campaign queued for   *)
(* ever, only by a process whose targets.json differs from that of the        *)
(* process that accepted the campaign.                                        *)
UnknownOnlyAcrossManifests ==
    \A c \in Campaigns : campaign[c].phase = "unknown" =>
        /\ campaign[c].by # campaign[c].worker
        /\ manifest[campaign[c].by] # manifest[campaign[c].worker]

(* Follow a sync_targets to the transaction it waits for, and that one to the  *)
(* next: one of them can go on, or some wait in a cycle, which Postgres ends.  *)
(* Nobody waits for a lock that a failed start, a crash or a victim left.      *)
NobodyWaitsInVain ==
    \A p \in Processes, C \in SUBSET Processes :
        (phase[p] = "syncing" /\ p \in C /\ \A q \in C : Blocked(q) => Holder(q) \in C)
            => \E q \in C :
                  /\ phase[q] = "syncing"
                  /\ ~Blocked(q) \/ \E S \in SUBSET C : q \in S /\ Deadlocked(S)

(* However the starts of the processes interleave, whoever fails or is        *)
(* killed in the middle, every sync_targets ends.                             *)
SyncEnds == \A p \in Processes : phase[p] = "syncing" ~> phase[p] # "syncing"
=============================================================================
