---------------------------- MODULE Service_proofs ----------------------------
(***************************************************************************)
(* Proofs about Service, for any finite set of processes and of targets, any  *)
(* manifests, timeouts and budgets.                                          *)
(***************************************************************************)
EXTENDS Service, FiniteSetTheorems, WellFoundedInduction, TLAPS

-----------------------------------------------------------------------------
(* A list of at most MaxRows elements is a sequence.                          *)
LEMMA ListsAreSequences ==
    ASSUME NEW S, NEW m \in Lists(S)
    PROVE  /\ m \in Seq(S)
           /\ Len(m) \in 0 .. MaxRows
           /\ DOMAIN m = 1 .. Len(m)
           /\ m \in [1 .. Len(m) -> S]
<1>1. PICK n \in 0 .. MaxRows : m \in [1 .. n -> S]
  BY DEF Lists
<1>2. n \in Nat
  BY NumbersAssumption
<1>3. m \in Seq(S) /\ Len(m) = n
  BY <1>1, <1>2
<1> QED
  BY <1>1, <1>2, <1>3

(* The empty list is a list.                                                 *)
LEMMA EmptyIsList == \A S : <<>> \in Lists(S)
<1> SUFFICES ASSUME NEW S PROVE <<>> \in Lists(S)
  OBVIOUS
<1>1. 0 \in 0 .. MaxRows
  BY NumbersAssumption
<1>2. <<>> \in [1 .. 0 -> S]
  OBVIOUS
<1> QED
  BY <1>1, <1>2 DEF Lists

(* A list without the blank target is a list of ids.                          *)
LEMMA ValidIsOfIds ==
    ASSUME NEW m \in Lists(Ids \cup {Blank}), Valid(m)
    PROVE  m \in Lists(Ids)
<1>1. PICK n \in 0 .. MaxRows : m \in [1 .. n -> Ids \cup {Blank}]
  BY DEF Lists
<1>2. \A i \in 1 .. n : m[i] \in Ids
  BY <1>1 DEF Valid
<1>3. m \in [1 .. n -> Ids]
  BY <1>1, <1>2
<1> QED
  BY <1>3 DEF Lists

(* A cast keeps a number of the type's range, gives a number of it, and takes   *)
(* no natural number to a larger one.                                        *)
LEMMA WrappedFits ==
    ASSUME NEW n \in Int, NEW max \in Nat
    PROVE  /\ Wrapped(n, max) \in (-max - 1) .. max
           /\ n \in 0 .. max => Wrapped(n, max) = n
           /\ n >= 0 => Wrapped(n, max) <= n
<1> DEFINE k == 2 * (max + 1)
<1>1. k \in Nat \ {0} /\ k = 2 * max + 2
  OBVIOUS
<1> HIDE DEF k
<1>2. n % k \in 0 .. k - 1
  BY <1>1
<1>3. n \in 0 .. k - 1 => n % k = n
  BY <1>1
<1>4. n >= 0 => n % k <= n
  BY <1>1, <1>2, <1>3
<1>5. Wrapped(n, max) = IF n % k > max THEN (n % k) - k ELSE n % k
  BY DEF Wrapped, k
<1> QED
  BY <1>1, <1>2, <1>3, <1>4, <1>5

(* The two casts.                                                            *)
LEMMA CastsFit ==
    ASSUME NEW n \in Int
    PROVE  /\ AsI32(n) \in (-MaxI32 - 1) .. MaxI32
           /\ n \in 0 .. MaxI32 => AsI32(n) = n
           /\ n >= 0 => AsI32(n) <= n
           /\ AsI64(n) \in Int
           /\ n >= 0 => AsI64(n) <= n
<1>1. MaxI32 \in Nat /\ MaxI64 \in Nat
  BY NumbersAssumption
<1>2. AsI64(n) \in (-MaxI64 - 1) .. MaxI64 /\ (n >= 0 => AsI64(n) <= n)
  BY <1>1, WrappedFits DEF AsI64
<1>3. /\ AsI32(n) \in (-MaxI32 - 1) .. MaxI32
      /\ n \in 0 .. MaxI32 => AsI32(n) = n
      /\ n >= 0 => AsI32(n) <= n
  BY <1>1, WrappedFits DEF AsI32
<1> QED
  BY <1>1, <1>2, <1>3

LEMMA AtLeastZeroFits ==
    ASSUME NEW n \in (-MaxI32 - 1) .. MaxI32
    PROVE  /\ AtLeastZero(n) \in 0 .. MaxI32
           /\ n >= 0 => AtLeastZero(n) = n
  BY NumbersAssumption DEF AtLeastZero

(* A set of numbers has a largest one, if it has a bound.                     *)
LEMMA Largest ==
    ASSUME NEW N \in Nat, NEW T, T \subseteq 0 .. N, T # {}
    PROVE  \E x \in T : \A y \in T : y <= x
<1> DEFINE D == {N - x : x \in T}
<1>1. D \subseteq Nat /\ D # {}
  <2>1. \A x \in T : N - x \in Nat
    OBVIOUS
  <2> QED BY <2>1
<1>2. PICK d \in D : \A e \in D : ~ (<<e, d>> \in OpToRel(<, Nat))
  <2> HIDE DEF D
  <2> QED BY <1>1, NatLessThanWellFounded, WFMin
<1>3. \A e \in D : ~ (e < d)
  BY <1>1, <1>2 DEF OpToRel
<1>4. PICK x \in T : d = N - x
  OBVIOUS
<1>5. ASSUME NEW y \in T PROVE y <= x
  <2>1. N - y \in D
    OBVIOUS
  <2>2. ~(N - y < N - x)
    BY <1>3, <1>4, <2>1
  <2> QED BY <2>2
<1> QED
  BY <1>5

(* Some part of T is mapped by h onto itself.                                 *)
HasCycle(T, h) ==
    \E M \in SUBSET T : M # {} /\ M = {h[q] : q \in M}

(* A function from a finite nonempty set to itself permutes a part of it: who  *)
(* follows it long enough goes in a cycle.                                    *)
LEMMA SomeCycle ==
    ASSUME NEW T, IsFiniteSet(T), T # {}, NEW h \in [T -> T]
    PROVE  HasCycle(T, h)
<1> DEFINE Closed(A) == A \in SUBSET T /\ A # {} /\ \A q \in A : h[q] \in A
           N == {Cardinality(A) : A \in {B \in SUBSET T : Closed(B)}}
<1>1. Closed(T)
  OBVIOUS
<1>2. \A A \in SUBSET T : Cardinality(A) \in Nat
  BY FS_Subset, FS_CardinalityType
<1>3. N \subseteq Nat /\ N # {}
  BY <1>1, <1>2
<1>4. PICK n \in N : \A k \in N : ~ (<<k, n>> \in OpToRel(<, Nat))
  <2> HIDE DEF N
  <2> QED BY <1>3, NatLessThanWellFounded, WFMin
<1>5. \A k \in N : ~ (k < n)
  BY <1>3, <1>4 DEF OpToRel
<1>6. PICK A \in SUBSET T : Closed(A) /\ n = Cardinality(A)
  OBVIOUS
<1> DEFINE B == {h[q] : q \in A}
<1>7. B \in SUBSET A /\ B # {} /\ \A q \in B : h[q] \in B
  BY <1>6
<1>8. Closed(B) /\ Cardinality(B) \in N
  BY <1>7
<1>9. IsFiniteSet(A)
  BY FS_Subset
<1>10. Cardinality(B) <= Cardinality(A) /\ (Cardinality(A) = Cardinality(B) => A = B)
  BY <1>7, <1>9, FS_Subset
<1>11. Cardinality(A) = Cardinality(B)
  <2>1. Cardinality(A) \in Nat /\ Cardinality(B) \in Nat
    BY <1>2, <1>7
  <2> HIDE DEF N, B
  <2> QED BY <1>5, <1>6, <1>8, <1>10, <2>1
<1> QED
  BY <1>6, <1>7, <1>10, <1>11 DEF HasCycle
-----------------------------------------------------------------------------
(***************************************************************************)
(* The invariant.                                                            *)
(***************************************************************************)
(* Until it has read its targets.json a process has no targets; then its       *)
(* registry is in the file's order, without duplicates.                        *)
RegistryInv ==
    \A p \in Processes :
        /\ phase[p] = "starting" => manifest[p] = <<>> /\ next[p] = 0
        /\ order[p] = manifest[p]
        /\ next[p] <= Len(order[p])
        /\ \A i, j \in DOMAIN order[p] : order[p][i] = order[p][j] => i = j

(* The locks are of the rows the transactions in progress have upserted.       *)
LockInv ==
    \A p \in Processes, id \in Ids :
        lock[id] = p <=> phase[p] = "syncing"
                            /\ \E i \in 1 .. next[p] : order[p][i] = id

(* No ranking of the ids orders every manifest.                              *)
NoRanking ==
    ~\E rank \in [Ids -> 1 .. Cardinality(Ids)] :
        \A q \in Processes : Ascending(rank, manifest[q])

VictimInv == (\E p \in Processes : phase[p] = "victim") => NoRanking

Registered(p) == p \in Processes /\ phase[p] \notin {"starting", "syncing"}

(* Only a sync that ended with its commit wrote rows.                          *)
TableInv == \A id \in Ids : table[id] # None => Registered(table[id])

(* What a campaign's record says of the process that accepted it and of the    *)
(* one that took its job.                                                    *)
CampaignInv(c) ==
    campaign[c].phase # "absent" =>
        /\ Registered(campaign[c].by)
        /\ campaign[c].target \in Listed(campaign[c].by)
        /\ campaign[c].requested \in 1 .. timeout[campaign[c].by]
        /\ campaign[c].stored = AsI32(campaign[c].requested)
        /\ campaign[c].phase # "queued" => Registered(campaign[c].worker)
        /\ campaign[c].phase = "unknown" =>
              campaign[c].target \notin Listed(campaign[c].worker)
        /\ campaign[c].phase \in {"running", "done"} =>
              campaign[c].maxTotal = AtLeastZero(campaign[c].stored)

Inv ==
    /\ TypeOK
    /\ RegistryInv
    /\ LockInv
    /\ NoForeignKeyError
    /\ NoMixedManifests
    /\ VictimInv
    /\ TableInv
    /\ \A c \in Campaigns : CampaignInv(c)

(* The rows a process lists are ids.                                          *)
LEMMA ListedAreIds ==
    ASSUME TypeOK, NEW p \in Processes
    PROVE  Listed(p) \subseteq Ids /\ Len(order[p]) \in Nat
                /\ DOMAIN order[p] = 1 .. Len(order[p])
<1>1. order[p] \in Lists(Ids)
  BY DEF TypeOK
<1>2. order[p] \in [1 .. Len(order[p]) -> Ids] /\ Len(order[p]) \in 0 .. MaxRows
      /\ DOMAIN order[p] = 1 .. Len(order[p])
  BY <1>1, ListsAreSequences
<1> QED
  BY <1>2, NumbersAssumption DEF Listed

(* The same after a step.                                                    *)
LEMMA ListedAreIdsNext ==
    ASSUME TypeOK', NEW p \in Processes
    PROVE  Listed(p)' \subseteq Ids
<1>1. order'[p] \in Lists(Ids)
  BY DEF TypeOK
<1>2. order'[p] \in [1 .. Len(order'[p]) -> Ids]
      /\ DOMAIN order'[p] = 1 .. Len(order'[p])
  BY <1>1, ListsAreSequences
<1> QED
  BY <1>2 DEF Listed

(* The row a transaction upserts next is an id.                               *)
LEMMA NextRowIsId ==
    ASSUME TypeOK, NEW p \in Processes, Pending(p)
    PROVE  NextRow(p) \in Ids /\ next[p] + 1 \in 1 .. Len(order[p])
<1>1. next[p] \in Nat /\ next[p] < Len(order[p])
  BY NumbersAssumption DEF TypeOK, Pending
<1>2. next[p] + 1 \in DOMAIN order[p]
  BY <1>1, ListedAreIds
<1> QED
  BY <1>2, ListedAreIds DEF NextRow, Listed

(* The initial states satisfy the invariant.                                 *)
LEMMA InitInv == Init => Inv
<1> SUFFICES ASSUME Init PROVE Inv
  OBVIOUS
<1> USE DEF Init
<1>1. TypeOK
  <2>1. Absent \in CampaignRecords
    BY NumbersAssumption DEF Absent, CampaignRecords, CampaignPhases
  <2>2. 0 \in 0 .. MaxRows
    BY NumbersAssumption
  <2> QED
    BY <2>1, <2>2, EmptyIsList DEF TypeOK, Phases
<1>2. \A p \in Processes : Len(order[p]) = 0 /\ DOMAIN order[p] = {}
  OBVIOUS
<1>3. RegistryInv
  BY <1>2 DEF RegistryInv
<1>4. LockInv
  BY ProcessesAssumption DEF LockInv
<1>5. NoForeignKeyError /\ VictimInv /\ TableInv
  BY DEF NoForeignKeyError, VictimInv, TableInv
<1>6. NoMixedManifests
  BY <1>2 DEF NoMixedManifests, Listed
<1>7. \A c \in Campaigns : CampaignInv(c)
  BY DEF CampaignInv, Absent
<1> QED
  BY <1>1, <1>3, <1>4, <1>5, <1>6, <1>7 DEF Inv

-----------------------------------------------------------------------------
(***************************************************************************)
(* Deadlocks.                                                                *)
(***************************************************************************)
(* When transactions wait for one another in a cycle, no ranking orders every  *)
(* manifest: the one that waits for the highest row is waited for by nobody it *)
(* waits for.                                                                *)
LEMMA DeadlockNeedsDisagreement ==
    ASSUME Inv, NEW S \in SUBSET Processes, NEW p \in S,
           Deadlocked(S)
    PROVE  NoRanking
<1> SUFFICES ASSUME NEW rank \in [Ids -> 1 .. Cardinality(Ids)],
                    \A q \in Processes : Ascending(rank, manifest[q])
             PROVE  FALSE
  BY DEF NoRanking
<1> DEFINE T == {rank[NextRow(q)] : q \in S}
<1>1. \A q \in S : Pending(q) /\ NextRow(q) \in Ids
  BY NextRowIsId DEF Inv, Deadlocked, Blocked
<1>2. Cardinality(Ids) \in Nat
  BY FS_CardinalityType, IdsAssumption
<1>3. T \subseteq 0 .. Cardinality(Ids) /\ T # {}
  <2>1. \A q \in S : rank[NextRow(q)] \in 0 .. Cardinality(Ids)
    BY <1>1, <1>2
  <2> QED BY <2>1
<1>4. PICK x \in T : \A y \in T : y <= x
  <2> HIDE DEF T
  <2> QED BY <1>2, <1>3, Largest
<1>5. PICK q \in S : x = rank[NextRow(q)]
  BY <1>4
<1>6. PICK r \in S : r = lock[NextRow(q)] /\ r \in Processes
  BY DEF Deadlocked, Holder
<1>7. PICK i \in 1 .. next[r] : order[r][i] = NextRow(q)
  <2>1. NextRow(q) \in Ids
    BY <1>1
  <2> QED BY <1>6, <2>1 DEF Inv, LockInv
<1>8. next[r] + 1 \in DOMAIN order[r] /\ next[r] \in Nat /\ Pending(r)
  <2>1. TypeOK /\ Pending(r)
    BY <1>1, <1>6 DEF Inv
  <2>2. next[r] \in Nat
    BY <1>6, <2>1, NumbersAssumption DEF TypeOK
  <2> QED BY <1>6, <2>1, <2>2, NextRowIsId, ListedAreIds
<1>9. manifest[r] = order[r] /\ Ascending(rank, manifest[r])
  BY <1>6 DEF Inv, RegistryInv
<1>10. i \in DOMAIN order[r] /\ i < next[r] + 1
  BY <1>7, <1>8, <1>6, ListedAreIds DEF Inv
<1>11. rank[NextRow(q)] < rank[NextRow(r)]
  BY <1>7, <1>8, <1>9, <1>10 DEF Ascending, NextRow
<1>12. rank[NextRow(r)] <= rank[NextRow(q)]
  BY <1>4, <1>5, <1>6
<1> QED
  BY <1>1, <1>2, <1>6, <1>11, <1>12

-----------------------------------------------------------------------------
(***************************************************************************)
(* The steps.                                                                *)
(***************************************************************************)
(* A record of a campaign stays one, and so does what is known of it, when     *)
(* only its phase becomes "lost".                                            *)
LEMMA OrphanedKeepsCampaigns ==
    ASSUME Inv, NEW p \in Processes
    PROVE  /\ Orphaned(p) \in [Campaigns -> CampaignRecords]
           /\ \A c \in Campaigns :
                 \/ Orphaned(p)[c] = campaign[c]
                 \/ /\ campaign[c].phase \in {"claimed", "running"}
                    /\ Orphaned(p)[c] = [campaign[c] EXCEPT !.phase = "lost"]
<1>1. \A c \in Campaigns : campaign[c] \in CampaignRecords
  BY DEF Inv, TypeOK
<1>2. \A c \in Campaigns : [campaign[c] EXCEPT !.phase = "lost"] \in CampaignRecords
  BY <1>1 DEF CampaignRecords, CampaignPhases
<1> QED
  BY <1>1, <1>2 DEF Orphaned

(* The end of a process preserves the invariant, when it may end that way.     *)
LEMMA EndInv ==
    ASSUME Inv, NEW p \in Processes, NEW as \in {"stopped", "victim"},
           End(p, as), as = "victim" => NoRanking
    PROVE  Inv'
<1>1. /\ phase' = [phase EXCEPT ![p] = as]
      /\ lock' = Unlocked(p)
      /\ campaign' = Orphaned(p)
      /\ UNCHANGED <<timeout, manifest, order, next, table>>
  BY DEF End
<1>2. TypeOK'
  <2>1. phase' \in [Processes -> Phases]
    BY <1>1 DEF Inv, TypeOK, Phases
  <2>2. lock' \in [Ids -> Processes \cup {None}]
    BY <1>1 DEF Inv, TypeOK, Unlocked
  <2>3. campaign' \in [Campaigns -> CampaignRecords]
    BY <1>1, OrphanedKeepsCampaigns
  <2> QED
    BY <1>1, <2>1, <2>2, <2>3 DEF Inv, TypeOK
<1>3. \A q \in Processes : phase'[q] = phase[q] \/ (q = p /\ phase'[q] \in {"stopped", "victim"})
  BY <1>1 DEF Inv, TypeOK
<1>4. RegistryInv'
  BY <1>1, <1>3 DEF Inv, RegistryInv
<1>5. LockInv'
  <2> SUFFICES ASSUME NEW q \in Processes, NEW id \in Ids
               PROVE  (lock[id] = q <=> phase[q] = "syncing"
                                          /\ \E i \in 1 .. next[q] : order[q][i] = id)'
    BY DEF LockInv
  <2>1. lock'[id] = IF lock[id] = p THEN None ELSE lock[id]
    BY <1>1 DEF Unlocked
  <2>2. lock[id] = q <=> phase[q] = "syncing" /\ \E i \in 1 .. next[q] : order[q][i] = id
    BY DEF Inv, LockInv
  <2>3. phase'[p] # "syncing" /\ (q # p => phase'[q] = phase[q])
    BY <1>1 DEF Inv, TypeOK
  <2> QED
    BY <1>1, <2>1, <2>2, <2>3, ProcessesAssumption
<1>6. NoForeignKeyError'
  <2>1. \A q : Listed(q)' = Listed(q)
    BY <1>1 DEF Listed
  <2>2. table' = table
    BY <1>1
  <2> QED
    BY <1>3, <2>1, <2>2 DEF Inv, NoForeignKeyError
<1>7. NoMixedManifests'
  BY <1>1 DEF Inv, NoMixedManifests, Listed
<1>8. VictimInv'
  <2>1. NoRanking' <=> NoRanking
    BY <1>1 DEF NoRanking
  <2>2. (\E q \in Processes : phase'[q] = "victim") =>
            as = "victim" \/ \E q \in Processes : phase[q] = "victim"
    BY <1>1 DEF Inv, TypeOK
  <2> QED
    BY <2>1, <2>2 DEF Inv, VictimInv
<1>9. ASSUME NEW c \in Campaigns PROVE CampaignInv(c)'
  <2>1. campaign[c] \in CampaignRecords /\ CampaignInv(c)
    BY DEF Inv, TypeOK
  <2>2. \A q : Registered(q) => Registered(q)'
    BY <1>3 DEF Registered
  <2>3. \A q : Listed(q)' = Listed(q)
    BY <1>1 DEF Listed
  <2>4. CASE campaign'[c] = campaign[c]
    BY <1>1, <2>1, <2>2, <2>3, <2>4 DEF CampaignInv
  <2>5. CASE /\ campaign[c].phase \in {"claimed", "running"}
             /\ campaign'[c] = [campaign[c] EXCEPT !.phase = "lost"]
    <3>1. /\ campaign'[c].phase = "lost" /\ campaign'[c].by = campaign[c].by
          /\ campaign'[c].target = campaign[c].target
          /\ campaign'[c].requested = campaign[c].requested
          /\ campaign'[c].stored = campaign[c].stored
          /\ campaign'[c].worker = campaign[c].worker
      BY <2>1, <2>5 DEF CampaignRecords
    <3> QED
      BY <1>1, <2>1, <2>2, <2>3, <2>5, <3>1 DEF CampaignInv
  <2> QED
    BY <1>1, <2>4, <2>5, OrphanedKeepsCampaigns
<1>10. TableInv'
  BY <1>1, <1>3 DEF Inv, TableInv, Registered
<1> QED
  BY <1>2, <1>4, <1>5, <1>6, <1>7, <1>8, <1>9, <1>10 DEF Inv

(* Reading targets.json preserves the invariant.                             *)
LEMMA LoadManifestInv ==
    ASSUME Inv, NEW p \in Processes, LoadManifest(p)
    PROVE  Inv'
<1>1. PICK m \in Lists(Ids \cup {Blank}) :
         /\ Valid(m)
         /\ manifest' = [manifest EXCEPT ![p] = m]
         /\ order' = [order EXCEPT ![p] = m]
  BY DEF LoadManifest
<1>2. /\ phase[p] = "starting"
      /\ phase' = [phase EXCEPT ![p] = "syncing"]
      /\ UNCHANGED <<timeout, next, lock, table, campaign>>
  BY DEF LoadManifest
<1>3. m \in Lists(Ids) /\ Len(m) \in Nat
  <2>1. m \in Lists(Ids)
    BY <1>1, ValidIsOfIds
  <2> QED BY <2>1, ListsAreSequences, NumbersAssumption
<1>4. manifest[p] = <<>> /\ order[p] = <<>> /\ next[p] = 0
  BY <1>2 DEF Inv, RegistryInv
<1>5. /\ phase'[p] = "syncing" /\ manifest'[p] = m /\ order'[p] = m
      /\ \A q \in Processes : q # p => /\ phase'[q] = phase[q]
                                       /\ manifest'[q] = manifest[q]
                                       /\ order'[q] = order[q]
  BY <1>1, <1>2 DEF Inv, TypeOK
<1>6. TypeOK'
  BY <1>1, <1>2, <1>3 DEF Inv, TypeOK, Phases
<1>7. RegistryInv'
  BY <1>1, <1>2, <1>3, <1>4, <1>5 DEF Inv, RegistryInv, Valid
<1>8. LockInv'
  BY <1>2, <1>4, <1>5 DEF Inv, LockInv
<1>9. \A q \in Processes : q # p => Listed(q)' = Listed(q)
  BY <1>5 DEF Listed
<1>10. NoForeignKeyError'
  BY <1>2, <1>5, <1>9 DEF Inv, NoForeignKeyError
<1>11. NoMixedManifests'
  <2>1. \A id \in Ids : table[id] # p
    BY <1>2, ProcessesAssumption DEF Inv, TableInv, Registered
  <2> SUFFICES ASSUME NEW q \in Processes, NEW r \in Processes, q # r,
                      NEW i \in Listed(q)' \cap Listed(r)',
                      NEW j \in Listed(q)' \cap Listed(r)',
                      table[i] = q, table[j] = r
               PROVE  FALSE
    BY <1>2 DEF NoMixedManifests
  <2>2. i \in Ids /\ j \in Ids
    BY <1>6, ListedAreIdsNext
  <2>3. q # p /\ r # p
    BY <2>1, <2>2
  <2> QED
    BY <1>9, <2>3 DEF Inv, NoMixedManifests
<1>12. VictimInv'
  <2>1. (\E q \in Processes : phase'[q] = "victim") => \E q \in Processes : phase[q] = "victim"
    BY <1>5
  <2>2. ASSUME NEW rank, \A q \in Processes : Ascending(rank, manifest'[q])
        PROVE  \A q \in Processes : Ascending(rank, manifest[q])
    <3>1. Ascending(rank, manifest[p])
      BY <1>4 DEF Ascending
    <3> QED
      BY <1>5, <2>2, <3>1
  <2>3. NoRanking => NoRanking'
    BY <2>2 DEF NoRanking
  <2> QED
    BY <2>1, <2>3 DEF Inv, VictimInv
<1>13. \A c \in Campaigns : CampaignInv(c)'
  BY <1>2, <1>5, <1>9 DEF Inv, CampaignInv, Registered
<1>14. TableInv'
  BY <1>2, <1>5 DEF Inv, TableInv, Registered
<1> QED
  BY <1>6, <1>7, <1>8, <1>10, <1>11, <1>12, <1>13, <1>14 DEF Inv

(* An upsert preserves the invariant.                                        *)
LEMMA SyncRowInv ==
    ASSUME Inv, NEW p \in Processes, SyncRow(p)
    PROVE  Inv'
<1> DEFINE id == NextRow(p)
<1>1. /\ Pending(p) /\ lock[id] \in {None, p}
      /\ lock' = [lock EXCEPT ![id] = p]
      /\ next' = [next EXCEPT ![p] = @ + 1]
      /\ UNCHANGED <<phase, timeout, manifest, order, table, campaign>>
  BY DEF SyncRow, Blocked, Holder
<1>2. TypeOK /\ id \in Ids /\ phase[p] = "syncing" /\ next[p] < Len(order[p])
  BY <1>1, NextRowIsId DEF Inv, Pending
<1>3. next[p] \in Nat /\ Len(order[p]) \in 0 .. MaxRows /\ id = order[p][next[p] + 1]
  <2>1. order[p] \in Lists(Ids) /\ next[p] \in 0 .. MaxRows
    BY <1>2 DEF TypeOK
  <2> QED
    BY <2>1, ListsAreSequences, NumbersAssumption DEF NextRow
<1> HIDE DEF id
<1>4. next'[p] = next[p] + 1 /\ \A q \in Processes : q # p => next'[q] = next[q]
  BY <1>1, <1>2 DEF TypeOK
<1>5. TypeOK'
  <2>1. next[p] + 1 \in 0 .. MaxRows
    BY <1>2, <1>3, NumbersAssumption
  <2>2. next' \in [Processes -> 0 .. MaxRows] /\ lock' \in [Ids -> Processes \cup {None}]
    BY <1>1, <1>2, <2>1 DEF TypeOK
  <2> QED
    BY <1>1, <1>2, <2>2 DEF TypeOK
<1>6. RegistryInv'
  BY <1>1, <1>2, <1>3, <1>4 DEF Inv, RegistryInv
<1>7. LockInv'
  <2> SUFFICES ASSUME NEW q \in Processes, NEW row \in Ids
               PROVE  (lock[row] = q <=> phase[q] = "syncing"
                                           /\ \E i \in 1 .. next[q] : order[q][i] = row)'
    BY DEF LockInv
  <2>1. lock'[row] = IF row = id THEN p ELSE lock[row]
    BY <1>1, <1>2 DEF TypeOK
  <2>2. lock[row] = q <=> phase[q] = "syncing"
                            /\ \E i \in 1 .. next[q] : order[q][i] = row
    BY DEF Inv, LockInv
  <2>3. CASE q = p
    BY <1>1, <1>2, <1>3, <1>4, <2>1, <2>2, <2>3
  <2>4. CASE q # p
    BY <1>1, <1>2, <1>4, <2>1, <2>2, <2>4, ProcessesAssumption
  <2> QED
    BY <2>3, <2>4
<1>8. NoForeignKeyError' /\ NoMixedManifests'
  BY <1>1 DEF Inv, NoForeignKeyError, NoMixedManifests, Listed
<1>9. VictimInv'
  BY <1>1 DEF Inv, VictimInv, NoRanking
<1>10. TableInv' /\ \A c \in Campaigns : CampaignInv(c)'
  BY <1>1 DEF Inv, TableInv, CampaignInv, Registered, Listed
<1> QED
  BY <1>5, <1>6, <1>7, <1>8, <1>9, <1>10 DEF Inv

(* The commit preserves the invariant.                                       *)
LEMMA SyncCommitInv ==
    ASSUME Inv, NEW p \in Processes, SyncCommit(p)
    PROVE  Inv'
<1>1. /\ phase[p] = "syncing"
      /\ table' = Committed(p)
      /\ lock' = Unlocked(p)
      /\ phase' = [phase EXCEPT ![p] = "working"]
      /\ UNCHANGED <<timeout, manifest, order, next, campaign>>
  BY DEF SyncCommit
<1>2. phase'[p] = "working" /\ \A q \in Processes : q # p => phase'[q] = phase[q]
  BY <1>1 DEF Inv, TypeOK
<1>3. \A q : Listed(q)' = Listed(q)
  BY <1>1 DEF Listed
<1>4. \A row \in Ids : table'[row] = IF row \in Listed(p) THEN p ELSE table[row]
  BY <1>1 DEF Committed
<1>5. TypeOK'
  <2>1. table' \in [Ids -> Processes \cup {None}] /\ lock' \in [Ids -> Processes \cup {None}]
    BY <1>1 DEF Inv, TypeOK, Committed, Unlocked
  <2> QED
    BY <1>1, <2>1 DEF Inv, TypeOK, Phases
<1>6. RegistryInv'
  BY <1>1, <1>2 DEF Inv, RegistryInv
<1>7. LockInv'
  <2> SUFFICES ASSUME NEW q \in Processes, NEW row \in Ids
               PROVE  (lock[row] = q <=> phase[q] = "syncing"
                                           /\ \E i \in 1 .. next[q] : order[q][i] = row)'
    BY DEF LockInv
  <2>1. lock'[row] = IF lock[row] = p THEN None ELSE lock[row]
    BY <1>1 DEF Unlocked
  <2>2. lock[row] = q <=> phase[q] = "syncing"
                            /\ \E i \in 1 .. next[q] : order[q][i] = row
    BY DEF Inv, LockInv
  <2> QED
    BY <1>1, <1>2, <2>1, <2>2, ProcessesAssumption
<1>8. NoForeignKeyError'
  <2> SUFFICES ASSUME NEW q \in Processes, phase'[q] \in {"working", "serving"},
                      NEW row \in Listed(q)
               PROVE  table'[row] # None
    BY <1>3 DEF NoForeignKeyError
  <2>1. row \in Ids
    BY ListedAreIds DEF Inv
  <2>2. q # p => table[row] # None
    BY <1>2 DEF Inv, NoForeignKeyError
  <2> QED
    BY <1>4, <2>1, <2>2, ProcessesAssumption
<1>9. NoMixedManifests'
  <2> SUFFICES ASSUME NEW q \in Processes, NEW r \in Processes, q # r,
                      NEW i \in Listed(q) \cap Listed(r),
                      NEW j \in Listed(q) \cap Listed(r),
                      table'[i] = q, table'[j] = r
               PROVE  FALSE
    BY <1>3 DEF NoMixedManifests
  <2>1. i \in Ids /\ j \in Ids
    BY ListedAreIds DEF Inv
  <2>2. q # p /\ r # p
    BY <1>4, <2>1
  <2>3. table[i] = q /\ table[j] = r
    BY <1>4, <2>1, <2>2
  <2> QED
    BY <2>3 DEF Inv, NoMixedManifests
<1>10. VictimInv'
  BY <1>1, <1>2 DEF Inv, VictimInv, NoRanking
<1>11. TableInv'
  BY <1>2, <1>4 DEF Inv, TableInv, Registered
<1>12. \A c \in Campaigns : CampaignInv(c)'
  BY <1>1, <1>2, <1>3 DEF Inv, CampaignInv, Registered
<1> QED
  BY <1>5, <1>6, <1>7, <1>8, <1>9, <1>10, <1>11, <1>12 DEF Inv

(* Binding the listener preserves the invariant.                             *)
LEMMA BindInv ==
    ASSUME Inv, NEW p \in Processes, Bind(p)
    PROVE  Inv'
<1>1. /\ phase[p] = "working"
      /\ phase' = [phase EXCEPT ![p] = "serving"]
      /\ UNCHANGED <<timeout, manifest, order, next, lock, table, campaign>>
  BY DEF Bind
<1>2. phase'[p] = "serving" /\ \A q \in Processes : q # p => phase'[q] = phase[q]
  BY <1>1 DEF Inv, TypeOK
<1>3. \A q : Listed(q)' = Listed(q)
  BY <1>1 DEF Listed
<1>4. TypeOK'
  BY <1>1 DEF Inv, TypeOK, Phases
<1>5. RegistryInv' /\ LockInv'
  BY <1>1, <1>2 DEF Inv, RegistryInv, LockInv
<1>6. NoForeignKeyError' /\ NoMixedManifests'
  BY <1>1, <1>2, <1>3 DEF Inv, NoForeignKeyError, NoMixedManifests
<1>7. VictimInv'
  BY <1>1, <1>2 DEF Inv, VictimInv, NoRanking
<1>8. TableInv' /\ \A c \in Campaigns : CampaignInv(c)'
  BY <1>1, <1>2, <1>3 DEF Inv, TableInv, CampaignInv, Registered
<1> QED
  BY <1>4, <1>5, <1>6, <1>7, <1>8 DEF Inv

(* A step of one campaign preserves the invariant when it leaves a good record *)
(* of that campaign.                                                         *)
LEMMA CampaignStepInv ==
    ASSUME Inv, NEW c \in Campaigns, NEW w,
           campaign' = [campaign EXCEPT ![c] = w],
           w \in CampaignRecords,
           UNCHANGED <<processVars, lock, table>>,
           CampaignInv(c)'
    PROVE  Inv'
<1>1. TypeOK'
  BY DEF Inv, TypeOK, processVars
<1>2. RegistryInv' /\ LockInv' /\ NoForeignKeyError' /\ NoMixedManifests'
  BY DEF Inv, RegistryInv, LockInv, NoForeignKeyError, NoMixedManifests, Listed, processVars
<1>3. VictimInv' /\ TableInv'
  BY DEF Inv, VictimInv, NoRanking, TableInv, Registered, processVars
<1>4. ASSUME NEW d \in Campaigns, d # c PROVE CampaignInv(d)'
  BY <1>4 DEF Inv, TypeOK, CampaignInv, Registered, Listed, processVars
<1> QED
  BY <1>1, <1>2, <1>3, <1>4 DEF Inv

(* Accepting a campaign preserves the invariant.                             *)
LEMMA CreateCampaignInv ==
    ASSUME Inv, NEW p \in Processes, NEW c \in Campaigns, CreateCampaign(p, c)
    PROVE  Inv'
<1>1. PICK id \in Ids, b \in Budgets :
         /\ id \in Listed(p) /\ 1 <= b /\ b <= AsI64(timeout[p])
         /\ campaign' = [campaign EXCEPT ![c] =
                [@ EXCEPT !.phase = "queued", !.by = p, !.target = id,
                          !.requested = b, !.stored = AsI32(b)]]
  BY DEF CreateCampaign, KnownTarget, BudgetAccepted
<1>2. phase[p] = "serving" /\ UNCHANGED <<processVars, lock, table>>
  BY DEF CreateCampaign
<1>3. PICK w : w = [campaign[c] EXCEPT !.phase = "queued", !.by = p, !.target = id,
                                       !.requested = b, !.stored = AsI32(b)]
  OBVIOUS
<1>4. campaign' = [campaign EXCEPT ![c] = w] /\ campaign'[c] = w
  BY <1>1, <1>3 DEF Inv, TypeOK
<1>5. campaign[c] \in CampaignRecords /\ b \in Int
  BY NumbersAssumption DEF Inv, TypeOK
<1>6. AsI32(b) \in (-MaxI32 - 1) .. MaxI32
  BY <1>5, CastsFit
<1>7. w \in CampaignRecords
  BY <1>3, <1>5, <1>6 DEF CampaignRecords, CampaignPhases
<1>8. /\ w.phase = "queued" /\ w.by = p /\ w.target = id
      /\ w.requested = b /\ w.stored = AsI32(b)
  BY <1>3, <1>5 DEF CampaignRecords
<1>9. timeout[p] \in Nat /\ b <= timeout[p]
  <2>1. timeout[p] \in Nat
    BY NumbersAssumption DEF Inv, TypeOK
  <2>2. AsI64(timeout[p]) \in Int /\ AsI64(timeout[p]) <= timeout[p]
    BY <2>1, CastsFit
  <2> QED
    BY <1>1, <1>5, <2>1, <2>2
<1>10. CampaignInv(c)'
  BY <1>1, <1>2, <1>4, <1>5, <1>8, <1>9 DEF CampaignInv, Registered, Listed, processVars
<1> QED
  BY <1>2, <1>4, <1>7, <1>10, CampaignStepInv

(* Claiming a job preserves the invariant.                                   *)
LEMMA ClaimJobInv ==
    ASSUME Inv, NEW p \in Processes, NEW c \in Campaigns, ClaimJob(p, c)
    PROVE  Inv'
<1>1. /\ phase[p] \in {"working", "serving"} /\ campaign[c].phase = "queued"
      /\ campaign' = [campaign EXCEPT ![c].phase = "claimed", ![c].worker = p]
      /\ UNCHANGED <<processVars, lock, table>>
  BY DEF ClaimJob
<1>2. PICK w : w = [campaign[c] EXCEPT !.phase = "claimed", !.worker = p]
  OBVIOUS
<1>3. campaign[c] \in CampaignRecords /\ CampaignInv(c)
  BY DEF Inv, TypeOK
<1>4. campaign' = [campaign EXCEPT ![c] = w] /\ campaign'[c] = w
  BY <1>1, <1>2 DEF Inv, TypeOK
<1>5. w \in CampaignRecords
  BY <1>2, <1>3 DEF CampaignRecords, CampaignPhases
<1>6. /\ w.phase = "claimed" /\ w.worker = p
      /\ w.by = campaign[c].by /\ w.target = campaign[c].target
      /\ w.requested = campaign[c].requested /\ w.stored = campaign[c].stored
  BY <1>2, <1>3 DEF CampaignRecords
<1>7. CampaignInv(c)'
  <2>1. /\ \A q : (Listed(q)' = Listed(q)) /\ (Registered(q)' <=> Registered(q))
        /\ timeout' = timeout
    BY <1>1 DEF Registered, Listed, processVars
  <2>2. campaign[c].phase # "absent" /\ Registered(p)
    BY <1>1 DEF Registered
  <2> QED
    BY <1>1, <1>3, <1>4, <1>6, <2>1, <2>2 DEF CampaignInv
<1> QED
  BY <1>1, <1>4, <1>5, <1>7, CampaignStepInv

(* Giving up on an unknown target preserves the invariant.                    *)
LEMMA DropJobInv ==
    ASSUME Inv, NEW p \in Processes, NEW c \in Campaigns, DropJob(p, c)
    PROVE  Inv'
<1>1. /\ campaign[c].phase = "claimed" /\ campaign[c].worker = p
      /\ campaign[c].target \notin Listed(p)
      /\ campaign' = [campaign EXCEPT ![c].phase = "unknown"]
      /\ UNCHANGED <<processVars, lock, table>>
  BY DEF DropJob
<1>2. PICK w : w = [campaign[c] EXCEPT !.phase = "unknown"]
  OBVIOUS
<1>3. campaign[c] \in CampaignRecords /\ CampaignInv(c)
  BY DEF Inv, TypeOK
<1>4. campaign' = [campaign EXCEPT ![c] = w] /\ campaign'[c] = w
  BY <1>1, <1>2 DEF Inv, TypeOK
<1>5. w \in CampaignRecords
  BY <1>2, <1>3 DEF CampaignRecords, CampaignPhases
<1>6. /\ w.phase = "unknown" /\ w.worker = p
      /\ w.by = campaign[c].by /\ w.target = campaign[c].target
      /\ w.requested = campaign[c].requested /\ w.stored = campaign[c].stored
  BY <1>1, <1>2, <1>3 DEF CampaignRecords
<1>7. CampaignInv(c)'
  <2>1. /\ \A q : (Listed(q)' = Listed(q)) /\ (Registered(q)' <=> Registered(q))
        /\ timeout' = timeout
    BY <1>1 DEF Registered, Listed, processVars
  <2>2. campaign[c].phase # "absent" /\ campaign[c].phase # "queued"
    BY <1>1
  <2> QED
    BY <1>1, <1>3, <1>4, <1>6, <2>1, <2>2 DEF CampaignInv
<1> QED
  BY <1>1, <1>4, <1>5, <1>7, CampaignStepInv

(* Starting the runner preserves the invariant.                              *)
LEMMA RunJobInv ==
    ASSUME Inv, NEW p \in Processes, NEW c \in Campaigns, RunJob(p, c)
    PROVE  Inv'
<1>1. /\ campaign[c].phase = "claimed" /\ campaign[c].worker = p
      /\ campaign' = [campaign EXCEPT ![c].phase = "running",
                                      ![c].maxTotal = AtLeastZero(campaign[c].stored)]
      /\ UNCHANGED <<processVars, lock, table>>
  BY DEF RunJob
<1>2. PICK w : w = [campaign[c] EXCEPT !.phase = "running",
                                       !.maxTotal = AtLeastZero(campaign[c].stored)]
  OBVIOUS
<1>3. campaign[c] \in CampaignRecords /\ CampaignInv(c)
  BY DEF Inv, TypeOK
<1>4. campaign' = [campaign EXCEPT ![c] = w] /\ campaign'[c] = w
  BY <1>1, <1>2 DEF Inv, TypeOK
<1>5. AtLeastZero(campaign[c].stored) \in 0 .. MaxI32
  BY <1>3, AtLeastZeroFits DEF CampaignRecords
<1>6. w \in CampaignRecords
  BY <1>2, <1>3, <1>5 DEF CampaignRecords, CampaignPhases
<1>7. /\ w.phase = "running" /\ w.worker = p
      /\ w.maxTotal = AtLeastZero(w.stored)
      /\ w.by = campaign[c].by /\ w.target = campaign[c].target
      /\ w.requested = campaign[c].requested /\ w.stored = campaign[c].stored
  BY <1>1, <1>2, <1>3 DEF CampaignRecords
<1>8. CampaignInv(c)'
  <2>1. /\ \A q : (Listed(q)' = Listed(q)) /\ (Registered(q)' <=> Registered(q))
        /\ timeout' = timeout
    BY <1>1 DEF Registered, Listed, processVars
  <2>2. campaign[c].phase # "absent" /\ campaign[c].phase # "queued"
    BY <1>1
  <2> QED
    BY <1>1, <1>3, <1>4, <1>7, <2>1, <2>2 DEF CampaignInv
<1> QED
  BY <1>1, <1>4, <1>6, <1>8, CampaignStepInv

(* The end of a run preserves the invariant.                                 *)
LEMMA FinishJobInv ==
    ASSUME Inv, NEW p \in Processes, NEW c \in Campaigns, FinishJob(p, c)
    PROVE  Inv'
<1>1. /\ campaign[c].phase = "running" /\ campaign[c].worker = p
      /\ campaign' = [campaign EXCEPT ![c].phase = "done"]
      /\ UNCHANGED <<processVars, lock, table>>
  BY DEF FinishJob
<1>2. PICK w : w = [campaign[c] EXCEPT !.phase = "done"]
  OBVIOUS
<1>3. campaign[c] \in CampaignRecords /\ CampaignInv(c)
  BY DEF Inv, TypeOK
<1>4. campaign' = [campaign EXCEPT ![c] = w] /\ campaign'[c] = w
  BY <1>1, <1>2 DEF Inv, TypeOK
<1>5. w \in CampaignRecords
  BY <1>2, <1>3 DEF CampaignRecords, CampaignPhases
<1>6. /\ w.phase = "done" /\ w.worker = campaign[c].worker
      /\ w.by = campaign[c].by /\ w.target = campaign[c].target
      /\ w.requested = campaign[c].requested /\ w.stored = campaign[c].stored
      /\ w.maxTotal = campaign[c].maxTotal
  BY <1>1, <1>2, <1>3 DEF CampaignRecords
<1>7. CampaignInv(c)'
  <2>1. /\ \A q : (Listed(q)' = Listed(q)) /\ (Registered(q)' <=> Registered(q))
        /\ timeout' = timeout
    BY <1>1 DEF Registered, Listed, processVars
  <2>2. campaign[c].phase # "absent" /\ campaign[c].phase # "queued"
    BY <1>1
  <2> QED
    BY <1>1, <1>3, <1>4, <1>6, <2>1, <2>2 DEF CampaignInv
<1> QED
  BY <1>1, <1>4, <1>5, <1>7, CampaignStepInv

-----------------------------------------------------------------------------
(***************************************************************************)
(* The theorems.                                                             *)
(***************************************************************************)
(* Every step, stuttering included, preserves the invariant.                 *)
LEMMA NextInv == Inv /\ [Next]_vars => Inv'
<1> SUFFICES ASSUME Inv, [Next]_vars PROVE Inv'
  OBVIOUS
<1>1. CASE UNCHANGED vars
  BY <1>1 DEF vars, Inv, TypeOK, RegistryInv, LockInv, NoForeignKeyError,
     NoMixedManifests, VictimInv, NoRanking, TableInv, CampaignInv, Registered, Listed
<1>2. CASE Next
  <2> SUFFICES ASSUME NEW p \in Processes,
                      \/ LoadManifest(p) \/ SyncRow(p) \/ SyncCommit(p)
                      \/ DeadlockVictim(p) \/ Bind(p) \/ Stop(p)
                      \/ \E c \in Campaigns :
                            \/ CreateCampaign(p, c) \/ ClaimJob(p, c) \/ DropJob(p, c)
                            \/ RunJob(p, c) \/ FinishJob(p, c)
               PROVE  Inv'
    BY <1>2 DEF Next
  <2>1. CASE LoadManifest(p)
    BY <2>1, LoadManifestInv
  <2>2. CASE SyncRow(p)
    BY <2>2, SyncRowInv
  <2>3. CASE SyncCommit(p)
    BY <2>3, SyncCommitInv
  <2>4. CASE DeadlockVictim(p)
    <3>1. PICK S \in SUBSET Processes : p \in S /\ Deadlocked(S)
      BY <2>4 DEF DeadlockVictim
    <3>2. NoRanking
      BY <3>1, DeadlockNeedsDisagreement
    <3>3. End(p, "victim")
      BY <2>4 DEF DeadlockVictim
    <3> QED
      BY <3>2, <3>3, EndInv
  <2>5. CASE Bind(p)
    BY <2>5, BindInv
  <2>6. CASE Stop(p)
    BY <2>6, EndInv DEF Stop
  <2>7. CASE \E c \in Campaigns : \/ CreateCampaign(p, c) \/ ClaimJob(p, c) \/ DropJob(p, c)
                                  \/ RunJob(p, c) \/ FinishJob(p, c)
    BY <2>7, CreateCampaignInv, ClaimJobInv, DropJobInv, RunJobInv, FinishJobInv
  <2> QED
    BY <2>1, <2>2, <2>3, <2>4, <2>5, <2>6, <2>7
<1> QED
  BY <1>1, <1>2

(* The invariant holds in every reachable state.                             *)
THEOREM Invariance == Spec => []Inv
<1> QED
  BY InitInv, NextInv, PTL DEF Spec

(* Every variable keeps its type: no registry has a blank target, the column   *)
(* and -max_total_time fit their integers (targets.rs 100-123,                *)
(* campaigns.rs 120, worker/mod.rs 127).                                     *)
THEOREM TypeCorrect == Spec => []TypeOK
<1>1. Inv => TypeOK
  BY DEF Inv
<1> QED
  BY <1>1, Invariance, PTL

(* The foreign key of an accepted campaign holds, whatever other processes     *)
(* sync meanwhile: sync_targets is done before a process works or serves, and  *)
(* deletes nothing (main.rs 41-89, postgres.rs 170-198).                      *)
THEOREM AcceptedTargetsHaveRows == Spec => []NoForeignKeyError
<1>1. Inv => NoForeignKeyError
  BY DEF Inv
<1> QED
  BY <1>1, Invariance, PTL

(* Concurrent starts leave the rows of one manifest, not a mixture             *)
(* (postgres.rs 170-198).                                                    *)
THEOREM TableIsOfOneManifest == Spec => []NoMixedManifests
<1>1. Inv => NoMixedManifests
  BY DEF Inv
<1> QED
  BY <1>1, Invariance, PTL

(* Starts whose manifests agree on an order of the targets cannot deadlock,    *)
(* however many there are, because the rows are upserted in the manifest's     *)
(* order (targets.rs 81, 125-130; postgres.rs 172).                           *)
THEOREM OrderPreventsDeadlock == Spec => []DeadlockOnlyByOrder
<1>1. Inv => DeadlockOnlyByOrder
  BY DEF Inv, VictimInv, NoRanking, DeadlockOnlyByOrder
<1> QED
  BY <1>1, Invariance, PTL

(* Budgets that fit the column are kept and the others only get smaller, for   *)
(* every i32::MAX, every i64::MAX and every JOB_TIMEOUT_SECONDS                *)
(* (campaigns.rs 104-120, worker/mod.rs 127, subprocess.rs 62).               *)
THEOREM BudgetsAreKept == Spec => []BudgetAsRequested
<1>1. Inv => BudgetAsRequested
  <2> SUFFICES ASSUME Inv, NEW c \in Campaigns,
                      campaign[c].phase \in {"running", "done"}
               PROVE  /\ campaign[c].maxTotal <= campaign[c].requested
                      /\ campaign[c].requested <= MaxI32 =>
                            /\ campaign[c].maxTotal = campaign[c].requested
                            /\ campaign[c].maxTotal >= 1
                      /\ campaign[c].requested > MaxI32 =>
                            timeout[campaign[c].by] > MaxI32
    BY DEF BudgetAsRequested
  <2>1. CampaignInv(c)
    BY DEF Inv
  <2> DEFINE n == campaign[c].requested
  <2>2. /\ n \in 1 .. timeout[campaign[c].by]
        /\ campaign[c].maxTotal = AtLeastZero(AsI32(n))
        /\ timeout[campaign[c].by] \in Nat
    BY <2>1, NumbersAssumption DEF CampaignInv, Registered, Inv, TypeOK
  <2> HIDE DEF n
  <2>3. n \in Nat /\ n >= 1 /\ MaxI32 \in Nat
    BY <2>2, NumbersAssumption
  <2>4. /\ AsI32(n) \in (-MaxI32 - 1) .. MaxI32
        /\ n <= MaxI32 => AsI32(n) = n
        /\ AsI32(n) <= n
    BY <2>3, CastsFit
  <2>5. /\ AtLeastZero(AsI32(n)) <= n
        /\ n <= MaxI32 => AtLeastZero(AsI32(n)) = n
    BY <2>3, <2>4 DEF AtLeastZero
  <2>6. n > MaxI32 => timeout[campaign[c].by] > MaxI32
    BY <2>2, <2>3
  <2> QED
    BY <2>2, <2>3, <2>5, <2>6 DEF n
<1> QED
  BY <1>1, Invariance, PTL

(* A process that read the same targets.json as the one that accepted a        *)
(* campaign knows its target (campaigns.rs 73, worker/mod.rs 99).             *)
THEOREM EqualManifestsKnowTheTarget == Spec => []UnknownOnlyAcrossManifests
<1>1. Inv => UnknownOnlyAcrossManifests
  <2> SUFFICES ASSUME Inv, NEW c \in Campaigns, campaign[c].phase = "unknown"
               PROVE  /\ campaign[c].by # campaign[c].worker
                      /\ manifest[campaign[c].by] # manifest[campaign[c].worker]
    BY DEF UnknownOnlyAcrossManifests
  <2>1. /\ campaign[c].target \in Listed(campaign[c].by)
        /\ campaign[c].target \notin Listed(campaign[c].worker)
        /\ campaign[c].by \in Processes /\ campaign[c].worker \in Processes
    BY DEF Inv, CampaignInv, Registered
  <2>2. order[campaign[c].by] # order[campaign[c].worker]
    BY <2>1 DEF Listed
  <2> QED
    BY <2>1, <2>2 DEF Inv, RegistryInv
<1> QED
  BY <1>1, Invariance, PTL

(* No sync_targets waits for a lock nobody will release: its transaction holds *)
(* what it upserted only while its process is in it, so from any one that      *)
(* waits the chain of holders ends in one that can go on or in a cycle that    *)
(* Postgres breaks, however many processes start (postgres.rs 170-198).        *)
THEOREM LocksAreOfTheLiving == Spec => []NobodyWaitsInVain
<1>1. Inv => NobodyWaitsInVain
  <2> SUFFICES ASSUME Inv, NEW p \in Processes, NEW C \in SUBSET Processes,
                      phase[p] = "syncing", p \in C,
                      \A q \in C : Blocked(q) => Holder(q) \in C
               PROVE  \E q \in C :
                         /\ phase[q] = "syncing"
                         /\ ~Blocked(q) \/ \E S \in SUBSET C : q \in S /\ Deadlocked(S)
    BY DEF NobodyWaitsInVain
  <2> DEFINE T == {q \in C : phase[q] = "syncing"}
             h == [q \in T |-> Holder(q)]
  <2> SUFFICES ASSUME \A q \in T : Blocked(q)
               PROVE  \E q \in C :
                         /\ phase[q] = "syncing"
                         /\ \E S \in SUBSET C : q \in S /\ Deadlocked(S)
    OBVIOUS
  <2>1. T # {} /\ T \subseteq Processes
    OBVIOUS
  <2>2. IsFiniteSet(T)
    BY <2>1, ProcessesAssumption, FS_Subset
  <2>3. ASSUME NEW q \in T PROVE Holder(q) \in T
    <3>1. Pending(q) /\ Holder(q) \in C
      BY DEF Blocked
    <3>2. NextRow(q) \in Ids
      BY <3>1, NextRowIsId DEF Inv
    <3>3. phase[Holder(q)] = "syncing"
      BY <3>1, <3>2 DEF Inv, LockInv, Holder
    <3> QED
      BY <3>1, <3>3
  <2>4. h \in [T -> T]
    BY <2>3
  <2>5. PICK M \in SUBSET T : M # {} /\ M = {h[q] : q \in M}
    <3> HIDE DEF T, h
    <3>1. HasCycle(T, h)
      BY <2>1, <2>2, <2>4, SomeCycle
    <3> QED BY <3>1 DEF HasCycle
  <2>6. Deadlocked(M)
    <3>1. \A q \in M : h[q] = Holder(q)
      OBVIOUS
    <3>2. M = {Holder(q) : q \in M}
      BY <2>5, <3>1
    <3> QED BY <3>2 DEF Deadlocked
  <2> QED
    BY <2>5, <2>6
<1> QED
  BY <1>1, Invariance, PTL
=============================================================================
