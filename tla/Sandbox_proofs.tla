---------------------------- MODULE Sandbox_proofs ----------------------------
(***************************************************************************)
(* Safety of run_with_timeout, for any number of descendants and any pipe size. *)
(*                                                                         *)
(* The invariant follows the data and the processes.  While a drain task       *)
(* reads, what was written is in its buffer or in the pipe; once it saw the     *)
(* end of the file nobody holds the pipe, and nobody can come to hold it: a     *)
(* process gets its pipes from its parent.  In the same way, once the group    *)
(* was killed, only processes outside of it are left to start others.         *)
(***************************************************************************)
EXTENDS Sandbox, TLAPS

(* What a drain task has, and what is still to come.                          *)
ReaderOK(f) ==
    /\ reader[f] = "reading" => written[f] = buf[f] + pipe[f]
    /\ reader[f] = "done" =>
         /\ buf[f] = IF utf8[f] THEN written[f] ELSE 0
         /\ pipe[f] = 0
         /\ \A p \in Procs : ~Holds(p, f)

(* After terminate_group no process of the group runs.                        *)
GroupKilled ==
    (timedOut /\ phase # "killing") =>
      \A p \in Procs : proc[p].grouped => ~Running(p)

Nothing == [f \in Streams |-> 0]

(* The caller has nothing before it returns, and then what two finished tasks   *)
(* read; or nothing, when it timed out and gave them up.                      *)
CollectedAll ==
    /\ phase # "returned" => out = Nothing /\ \A f \in Streams : reader[f] # "aborted"
    /\ phase = "returned" =>
         \/ out = buf /\ \A f \in Streams : reader[f] = "done"
         \/ timedOut /\ out = Nothing /\ \A f \in Streams : reader[f] # "reading"

Inv ==
    /\ TypeOK
    /\ \A f \in Streams : ReaderOK(f)
    /\ GroupKilled
    /\ CollectedAll
    /\ phase \in {"killing", "reaping"} => timedOut

(* The initial states satisfy the invariant.                                 *)
LEMMA InitInv == Init => Inv
<1> SUFFICES ASSUME Init PROVE Inv
  OBVIOUS
<1>1. proc \in [Procs -> [state : {"unborn", "running", "dead"},
                          grouped : BOOLEAN, holds : SUBSET Streams]]
  BY DEF Init, Unborn
<1>2. TypeOK
  <2>1. /\ pipe \in [Streams -> 0..PipeSize] /\ buf \in [Streams -> Nat]
        /\ written \in [Streams -> Nat] /\ out \in [Streams -> Nat]
    BY SizesAssumption DEF Init
  <2>2. /\ utf8 \in [Streams -> BOOLEAN]
        /\ reader \in [Streams -> {"reading", "done", "aborted"}]
    BY DEF Init
  <2>3. exitCode \in Codes /\ timedOut \in BOOLEAN
        /\ phase \in {"waiting", "killing", "reaping", "draining", "returned"}
    BY DEF Init, Codes
  <2> QED BY <1>1, <2>1, <2>2, <2>3 DEF TypeOK
<1>3. \A f \in Streams : ReaderOK(f)
  BY DEF Init, ReaderOK
<1>4. GroupKilled /\ CollectedAll /\ (phase \in {"killing", "reaping"} => timedOut)
  BY DEF Init, GroupKilled, CollectedAll, Nothing
<1> QED BY <1>2, <1>3, <1>4 DEF Inv

(* A step of the processes that leaves the streams and the caller alone, starts  *)
(* nobody who is in the group or holds a pipe without a running process that    *)
(* is or does, preserves the invariant.                                       *)
LEMMA ProcessesInv ==
    ASSUME Inv, UNCHANGED <<streamVars, callerVars>>,
           proc' \in [Procs -> [state : {"unborn", "running", "dead"},
                                grouped : BOOLEAN, holds : SUBSET Streams]],
           \A q \in Procs : Running(q)' =>
             \E p \in Procs : /\ Running(p)
                              /\ proc'[q].grouped => proc[p].grouped
                              /\ proc'[q].holds \subseteq proc[p].holds
    PROVE  Inv'
<1>1. TypeOK'
  BY DEF Inv, TypeOK, streamVars, callerVars
<1>2. ASSUME NEW f \in Streams
      PROVE  ReaderOK(f)'
  <2>1. ReaderOK(f)
    BY DEF Inv
  <2>2. reader[f] = "done" => \A p \in Procs : ~Holds(p, f)'
    BY <2>1 DEF ReaderOK, Holds
  <2> QED BY <2>1, <2>2 DEF ReaderOK, streamVars
<1>3. GroupKilled'
  BY DEF Inv, GroupKilled, callerVars
<1>4. CollectedAll' /\ (phase' \in {"killing", "reaping"} => timedOut')
  BY DEF Inv, CollectedAll, callerVars, streamVars
<1> QED BY <1>1, <1>2, <1>3, <1>4 DEF Inv

(* A process starts another.                                                 *)
LEMMA ForkInv ==
    ASSUME Inv, NEW p \in Procs, NEW q \in Descendants, Fork(p, q)
    PROVE  Inv'
<1>1. Running(p) /\ UNCHANGED <<streamVars, callerVars>> /\ q \in Procs
  BY DEF Fork, Procs
<1>2. PICK grouped \in {proc[p].grouped, FALSE}, holds \in SUBSET proc[p].holds :
        proc' = [proc EXCEPT ![q] =
                   [state |-> "running", grouped |-> grouped, holds |-> holds]]
  BY DEF Fork
<1>3. proc \in [Procs -> [state : {"unborn", "running", "dead"},
                          grouped : BOOLEAN, holds : SUBSET Streams]]
  BY DEF Inv, TypeOK
<1>4. grouped \in BOOLEAN /\ holds \in SUBSET Streams
  BY <1>3
<1>5. proc' \in [Procs -> [state : {"unborn", "running", "dead"},
                           grouped : BOOLEAN, holds : SUBSET Streams]]
  BY <1>1, <1>2, <1>3, <1>4
<1>6. ASSUME NEW r \in Procs, Running(r)'
      PROVE  \E s \in Procs : /\ Running(s)
                              /\ proc'[r].grouped => proc[s].grouped
                              /\ proc'[r].holds \subseteq proc[s].holds
  <2>1. CASE r = q
    <3>1. proc'[q].grouped = grouped /\ proc'[q].holds = holds
      BY <1>1, <1>2, <1>3
    <3> QED BY <1>1, <2>1, <3>1
  <2>2. CASE r # q
    <3>1. proc'[r] = proc[r]
      BY <1>2, <1>3, <2>2
    <3> QED BY <1>6, <3>1 DEF Running
  <2> QED BY <2>1, <2>2
<1> QED BY <1>1, <1>3, <1>5, <1>6, ProcessesInv

(* A process exits.                                                         *)
LEMMA ExitInv ==
    ASSUME Inv, NEW p \in Procs, Exit(p)
    PROVE  Inv'
<1>1. proc \in [Procs -> [state : {"unborn", "running", "dead"},
                          grouped : BOOLEAN, holds : SUBSET Streams]]
  BY DEF Inv, TypeOK
<1>2. /\ proc' = [proc EXCEPT ![p].state = "dead"]
      /\ UNCHANGED <<streamVars, callerVars>>
  BY DEF Exit
<1>3. proc' \in [Procs -> [state : {"unborn", "running", "dead"},
                           grouped : BOOLEAN, holds : SUBSET Streams]]
  BY <1>1, <1>2
<1>4. \A r \in Procs : Running(r)' => Running(r) /\ proc'[r] = proc[r]
  BY <1>1, <1>2 DEF Running
<1> QED BY <1>2, <1>3, <1>4, ProcessesInv

(* A process writes a chunk.                                                 *)
LEMMA WriteInv ==
    ASSUME Inv, NEW p \in Procs, NEW f \in Streams, Write(p, f)
    PROVE  Inv'
<1>1. /\ pipe' = [pipe EXCEPT ![f] = @ + 1]
      /\ written' = [written EXCEPT ![f] = @ + 1]
      /\ UNCHANGED <<proc, buf, reader, callerVars>>
      /\ reader[f] = "reading" /\ pipe[f] < PipeSize
  BY DEF Write
<1>2. PICK valid \in BOOLEAN : utf8' = [utf8 EXCEPT ![f] = @ /\ valid]
  BY DEF Write
<1>3. TypeOK
  BY DEF Inv
<1>4. TypeOK'
  <2>1. pipe' \in [Streams -> 0..PipeSize]
    BY <1>1, <1>3, SizesAssumption DEF TypeOK
  <2>2. written' \in [Streams -> Nat]
    BY <1>1, <1>3 DEF TypeOK
  <2>3. utf8' \in [Streams -> BOOLEAN]
    BY <1>2, <1>3 DEF TypeOK
  <2> QED BY <1>1, <1>3, <2>1, <2>2, <2>3 DEF TypeOK, callerVars
<1>5. ASSUME NEW g \in Streams
      PROVE  ReaderOK(g)'
  <2>1. ReaderOK(g)
    BY DEF Inv
  <2>2. CASE g = f
    <3>1. /\ pipe'[f] = pipe[f] + 1 /\ written'[f] = written[f] + 1
          /\ written[f] = buf[f] + pipe[f]
          /\ written[f] \in Nat /\ buf[f] \in Nat /\ pipe[f] \in Int
      BY <1>1, <1>3, <2>1, <2>2 DEF TypeOK, ReaderOK
    <3>2. written'[f] = buf'[f] + pipe'[f]
      BY <1>1, <3>1
    <3> QED BY <1>1, <2>2, <3>2 DEF ReaderOK
  <2>3. CASE g # f
    <3>1. pipe'[g] = pipe[g] /\ written'[g] = written[g] /\ utf8'[g] = utf8[g]
      BY <1>1, <1>2, <1>3, <2>3 DEF TypeOK
    <3> QED BY <1>1, <2>1, <3>1 DEF ReaderOK, Holds, Running
  <2> QED BY <2>2, <2>3
<1>6. GroupKilled' /\ CollectedAll' /\ (phase' \in {"killing", "reaping"} => timedOut')
  BY <1>1 DEF Inv, GroupKilled, CollectedAll, Running, callerVars, Nothing
<1> QED BY <1>4, <1>5, <1>6 DEF Inv

(* A drain task reads a chunk.                                               *)
LEMMA DrainInv ==
    ASSUME Inv, NEW f \in Streams, Drain(f)
    PROVE  Inv'
<1>1. /\ pipe' = [pipe EXCEPT ![f] = @ - 1]
      /\ buf' = [buf EXCEPT ![f] = @ + 1]
      /\ UNCHANGED <<proc, utf8, written, reader, callerVars>>
      /\ reader[f] = "reading" /\ pipe[f] > 0
  BY DEF Drain
<1>2. TypeOK
  BY DEF Inv
<1>3. TypeOK'
  <2>1. pipe' \in [Streams -> 0..PipeSize]
    BY <1>1, <1>2, SizesAssumption DEF TypeOK
  <2>2. buf' \in [Streams -> Nat]
    BY <1>1, <1>2 DEF TypeOK
  <2> QED BY <1>1, <1>2, <2>1, <2>2 DEF TypeOK, callerVars
<1>4. ASSUME NEW g \in Streams
      PROVE  ReaderOK(g)'
  <2>1. ReaderOK(g)
    BY DEF Inv
  <2>2. CASE g = f
    <3>1. /\ pipe'[f] = pipe[f] - 1 /\ buf'[f] = buf[f] + 1
          /\ written[f] = buf[f] + pipe[f]
          /\ buf[f] \in Nat /\ pipe[f] \in Int
      BY <1>1, <1>2, <2>1, <2>2 DEF TypeOK, ReaderOK
    <3>2. written'[f] = buf'[f] + pipe'[f]
      BY <1>1, <3>1
    <3> QED BY <1>1, <2>2, <3>2 DEF ReaderOK
  <2>3. CASE g # f
    <3>1. pipe'[g] = pipe[g] /\ buf'[g] = buf[g]
      BY <1>1, <1>2, <2>3 DEF TypeOK
    <3> QED BY <1>1, <2>1, <3>1 DEF ReaderOK, Holds, Running
  <2> QED BY <2>2, <2>3
<1>5. phase # "returned"
  BY <1>1 DEF Inv, CollectedAll
<1>6. GroupKilled' /\ CollectedAll' /\ (phase' \in {"killing", "reaping"} => timedOut')
  BY <1>1, <1>5 DEF Inv, GroupKilled, CollectedAll, Running, callerVars
<1> QED BY <1>3, <1>4, <1>6 DEF Inv

(* A drain task sees the end of its file.                                    *)
LEMMA EndOfFileInv ==
    ASSUME Inv, NEW f \in Streams, EndOfFile(f)
    PROVE  Inv'
<1>1. /\ reader' = [reader EXCEPT ![f] = "done"]
      /\ buf' = [buf EXCEPT ![f] = IF utf8[f] THEN @ ELSE 0]
      /\ UNCHANGED <<proc, pipe, utf8, written, callerVars>>
      /\ reader[f] = "reading" /\ pipe[f] = 0
      /\ \A p \in Procs : ~Holds(p, f)
  BY DEF EndOfFile
<1>2. TypeOK
  BY DEF Inv
<1>3. TypeOK'
  <2>1. reader' \in [Streams -> {"reading", "done", "aborted"}]
    BY <1>1, <1>2 DEF TypeOK
  <2>2. buf' \in [Streams -> Nat]
    BY <1>1, <1>2 DEF TypeOK
  <2> QED BY <1>1, <1>2, <2>1, <2>2 DEF TypeOK, callerVars
<1>4. ASSUME NEW g \in Streams
      PROVE  ReaderOK(g)'
  <2>1. ReaderOK(g)
    BY DEF Inv
  <2>2. CASE g = f
    <3>1. /\ reader'[f] = "done" /\ buf'[f] = IF utf8[f] THEN buf[f] ELSE 0
          /\ written[f] = buf[f] + pipe[f]
          /\ buf[f] \in Nat
      BY <1>1, <1>2, <2>1, <2>2 DEF TypeOK, ReaderOK
    <3>2. buf'[f] = IF utf8'[f] THEN written'[f] ELSE 0
      BY <1>1, <3>1
    <3> QED BY <1>1, <2>2, <3>1, <3>2 DEF ReaderOK, Holds, Running
  <2>3. CASE g # f
    <3>1. reader'[g] = reader[g] /\ buf'[g] = buf[g]
      BY <1>1, <1>2, <2>3 DEF TypeOK
    <3> QED BY <1>1, <2>1, <3>1 DEF ReaderOK, Holds, Running
  <2> QED BY <2>2, <2>3
<1>5. phase # "returned"
  BY <1>1 DEF Inv, CollectedAll
<1>6. GroupKilled' /\ CollectedAll' /\ (phase' \in {"killing", "reaping"} => timedOut')
  BY <1>1, <1>5 DEF Inv, GroupKilled, CollectedAll, Running, callerVars
<1> QED BY <1>3, <1>4, <1>6 DEF Inv

(* Killing processes starts nobody, and leaves those it kills dead.            *)
LEMMA KillFacts ==
    ASSUME TypeOK, NEW victims, Kill(victims)
    PROVE  /\ proc' \in [Procs -> [state : {"unborn", "running", "dead"},
                                   grouped : BOOLEAN, holds : SUBSET Streams]]
           /\ \A p \in Procs : Running(p)' =>
                Running(p) /\ p \notin victims /\ proc'[p] = proc[p]
           /\ \A p \in Procs : proc'[p].grouped = proc[p].grouped
BY DEF TypeOK, Kill, Running

(* The caller's two kills.                                                   *)
LEMMA KillInv ==
    ASSUME Inv, NEW victims, Kill(victims), timedOut,
           phase' \in {"reaping", "draining"},
           phase = "killing" => \A p \in Procs : proc[p].grouped => p \in victims,
           phase \in {"killing", "reaping"},
           UNCHANGED <<streamVars, timedOut, exitCode, out>>
    PROVE  Inv'
<1>1. /\ proc' \in [Procs -> [state : {"unborn", "running", "dead"},
                              grouped : BOOLEAN, holds : SUBSET Streams]]
      /\ \A p \in Procs : Running(p)' =>
           Running(p) /\ p \notin victims /\ proc'[p] = proc[p]
      /\ \A p \in Procs : proc'[p].grouped = proc[p].grouped
  BY KillFacts DEF Inv
<1>2. TypeOK'
  BY <1>1 DEF Inv, TypeOK, streamVars
<1>3. ASSUME NEW f \in Streams
      PROVE  ReaderOK(f)'
  <2>1. ReaderOK(f)
    BY DEF Inv
  <2>2. \A p \in Procs : Holds(p, f)' => Holds(p, f)
    BY <1>1 DEF Holds
  <2> QED BY <2>1, <2>2 DEF ReaderOK, streamVars
<1>4. GroupKilled'
  BY <1>1 DEF Inv, GroupKilled
<1>5. CollectedAll' /\ timedOut'
  BY DEF Inv, CollectedAll, Nothing, streamVars
<1> QED BY <1>2, <1>3, <1>4, <1>5 DEF Inv

(* A step of the caller that leaves the processes and what the drain tasks read  *)
(* alone, so that only its own phase is to be looked at.                       *)
LEMMA CallerInv ==
    ASSUME Inv, UNCHANGED <<proc, pipe, buf, utf8, written>>,
           reader' \in [Streams -> {"reading", "done", "aborted"}],
           \A f \in Streams : reader'[f] \in {reader[f], "aborted"},
           phase' \in {"waiting", "killing", "reaping", "draining", "returned"},
           timedOut' \in BOOLEAN, exitCode' \in Codes, out' \in [Streams -> Nat],
           (timedOut' /\ phase' # "killing") => (timedOut /\ phase # "killing"),
           CollectedAll',
           phase' \in {"killing", "reaping"} => timedOut'
    PROVE  Inv'
<1>1. TypeOK'
  BY DEF Inv, TypeOK
<1>2. ASSUME NEW f \in Streams
      PROVE  ReaderOK(f)'
  <2>1. ReaderOK(f) /\ reader'[f] \in {reader[f], "aborted"}
    BY DEF Inv
  <2> QED BY <2>1 DEF ReaderOK, Holds, Running
<1>3. GroupKilled'
  BY DEF Inv, GroupKilled, Running
<1> QED BY <1>1, <1>2, <1>3 DEF Inv

(* Every step of the caller preserves the invariant.                          *)
LEMMA CallerStepInv ==
    ASSUME Inv, CallerStep \/ WaitFails \/ DeadlineHits
    PROVE  Inv'
<1>0. TypeOK
  BY DEF Inv
<1>1. CASE WaitReturns
  BY <1>0, <1>1, CallerInv DEF WaitReturns, TypeOK, CollectedAll, Nothing, streamVars, Inv
<1>2. CASE WaitFails
  BY <1>0, <1>2, CallerInv DEF WaitFails, TypeOK, CollectedAll, Nothing, streamVars, Codes, Inv
<1>3. CASE DeadlineHits
  BY <1>0, <1>3, CallerInv DEF DeadlineHits, TypeOK, CollectedAll, Nothing, streamVars, Inv
<1>4. CASE TerminateGroup
  <2>1. /\ Kill({p \in Procs : proc[p].grouped})
        /\ phase' = "reaping" /\ phase = "killing" /\ timedOut
        /\ UNCHANGED <<streamVars, timedOut, exitCode, out>>
    BY <1>4 DEF TerminateGroup, Inv
  <2> QED BY <2>1, KillInv
<1>5. CASE Reap
  <2>1. /\ Kill({Child}) /\ phase = "reaping"
        /\ phase' = "draining" /\ timedOut
        /\ UNCHANGED <<streamVars, timedOut, exitCode, out>>
    BY <1>5 DEF Reap, Inv
  <2> QED BY <2>1, KillInv
<1>6. CASE Collect
  BY <1>0, <1>6, CallerInv DEF Collect, TypeOK, CollectedAll, streamVars, Inv
<1>7. CASE GraceExpires
  <2>1. /\ reader' = [f \in Streams |-> IF reader[f] = "reading" THEN "aborted"
                                        ELSE reader[f]]
        /\ phase = "draining" /\ timedOut /\ phase' = "returned"
        /\ UNCHANGED <<proc, pipe, buf, utf8, written, timedOut, exitCode, out>>
    BY <1>7 DEF GraceExpires
  <2>2. /\ reader' \in [Streams -> {"reading", "done", "aborted"}]
        /\ \A f \in Streams : reader'[f] \in {reader[f], "aborted"}
    BY <1>0, <2>1 DEF TypeOK
  <2> QED BY <1>0, <2>1, <2>2, CallerInv DEF TypeOK, CollectedAll, Nothing, Inv
<1> QED BY <1>1, <1>2, <1>3, <1>4, <1>5, <1>6, <1>7 DEF CallerStep

(* Every step, stuttering included, preserves the invariant.                  *)
LEMMA NextInv == Inv /\ [Next]_vars => Inv'
<1>1. ASSUME Inv, UNCHANGED vars PROVE Inv'
  BY <1>1 DEF Inv, TypeOK, ReaderOK, GroupKilled, CollectedAll, Holds, Running, vars
<1>2. ASSUME Inv, Next PROVE Inv'
  BY <1>2, ForkInv, WriteInv, ExitInv, DrainInv, EndOfFileInv, CallerStepInv DEF Next
<1> QED BY <1>1, <1>2

(* The inductive invariant holds in every reachable state.                    *)
THEOREM Invariance == Spec => []Inv
BY InitInv, NextInv, PTL DEF Spec

(* Every value stays in its type; no pipe overflows.                          *)
THEOREM TypeCorrect == Spec => []TypeOK
BY Invariance, PTL DEF Inv

(* After a timeout no process of the group survives, however they fork.        *)
THEOREM NoGroupSurvives == Spec => []GroupIsGone
<1>1. Inv => GroupIsGone
  BY DEF Inv, GroupKilled, GroupIsGone
<1> QED BY <1>1, Invariance, PTL

(* A finding is parsed from the complete output of every process involved.      *)
THEOREM FindingsAreWhole == Spec => []FindingFromWholeOutput
<1>1. Inv => FindingFromWholeOutput
  <2> SUFFICES ASSUME Inv, phase = "returned", Verdict = "finding"
               PROVE  /\ \A f \in Streams : out[f] = IF utf8[f] THEN written[f] ELSE 0
                      /\ \A p \in Procs : Running(p) => proc[p].holds = {}
    BY DEF FindingFromWholeOutput
  <2>1. ~timedOut
    BY DEF Verdict
  <2>2. out = buf /\ \A f \in Streams : reader[f] = "done"
    BY <2>1 DEF Inv, CollectedAll
  <2>3. \A f \in Streams : /\ buf[f] = IF utf8[f] THEN written[f] ELSE 0
                           /\ \A p \in Procs : ~Holds(p, f)
    BY <2>2 DEF Inv, ReaderOK
  <2>4. \A p \in Procs : proc[p].holds \subseteq Streams
    BY DEF Inv, TypeOK
  <2> QED BY <2>2, <2>3, <2>4 DEF Holds
<1> QED BY <1>1, Invariance, PTL

(* A stream is returned complete, or with the other one not at all.            *)
AllOrNothing ==
    phase = "returned" =>
        \/ \A f \in Streams : out[f] = IF utf8[f] THEN written[f] ELSE 0
        \/ timedOut /\ out = Nothing

(* Until the caller returns, what is in a pipe has a task that reads it.        *)
PipesAreRead ==
    phase # "returned" => \A f \in Streams : pipe[f] > 0 => reader[f] = "reading"

(* Whatever the deadline interrupts, nobody gets the beginning of an output for *)
(* the whole: an output that GraceExpires cuts short is dropped, which is what   *)
(* CapturedOutputKept is about (sandbox.rs 204-230).                          *)
THEOREM OutputIsWholeOrNothing == Spec => []AllOrNothing
<1>1. Inv => AllOrNothing
  BY DEF Inv, CollectedAll, ReaderOK, AllOrNothing
<1> QED BY <1>1, Invariance, PTL

(* No process waits for room in a pipe that nobody will empty, neither before   *)
(* the deadline nor after the kill: the safety half of WriterNotStuck            *)
(* (sandbox.rs 171-189).                                                     *)
THEOREM NoPipeIsForgotten == Spec => []PipesAreRead
<1>1. Inv => PipesAreRead
  BY DEF Inv, TypeOK, CollectedAll, ReaderOK, PipesAreRead
<1> QED BY <1>1, Invariance, PTL
=============================================================================
