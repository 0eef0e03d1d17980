------------------------------- MODULE Sandbox -------------------------------
(***************************************************************************)
(* run_with_timeout (runner/sandbox.rs): one subprocess, the processes it     *)
(* starts, the two pipes they write to, the two tasks that drain the pipes    *)
(* and the caller that waits, kills, reaps and collects.                     *)
(*                                                                         *)
(* Output is counted in chunks.  A pipe holds at most PipeSize of them and a  *)
(* write to a full pipe waits; a reader sees EOF when the pipe is empty and    *)
(* no process holds its write end any more.                                  *)
(***************************************************************************)
EXTENDS Integers

CONSTANTS Child,        \* the process that is spawned
          Descendants,  \* processes it may start
          PipeSize,     \* capacity of a pipe
          MaxChunks     \* bound: chunks written to one pipe

ASSUME ChildAssumption == Child \notin Descendants
ASSUME SizesAssumption == PipeSize \in Nat \ {0} /\ MaxChunks \in Nat

Procs == {Child} \cup Descendants
Streams == {"stdout", "stderr"}

VARIABLES
    proc,      \* per process: state, in the child's process group?, pipes held
    pipe,      \* per stream: chunks written and not yet read
    buf,       \* per stream: chunks the drain task has read
    utf8,      \* per stream: is everything written so far valid UTF-8?
    written,   \* per stream: chunks ever written (history)
    reader,    \* per stream: the drain task
    phase,     \* where run_with_timeout is
    timedOut,
    exitCode,  \* what the caller learnt of the child's exit
    out        \* per stream: what SandboxOutput carries

streamVars == <<pipe, buf, utf8, written, reader>>
callerVars == <<phase, timedOut, exitCode, out>>
vars == <<proc, pipe, buf, utf8, written, reader, phase, timedOut, exitCode, out>>

Codes == {"zero", "nonzero", "none"}   \* "none": a signal, or not known

Unborn == [state |-> "unborn", grouped |-> FALSE, holds |-> {}]

Running(p) == proc[p].state = "running"
Holds(p, f) == Running(p) /\ f \in proc[p].holds

-----------------------------------------------------------------------------
(* The child was spawned, leading a process group of its own.                 *)
Init ==
    /\ proc = [p \in Procs |-> IF p = Child
                 THEN [state |-> "running", grouped |-> TRUE, holds |-> Streams]
                 ELSE Unborn]
    /\ pipe = [f \in Streams |-> 0]
    /\ buf = [f \in Streams |-> 0]
    /\ utf8 = [f \in Streams |-> TRUE]
    /\ written = [f \in Streams |-> 0]
    /\ reader = [f \in Streams |-> "reading"]
    /\ phase = "waiting"
    /\ timedOut = FALSE /\ exitCode = "none"
    /\ out = [f \in Streams |-> 0]

(***************************************************************************)
(* The subprocess tree, which nothing here controls.                         *)
(***************************************************************************)
(* A started process may leave the group (setsid) and close or redirect pipes. *)
Fork(p, q) ==
    /\ Running(p) /\ proc[q].state = "unborn"
    /\ \E grouped \in {proc[p].grouped, FALSE}, holds \in SUBSET proc[p].holds :
         proc' = [proc EXCEPT ![q] =
                    [state |-> "running", grouped |-> grouped, holds |-> holds]]
    /\ UNCHANGED <<streamVars, callerVars>>

Write(p, f) ==
    /\ Holds(p, f) /\ reader[f] = "reading"
    /\ pipe[f] < PipeSize /\ written[f] < MaxChunks
    /\ pipe' = [pipe EXCEPT ![f] = @ + 1]
    /\ written' = [written EXCEPT ![f] = @ + 1]
    /\ \E valid \in BOOLEAN : utf8' = [utf8 EXCEPT ![f] = @ /\ valid]
    /\ UNCHANGED <<proc, buf, reader, callerVars>>

Exit(p) ==
    /\ Running(p)
    /\ proc' = [proc EXCEPT ![p].state = "dead"]
    /\ UNCHANGED <<streamVars, callerVars>>

(***************************************************************************)
(* The drain tasks: read_to_string, whose error (not UTF-8) is ignored and    *)
(* leaves the String empty.                                                  *)
(***************************************************************************)
(* Mutation: the pipes are read only after the child was waited for. *)
DrainAfterWait(f) ==
    /\ phase = "draining"
    /\ reader[f] = "reading" /\ pipe[f] > 0
    /\ pipe' = [pipe EXCEPT ![f] = @ - 1]
    /\ buf' = [buf EXCEPT ![f] = @ + 1]
    /\ UNCHANGED <<proc, utf8, written, reader, callerVars>>

(* Mutation: a read of nothing is taken for data. *)
DrainNothing(f) ==
    /\ reader[f] = "reading" /\ written[f] > 0
    /\ pipe' = [pipe EXCEPT ![f] = @ - 1]
    /\ buf' = [buf EXCEPT ![f] = @ + 1]
    /\ UNCHANGED <<proc, utf8, written, reader, callerVars>>

Drain(f) ==
    /\ reader[f] = "reading" /\ pipe[f] > 0
    /\ pipe' = [pipe EXCEPT ![f] = @ - 1]
    /\ buf' = [buf EXCEPT ![f] = @ + 1]
    /\ UNCHANGED <<proc, utf8, written, reader, callerVars>>

(* Mutation: the caller keeps its own copies of the write ends to the end. *)
EndAfterReturn(f) ==
    /\ phase = "returned"
    /\ reader[f] = "reading" /\ pipe[f] = 0
    /\ \A p \in Procs : ~Holds(p, f)
    /\ reader' = [reader EXCEPT ![f] = "done"]
    /\ buf' = [buf EXCEPT ![f] = IF utf8[f] THEN @ ELSE 0]
    /\ UNCHANGED <<proc, pipe, utf8, written, callerVars>>

EndOfFile(f) ==
    /\ reader[f] = "reading" /\ pipe[f] = 0
    /\ \A p \in Procs : ~Holds(p, f)
    /\ reader' = [reader EXCEPT ![f] = "done"]
    /\ buf' = [buf EXCEPT ![f] = IF utf8[f] THEN @ ELSE 0]
    /\ UNCHANGED <<proc, pipe, utf8, written, callerVars>>

(***************************************************************************)
(* The caller.                                                             *)
(***************************************************************************)
WaitReturns ==
    /\ phase = "waiting" /\ ~Running(Child)
    /\ exitCode' \in Codes
    /\ phase' = "draining"
    /\ UNCHANGED <<proc, streamVars, timedOut, out>>

(* wait itself fails, whatever the child is doing: no code, no timeout.         *)
WaitFails ==
    /\ phase = "waiting"
    /\ exitCode' = "none"
    /\ phase' = "draining"
    /\ UNCHANGED <<proc, streamVars, timedOut, out>>

(* The timeout expires; how far the processes are by then is left open.       *)
DeadlineHits ==
    /\ phase = "waiting"
    /\ phase' = "killing" /\ timedOut' = TRUE
    /\ UNCHANGED <<proc, streamVars, exitCode, out>>

Kill(victims) ==
    proc' = [p \in Procs |-> IF p \in victims /\ Running(p)
                             THEN [proc[p] EXCEPT !.state = "dead"] ELSE proc[p]]

(* Mutation: only the child is killed, not its group. *)
KillChildOnly ==
    /\ phase = "killing"
    /\ Kill({Child})
    /\ phase' = "reaping"
    /\ UNCHANGED <<streamVars, timedOut, exitCode, out>>

(* terminate_group: SIGKILL to the whole group at once.                       *)
TerminateGroup ==
    /\ phase = "killing"
    /\ Kill({p \in Procs : proc[p].grouped})
    /\ phase' = "reaping"
    /\ UNCHANGED <<streamVars, timedOut, exitCode, out>>

(* child.kill().await: kills the child and waits for it.                      *)
Reap ==
    /\ phase = "reaping"
    /\ Kill({Child})
    /\ phase' = "draining"
    /\ UNCHANGED <<streamVars, timedOut, exitCode, out>>

(* Mutation: the first finished drain task is enough. *)
CollectEither ==
    /\ phase = "draining"
    /\ \E f \in Streams : reader[f] = "done"
    /\ out' = buf
    /\ phase' = "returned"
    /\ UNCHANGED <<proc, streamVars, timedOut, exitCode>>

Collect ==
    /\ phase = "draining"
    /\ \A f \in Streams : reader[f] = "done"
    /\ out' = buf
    /\ phase' = "returned"
    /\ UNCHANGED <<proc, streamVars, timedOut, exitCode>>

(* Mutation: DRAIN_GRACE is not enforced. *)
NoGrace == phase = "given up" /\ UNCHANGED vars

(* DRAIN_GRACE after a timeout: both tasks are aborted, both Strings empty.  It  *)
(* is long enough to read the rest of a pipe that nobody holds, so it expires    *)
(* only while every stream still being read is held by a survivor.            *)
GraceExpires ==
    /\ phase = "draining" /\ timedOut
    /\ \E f \in Streams : reader[f] = "reading"
    /\ \A f \in Streams : reader[f] = "reading" => \E p \in Procs : Holds(p, f)
    /\ reader' = [f \in Streams |-> IF reader[f] = "reading" THEN "aborted" ELSE reader[f]]
    /\ phase' = "returned"
    /\ UNCHANGED <<proc, pipe, buf, utf8, written, timedOut, exitCode, out>>

-----------------------------------------------------------------------------
CallerStep == WaitReturns \/ TerminateGroup \/ Reap \/ Collect \/ GraceExpires

Next ==
    \/ \E p \in Procs :
         \/ \E q \in Descendants : Fork(p, q)
         \/ \E f \in Streams : Write(p, f)
         \/ Exit(p)
    \/ \E f \in Streams : Drain(f) \/ EndOfFile(f)
    \/ CallerStep \/ WaitFails \/ DeadlineHits

Spec == Init /\ [][Next]_vars

(***************************************************************************)
(* Fairness: tokio polls the drain tasks and the caller.  Nothing is assumed  *)
(* of the processes, nor of the deadline, which may be a long way off, nor is   *)
(* wait assumed to fail.                                                     *)
(***************************************************************************)
Fairness ==
    /\ \A f \in Streams : WF_vars(Drain(f)) /\ WF_vars(EndOfFile(f))
    /\ WF_vars(CallerStep)

FairSpec == Spec /\ Fairness

(***************************************************************************)
(* What SubprocessRunner::run makes of the output (subprocess.rs, 89-137, and *)
(* output.rs, 62-74): a timeout is a runner error, a nonzero exit a finding.   *)
(***************************************************************************)
Verdict ==
    CASE timedOut -> "failed"
      [] ~timedOut /\ exitCode = "nonzero" -> "finding"
      [] OTHER -> "completed"

TypeOK ==
    /\ proc \in [Procs -> [state : {"unborn", "running", "dead"},
                           grouped : BOOLEAN, holds : SUBSET Streams]]
    /\ exitCode \in Codes
    /\ pipe \in [Streams -> 0..PipeSize]
    /\ buf \in [Streams -> Nat]
    /\ utf8 \in [Streams -> BOOLEAN]
    /\ written \in [Streams -> Nat]
    /\ reader \in [Streams -> {"reading", "done", "aborted"}]
    /\ phase \in {"waiting", "killing", "reaping", "draining", "returned"}
    /\ timedOut \in BOOLEAN
    /\ out \in [Streams -> Nat]

(* A finding is parsed from everything the subprocess and all that it started  *)
(* ever wrote, except that a stream that is not UTF-8 is read as empty.       *)
FindingFromWholeOutput ==
    (phase = "returned" /\ Verdict = "finding") =>
      /\ \A f \in Streams : out[f] = IF utf8[f] THEN written[f] ELSE 0
      /\ \A p \in Procs : Running(p) => proc[p].holds = {}

(* After a timeout no process of the group is left behind: the next job does  *)
(* not share the machine with this one.                                      *)
GroupIsGone ==
    (phase \in {"draining", "returned"} /\ timedOut) =>
      \A p \in Procs : proc[p].grouped => ~Running(p)

(* A process that writes a lot is never stuck on a full pipe while the caller  *)
(* waits for the child to exit: the pipes are drained at the same time.       *)
WriterNotStuck ==
    \A f \in Streams :
      (phase = "waiting" /\ pipe[f] = PipeSize) ~> (pipe[f] < PipeSize \/ phase # "waiting")

(* Once the deadline has passed the caller returns, whoever still holds a pipe. *)
TimeoutReturns == (phase = "killing") ~> (phase = "returned")

(* However the wait ended, the caller returns once nobody holds a pipe any     *)
(* more: all that can keep it, after a normal exit, is a process that does.    *)
(* The comment at sandbox.rs 204-206 says more, that it "returns at once".      *)
ReturnsOncePipesClose ==
    (phase = "draining" /\ \A p \in Procs, f \in Streams : ~Holds(p, f))
        ~> (phase = "returned")

(* sandbox.rs, 206-209: after a timeout "output already captured is kept, but   *)
(* a pipe still held open by a survivor past DRAIN_GRACE is abandoned".  What a *)
(* drain task has read to the end is captured and of a pipe nobody holds.      *)
CapturedOutputKept ==
    (phase = "returned" /\ timedOut) =>
      \A f \in Streams : reader[f] = "done" => out[f] = buf[f]

=============================================================================
