-------------------------------- MODULE Executor --------------------------------
(***************************************************************************)
(* execute of puck-agent (agent/src/executor.rs): one command, from the    *)
(* policy check to the CommandResult, beside the child process it spawns.  *)
(*                                                                         *)
(* The agent reads both pipes at once, each up to one unit more than       *)
(* max_output_bytes, and races that against the timeout; when the reading  *)
(* ends first it waits for the child.  The child is a program that writes  *)
(* a finite output, in any order, and exits; a write into a full pipe      *)
(* blocks it.  Output is counted in units, what it says is left out.       *)
(***************************************************************************)
EXTENDS Naturals

CONSTANTS MaxOutput,   \* max_output_bytes
          PipeCap,     \* what the kernel buffers in a pipe
          MaxWritten   \* bound on what a program writes into one pipe

Pipes == {"stdout", "stderr"}

ASSUME ExecutorAssumption ==
  MaxOutput \in Nat /\ PipeCap \in Nat \ {0} /\ MaxWritten \in Nat

VARIABLES
  pc,      \* control state of execute
  error,   \* CommandResult.error: how the call ended
  child,   \* the process, as its exit status sees it
  at,      \* what the child is doing: computing, or writing into a pipe
  wrote,   \* what it has written into each pipe
  open,    \* the pipes whose write end it still has
  got,     \* stdout_bytes and stderr_bytes of the readers
  failed   \* the readers that ended in an error

vars == <<pc, error, child, at, wrote, open, got, failed>>

TypeOK ==
  /\ pc \in {"start", "reading", "killing", "waiting", "returned"}
  /\ error \in {"none", "rejected", "spawn failed", "timed out", "io", "exited"}
  /\ child \in {"none", "running", "exited", "killed"}
  /\ at \in {"computing"} \union Pipes
  /\ wrote \in [Pipes -> 0..MaxWritten]
  /\ open \subseteq Pipes
  /\ got \in [Pipes -> Nat]
  /\ failed \subseteq Pipes
  /\ at # "computing" => wrote[at] < MaxWritten
  \* "Cap each pipe": the agent holds at most one unit more than the limit of
  \* what the child wrote, the kernel never more than fits a pipe.
  /\ \A p \in Pipes : got[p] <= MaxOutput + 1 /\ wrote[p] - got[p] \in 0..PipeCap

Init ==
  /\ pc = "start" /\ error = "none"
  /\ child = "none" /\ at = "computing" /\ open = {}
  /\ wrote = [p \in Pipes |-> 0]
  /\ got   = [p \in Pipes |-> 0]
  /\ failed = {}

-----------------------------------------------------------------------------
(* The child.                                                              *)

AgentVars == <<pc, error, got, failed>>

\* It decides to write into a pipe, and is blocked there until there is room.
BeginWrite(p) ==
  /\ child = "running" /\ at = "computing"
  /\ p \in open /\ wrote[p] < MaxWritten
  /\ at' = p
  /\ UNCHANGED <<child, wrote, open, AgentVars>>

Write(p) ==
  /\ child = "running" /\ at = p
  /\ wrote[p] - got[p] < PipeCap
  /\ wrote' = [wrote EXCEPT ![p] = @ + 1]
  /\ at' = "computing"
  /\ UNCHANGED <<child, open, AgentVars>>

\* It may close a pipe and run on.
ClosePipe(p) ==
  /\ child = "running" /\ at = "computing" /\ p \in open
  /\ open' = open \ {p}
  /\ UNCHANGED <<child, at, wrote, AgentVars>>

Exit ==
  /\ child = "running" /\ at = "computing"
  /\ child' = "exited" /\ open' = {}
  /\ UNCHANGED <<at, wrote, AgentVars>>

-----------------------------------------------------------------------------
(* execute up to the spawn: the policy engine may reject the command, and  *)
(* the spawn may fail.                                                     *)

Rejected ==
  /\ pc = "start"
  /\ pc' = "returned"
  /\ error' \in {"rejected", "spawn failed"}
  /\ UNCHANGED <<child, at, wrote, open, got, failed>>

Spawn ==
  /\ pc = "start"
  /\ pc' = "reading"
  /\ child' = "running" /\ open' = Pipes
  /\ UNCHANGED <<error, at, wrote, got, failed>>

-----------------------------------------------------------------------------
(* The select: two bounded readers against the timer.                      *)

\* Mutant of Cap: no headroom to tell the limit from more.
CapExact == MaxOutput

\* max_output_bytes and READ_HEADROOM.
Cap == MaxOutput + 1

\* read_to_end of a reader limited by take(cap).
ReadDone(p) == got[p] = Cap \/ (wrote[p] = got[p] /\ p \notin open)

\* Mutant of Read: the reader is not limited.
ReadUnlimited(p) ==
  /\ pc = "reading" /\ got[p] < wrote[p]
  /\ got' = [got EXCEPT ![p] = @ + 1]
  /\ UNCHANGED <<pc, error, child, at, wrote, open, failed>>

Read(p) ==
  /\ pc = "reading" /\ p \notin failed /\ ~ReadDone(p)
  /\ got[p] < wrote[p]
  /\ got' = [got EXCEPT ![p] = @ + 1]
  /\ UNCHANGED <<pc, error, child, at, wrote, open, failed>>

\* A pipe cannot be read.
ReadFails(p) ==
  /\ pc = "reading" /\ p \notin failed /\ ~ReadDone(p)
  /\ failed' = failed \union {p}
  /\ UNCHANGED <<pc, error, child, at, wrote, open, got>>

\* Both readers have ended, join waits for the second even when the first has
\* failed: an error is returned at once, with the child left as it is.
ReadingDone ==
  /\ pc = "reading" /\ \A p \in Pipes : p \in failed \/ ReadDone(p)
  /\ IF failed = {}
       THEN pc' = "waiting" /\ UNCHANGED error
       ELSE pc' = "returned" /\ error' = "io"
  /\ UNCHANGED <<child, at, wrote, open, got, failed>>

\* Mutant of Timeout: the select has no timer.
NoTimeout == FALSE

\* enforced_timeout, at most MAX_COMMAND_TIMEOUT_SECS, has passed.
Timeout ==
  /\ pc = "reading"
  /\ pc' = "killing"
  /\ UNCHANGED <<error, child, at, wrote, open, got, failed>>

\* Mutant of Kill: the call returns without killing.
ReturnWithoutKill ==
  /\ pc = "killing"
  /\ pc' = "returned" /\ error' = "timed out"
  /\ UNCHANGED <<child, at, wrote, open, got, failed>>

\* child.kill and child.wait; the child may have exited by itself.
Kill ==
  /\ pc = "killing"
  /\ child' = IF child = "running" THEN "killed" ELSE child
  /\ open' = {}
  /\ pc' = "returned" /\ error' = "timed out"
  /\ UNCHANGED <<at, wrote, got, failed>>

\* child.wait after the reading, with no timer.
Reap ==
  /\ pc = "waiting" /\ child = "exited"
  /\ pc' = "returned" /\ error' = "exited"
  /\ UNCHANGED <<child, at, wrote, open, got, failed>>

\* truncate_output: the limit has been exceeded.
Truncated(p) == got[p] > MaxOutput

-----------------------------------------------------------------------------
Child == (\E p \in Pipes : BeginWrite(p) \/ Write(p) \/ ClosePipe(p)) \/ Exit
Agent == Rejected \/ Spawn \/ (\E p \in Pipes : Read(p) \/ ReadFails(p))
           \/ ReadingDone \/ Timeout \/ Kill \/ Reap

Next == Child \/ Agent

Spec == Init /\ [][Next]_vars

\* The runtime polls what is ready and the timer fires; the child is scheduled.
FairSpec == Spec /\ WF_vars(Child) /\ WF_vars(ReadingDone \/ Timeout \/ Kill \/ Reap)
                 /\ \A p \in Pipes : WF_vars(Read(p))

-----------------------------------------------------------------------------
(* Safety.                                                                 *)

\* The output of a command that ran to its end is reported whole, or said to be
\* truncated, and said so only if there was more than max_output_bytes: "exactly
\* at limit" is told from "over limit", whatever the child wrote when.
CompleteUnlessTruncated ==
  error = "exited" =>
    \A p \in Pipes :
      /\ Truncated(p) <=> wrote[p] > MaxOutput
      /\ ~Truncated(p) => got[p] = wrote[p]

\* "kill and reap the child so it does not outlive this function": once a verdict
\* about a run is returned, timed out or exited, its process is gone; and the exit
\* status reported is the child's own.
ChildIsGone ==
  /\ error = "timed out" => child \in {"exited", "killed"}
  /\ error = "exited" => child = "exited"

\* The inductive strengthening: a reader that is done stays done, because a
\* child writes only into a pipe it has open.
ReaderInv ==
  /\ child # "running" => open = {}
  /\ child = "running" /\ at # "computing" => at \in open
  /\ pc = "returned" <=> error # "none"
  /\ pc \in {"reading", "killing", "waiting"} => child \in {"running", "exited"}
  /\ pc = "waiting" \/ error = "exited" => \A p \in Pipes : ReadDone(p)
  /\ ChildIsGone

-----------------------------------------------------------------------------
(* Liveness.                                                               *)

\* The timeout ends the reading, even of a child that is blocked or silent.
ReadingEnds == pc = "reading" ~> pc # "reading"

\* "Execute a command as a subprocess with timeout and output size cap": the call
\* returns, for a program that writes a finite output and exits.
ExecutionEnds == pc = "reading" ~> pc = "returned"
=============================================================================
