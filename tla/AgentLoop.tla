-------------------------------- MODULE AgentLoop --------------------------------
(***************************************************************************)
(* The loop of puck-agent (agent/src/poll.rs) on one host, with the        *)
(* handlers of puck-mcp it talks to (server/agent_server.go) and the       *)
(* connections between them: poll, then stream, execute and submit, each   *)
(* over a network that loses requests and responses, breaks streams and    *)
(* lets them die silently, and with an agent that may be restarted.        *)
(*                                                                         *)
(* The queue behind the handlers is CommandContract: what is checked here  *)
(* holds of any queue that implements it.  A result is represented by its  *)
(* command, a response of the results handler by its status.               *)
(***************************************************************************)
EXTENDS Naturals, Sequences, FiniteSets, SequencesExt

CONSTANTS Cmds,           \* command ids
          Invs,           \* investigation ids
          Requests,       \* executions of the results handler
          Host, NoHost, NoRequest,
          MaxAttempts,    \* SUBMIT_MAX_ATTEMPTS
          MaxCrashes,     \* bound on restarts of the agent
          MaxStray        \* bound on polls the agent has given up, at a time

ASSUME LoopAssumption ==
  /\ IsFiniteSet(Cmds)
  /\ MaxAttempts \in Nat \ {0} /\ MaxCrashes \in Nat /\ MaxStray \in Nat
  /\ Host # NoHost /\ NoRequest \notin Requests

VARIABLES
  investigation,  \* CommandRequest.investigation_id of each command, fixed
  assigned, handed, accepted, outcome,  \* the queue, see CommandContract
  pc,        \* where the agent's loop is
  caller,    \* who called execute_and_submit: drain_on_connect or stream_events
  batch,     \* commands still to execute
  results,   \* by_investigation: what has not been submitted, in order
  sub,       \* the submission being made
  oversized, \* whether its body is longer than agentResultsMaxBytes
  attempt,   \* its attempt
  call,      \* the request the agent waits for, once it has reached the server
  link,      \* the agent's stream, as the network has it
  wire,      \* events on it the agent has not read
  streams,   \* SSE handlers the server runs: of this connection, of an old one
  todo,      \* results each results handler has still to deliver
  status,    \* control state of each, at the end its response
  stray,     \* polls in flight the agent does not wait for any more
  crashes,
  \* history, read by no guard
  execs,     \* how often each command was executed
  netFails,  \* attempts of the current submission that got no response
  lost       \* commands taken by a connection or a process, or given up

queueVars  == <<investigation, assigned, handed, accepted, outcome>>
loopVars   == <<pc, caller>>
workVars   == <<batch, results, execs>>
submitVars == <<sub, oversized, attempt, call, netFails>>
linkVars   == <<link, wire, streams>>
serverVars == <<todo, status>>
faultVars  == <<stray, crashes, lost>>
vars == <<queueVars, loopVars, workVars, submitVars, linkVars, serverVars,
          faultVars>>

Queue == INSTANCE CommandContract WITH Hosts <- {Host}

TypeOK ==
  /\ investigation \in [Cmds -> Invs]
  /\ assigned \in [Cmds -> {Host, NoHost}] /\ accepted \in [Cmds -> {Host, NoHost}]
  /\ handed \in [Cmds -> 0..1]
  /\ outcome \in [Cmds -> {"none", "waiting", "result", "timeout"}]
  /\ pc \in {"top", "polling", "connecting", "stream", "run", "group", "submit",
             "pause", "off"}
  /\ caller \in {"drain", "stream"}
  /\ batch \in Seq(Cmds) /\ results \in [Invs -> Seq(Cmds)] /\ sub \in Seq(Cmds) /\ wire \in Seq(Cmds)
  /\ attempt \in 1..MaxAttempts /\ netFails \in 0..MaxAttempts
  /\ pc = "submit" => netFails < attempt
  /\ pc = "pause" => attempt < MaxAttempts /\ netFails <= attempt
  /\ call \in Requests \union {NoRequest} /\ oversized \in BOOLEAN
  /\ link \in {"none", "up", "closed", "broken", "dead"}
  /\ streams \subseteq {"current", "old"}
  /\ todo \in [Requests -> Seq(Cmds)]
  /\ status \in [Requests -> {"idle", "running", "ok", "refused"}]
  /\ stray \in 0..MaxStray /\ crashes \in 0..MaxCrashes
  /\ execs \in [Cmds -> Nat]
  /\ lost \subseteq Cmds

\* Commands with a result that has not been submitted.
Executed == UNION {ToSet(results[i]) : i \in Invs}

Init ==
  /\ investigation \in [Cmds -> Invs]
  /\ Queue!Init
  /\ pc = "top" /\ caller = "drain"
  /\ batch = <<>> /\ results = [i \in Invs |-> <<>>] /\ execs = [c \in Cmds |-> 0]
  /\ sub = <<>> /\ oversized = FALSE /\ attempt = 1 /\ call = NoRequest /\ netFails = 0
  /\ link = "none" /\ wire = <<>> /\ streams = {}
  /\ todo = [r \in Requests |-> <<>>] /\ status = [r \in Requests |-> "idle"]
  /\ stray = 0 /\ crashes = 0 /\ lost = {}

-----------------------------------------------------------------------------
(* The dispatcher's side: it assigns commands to the host and waits.       *)

Dispatcher ==
  /\ \E c \in Cmds : Queue!Assign(c, Host) \/ Queue!Reply(c) \/ Queue!GiveUp(c)
  /\ UNCHANGED <<investigation, loopVars, workVars, submitVars, linkVars, serverVars, faultVars>>

-----------------------------------------------------------------------------
(* The top of the loop, and the poll of drain_on_connect.                  *)

StartPoll ==
  /\ pc = "top"
  /\ pc' = "polling"
  /\ UNCHANGED <<queueVars, caller, workVars, submitVars, linkVars, serverVars,
                 faultVars>>

\* handlePoll answers with what Drain took, in its order, or with 204.
PollAnswered ==
  /\ pc = "polling"
  /\ \E q \in SetToAllKPermutations(Cmds) :
       /\ Queue!Hand(Host, ToSet(q))
       /\ batch' = q
       /\ pc' = IF q = <<>> THEN "connecting" ELSE "run"
  /\ caller' = "drain"
  /\ UNCHANGED <<investigation, results, execs, submitVars, linkVars, serverVars, faultVars>>

\* The agent gets no response; the request may still reach the handler.
PollFails ==
  /\ pc = "polling"
  /\ pc' = "top"
  /\ stray' \in {stray, stray + 1} /\ stray' <= MaxStray
  /\ UNCHANGED <<queueVars, caller, workVars, submitVars, linkVars, serverVars, crashes,
                 lost>>

StrayPollAnswered ==
  /\ stray > 0
  /\ \E S \in SUBSET Cmds : Queue!Hand(Host, S) /\ lost' = lost \union S
  /\ stray' = stray - 1
  /\ UNCHANGED <<investigation, loopVars, workVars, submitVars, linkVars, serverVars, crashes>>

-----------------------------------------------------------------------------
(* stream_events and handleEvents.                                         *)

\* The server may still run the handler of an earlier connection.
ConnectOk ==
  /\ pc = "connecting"
  /\ pc' = "stream" /\ link' = "up" /\ wire' = <<>>
  /\ streams' = {"current"} \union {s \in {"old"} : streams # {}}
  /\ UNCHANGED <<queueVars, caller, workVars, submitVars, serverVars, faultVars>>

\* The response is lost: the server may have registered the stream.
ConnectFails ==
  /\ pc = "connecting"
  /\ pc' = "top"
  /\ streams' \in {streams, streams \union {"old"}}
  /\ UNCHANGED <<queueVars, caller, workVars, submitVars, link, wire, serverVars, faultVars>>

\* A handler writes a command to its connection, which may be gone.
StreamSends ==
  /\ \E s \in streams, c \in Cmds :
       /\ Queue!Hand(Host, {c})
       /\ \/ s = "current" /\ link = "up"
             /\ wire' = Append(wire, c) /\ UNCHANGED lost
          \/ ~(s = "current" /\ link = "up")
             /\ lost' = lost \union {c} /\ UNCHANGED wire
  /\ UNCHANGED <<investigation, loopVars, workVars, submitVars, link, streams, serverVars, stray,
                 crashes>>

\* Its request's context is done.
StreamUnregisters ==
  /\ \E s \in streams : (s = "old" \/ link # "up") /\ streams' = streams \ {s}
  /\ UNCHANGED <<queueVars, loopVars, workVars, submitVars, link, wire, serverVars, faultVars>>

\* The network: the stream ends in order, breaks, or dies without notice, and
\* what was under way may be lost.
LinkFails ==
  /\ link = "up"
  /\ link' \in {"closed", "broken", "dead"}
  /\ \E n \in 0..Len(wire) :
       /\ link' = "closed" => n = Len(wire)
       /\ wire' = SubSeq(wire, 1, n)
       /\ lost' = lost \union {wire[i] : i \in n+1..Len(wire)}
  /\ UNCHANGED <<queueVars, loopVars, workVars, submitVars, streams, serverVars, stray,
                 crashes>>

\* Mutant of ReadEvent: the events behind the first one are thrown away.
ReadEventAndClear ==
  /\ pc = "stream" /\ wire # <<>>
  /\ batch' = <<Head(wire)>> /\ wire' = <<>>
  /\ pc' = "run" /\ caller' = "stream"
  /\ UNCHANGED <<queueVars, results, execs, submitVars, link, streams, serverVars,
                 faultVars>>

ReadEvent ==
  /\ pc = "stream" /\ wire # <<>>
  /\ batch' = <<Head(wire)>> /\ wire' = Tail(wire)
  /\ pc' = "run" /\ caller' = "stream"
  /\ UNCHANGED <<queueVars, results, execs, submitVars, link, streams, serverVars,
                 faultVars>>

LeaveStream ==
  /\ pc = "stream" /\ wire = <<>>
  /\ pc' = "top" /\ link' = "none"
  /\ UNCHANGED <<queueVars, caller, workVars, submitVars, wire, streams, serverVars, faultVars>>

\* Closed by the server, or a read error: back to the top, at once or with back-off.
StreamEnds == link \in {"closed", "broken"} /\ LeaveStream

\* No chunk, not even a heartbeat, for SSE_READ_TIMEOUT.
ReadTimeout == link = "dead" /\ LeaveStream

-----------------------------------------------------------------------------
(* execute_and_submit.                                                     *)

\* Mutant of GroupOf: the id of the last command stands for all.
GroupOfLast(c) == investigation[Last(batch)]

GroupOf(c) == investigation[c]

\* executor::execute of the next command.
Execute ==
  /\ pc = "run" /\ batch # <<>>
  /\ batch' = Tail(batch)
  /\ results' = [results EXCEPT ![GroupOf(Head(batch))] = Append(@, Head(batch))]
  /\ execs' = [execs EXCEPT ![Head(batch)] = @ + 1]
  /\ UNCHANGED <<queueVars, loopVars, submitVars, linkVars, serverVars, faultVars>>

AllExecuted ==
  /\ pc = "run" /\ batch = <<>>
  /\ pc' = "group"
  /\ UNCHANGED <<queueVars, caller, workVars, submitVars, linkVars, serverVars,
                 faultVars>>

\* One submission for each investigation, as one body, which may turn out too long:
\* a result has up to 1 MiB of each pipe, and more once it is escaped.
NextGroup(i) ==
  /\ pc = "group" /\ results[i] # <<>>
  /\ sub' = results[i] /\ results' = [results EXCEPT ![i] = <<>>]
  /\ oversized' \in BOOLEAN
  /\ attempt' = 1 /\ netFails' = 0 /\ call' = NoRequest /\ pc' = "submit"
  /\ UNCHANGED <<queueVars, caller, batch, execs, linkVars, serverVars, faultVars>>

\* At the end, back to the caller.
Submitted ==
  /\ pc = "group" /\ \A i \in Invs : results[i] = <<>>
  /\ pc' = IF caller = "drain" THEN "connecting" ELSE "stream"
  /\ caller' = "drain" /\ attempt' = 1 /\ netFails' = 0
  /\ UNCHANGED <<queueVars, workVars, sub, oversized, call, linkVars, serverVars, faultVars>>

-----------------------------------------------------------------------------
(* handleResults: a body over the limit cannot be decoded and is answered  *)
(* 400; otherwise one result after the other, until one is refused.        *)

BodyTooLarge(r) ==
  /\ pc = "submit" /\ call = NoRequest /\ status[r] = "idle" /\ oversized
  /\ call' = r
  /\ status' = [status EXCEPT ![r] = "refused"]
  /\ UNCHANGED <<queueVars, loopVars, workVars, sub, oversized, attempt, netFails, linkVars, todo,
                 faultVars>>

SubmissionArrives(r) ==
  /\ pc = "submit" /\ call = NoRequest /\ status[r] = "idle" /\ ~oversized
  /\ call' = r
  /\ todo' = [todo EXCEPT ![r] = sub]
  /\ status' = [status EXCEPT ![r] = "running"]
  /\ UNCHANGED <<queueVars, loopVars, workVars, sub, oversized, attempt, netFails, linkVars,
                 faultVars>>

\* Queue.Deliver finds a waiter nobody has delivered to.
Awaited(c) == outcome[c] = "waiting" /\ accepted[c] = NoHost

\* It may have found it before the dispatcher's timer, and deliver after.
Found(c) == outcome[c] \in {"waiting", "timeout"} /\ accepted[c] = NoHost

Deliver(r) ==
  /\ status[r] = "running" /\ todo[r] # <<>> /\ Found(Head(todo[r]))
  /\ Queue!Accept(Head(todo[r]))
  /\ todo' = [todo EXCEPT ![r] = Tail(@)]
  /\ UNCHANGED <<investigation, loopVars, workVars, submitVars, linkVars, status, faultVars>>

\* ErrUnknownCommandID: 404, and the results behind it are not looked at.
Refuse(r) ==
  /\ status[r] = "running" /\ todo[r] # <<>> /\ ~Awaited(Head(todo[r]))
  /\ todo' = [todo EXCEPT ![r] = <<>>]
  /\ status' = [status EXCEPT ![r] = "refused"]
  /\ UNCHANGED <<queueVars, loopVars, workVars, submitVars, linkVars, faultVars>>

AllDelivered(r) ==
  /\ status[r] = "running" /\ todo[r] = <<>>
  /\ status' = [status EXCEPT ![r] = "ok"]
  /\ UNCHANGED <<queueVars, loopVars, workVars, submitVars, linkVars, todo, faultVars>>

\* Nobody waits for the response.
ResponseUnread(r) ==
  /\ status[r] \in {"ok", "refused"} /\ call # r
  /\ status' = [status EXCEPT ![r] = "idle"]
  /\ UNCHANGED <<queueVars, loopVars, workVars, submitVars, linkVars, todo, faultVars>>

-----------------------------------------------------------------------------
(* submit_with_retry.                                                      *)

Response(s) ==
  /\ pc = "submit" /\ call # NoRequest /\ status[call] = s
  /\ status' = [status EXCEPT ![call] = "idle"]
  /\ call' = NoRequest
  /\ UNCHANGED <<todo, netFails>>

\* No response: the connection fails before or after the handler has run.
NoResponse ==
  /\ pc = "submit"
  /\ call' = NoRequest /\ netFails' = netFails + 1
  /\ UNCHANGED serverVars

SubmitOk ==
  /\ Response("ok")
  /\ pc' = "group" /\ sub' = <<>> /\ oversized' = FALSE
  /\ UNCHANGED <<queueVars, caller, workVars, attempt, linkVars, faultVars>>

\* Mutant of SubmitFailed: one attempt too many.
SubmitFailedOnceMore ==
  /\ Response("refused") \/ NoResponse
  /\ attempt <= MaxAttempts
  /\ pc' = "pause"
  /\ UNCHANGED <<queueVars, caller, workVars, sub, oversized, attempt, linkVars, faultVars>>

SubmitFailed ==
  /\ Response("refused") \/ NoResponse
  /\ attempt < MaxAttempts
  /\ pc' = "pause"
  /\ UNCHANGED <<queueVars, caller, workVars, sub, oversized, attempt, linkVars, faultVars>>

Retry ==
  /\ pc = "pause"
  /\ pc' = "submit" /\ attempt' = attempt + 1
  /\ UNCHANGED <<queueVars, caller, workVars, sub, oversized, call, netFails, linkVars,
                 serverVars, faultVars>>

\* Mutant of Drop: the failed commands are put back and run again.
DropAndRunAgain ==
  /\ Response("refused") \/ NoResponse
  /\ attempt = MaxAttempts
  /\ pc' = "run" /\ batch' = sub /\ sub' = <<>> /\ oversized' = FALSE
  /\ UNCHANGED <<queueVars, caller, results, execs, attempt, linkVars, faultVars>>

\* The last attempt has failed: "results lost".
Drop ==
  /\ Response("refused") \/ NoResponse
  /\ attempt = MaxAttempts
  /\ pc' = "group" /\ sub' = <<>> /\ oversized' = FALSE
  /\ lost' = lost \union ToSet(sub)
  /\ UNCHANGED <<queueVars, caller, workVars, attempt, linkVars, stray, crashes>>

-----------------------------------------------------------------------------
(* The process: it ends, by an expired certificate, a renewed one or a     *)
(* crash, and is started again; what it holds in memory is gone.           *)

Crash ==
  /\ pc # "off" /\ crashes < MaxCrashes
  /\ pc' = "off" /\ crashes' = crashes + 1
  /\ lost' = lost \union ToSet(wire) \union ToSet(batch) \union Executed \union ToSet(sub)
  /\ batch' = <<>> /\ results' = [i \in Invs |-> <<>>] /\ sub' = <<>> /\ wire' = <<>>
  /\ link' = "none" /\ call' = NoRequest /\ oversized' = FALSE
  /\ caller' = "drain" /\ attempt' = 1 /\ netFails' = 0
  /\ UNCHANGED <<queueVars, execs, streams, serverVars,
                 stray>>

Restart ==
  /\ pc = "off"
  /\ pc' = "top"
  /\ UNCHANGED <<queueVars, caller, workVars, submitVars, linkVars, serverVars, faultVars>>

-----------------------------------------------------------------------------
Poll == StartPoll \/ PollAnswered \/ PollFails \/ StrayPollAnswered
Stream == ConnectOk \/ ConnectFails \/ StreamSends \/ StreamUnregisters \/ LinkFails
            \/ ReadEvent \/ StreamEnds \/ ReadTimeout
Work == Execute \/ AllExecuted \/ (\E i \in Invs : NextGroup(i)) \/ Submitted
Submit == SubmitOk \/ SubmitFailed \/ Retry \/ Drop
ResultsHandler == \E r \in Requests :
  \/ BodyTooLarge(r) \/ SubmissionArrives(r) \/ Deliver(r) \/ Refuse(r) \/ AllDelivered(r)
  \/ ResponseUnread(r)

Next == Dispatcher \/ Poll \/ Stream \/ Work \/ Submit \/ ResultsHandler \/ Crash \/ Restart

Spec == Init /\ [][Next]_vars

-----------------------------------------------------------------------------
(* Safety.                                                                 *)

\* Whatever is lost, retried or restarted, a command is executed at most once,
\* and a result is accepted only for a command that was executed.
ExecutedOnce ==
  \A c \in Cmds : execs[c] <= 1 /\ (accepted[c] # NoHost => execs[c] = 1)

\* The agent forgets nothing by itself: a command handed to its connection was
\* taken by a failing connection or process, waits to be executed, or has a result
\* that is under way, accepted, or given up after the last attempt.  In particular a
\* response 204 means that every result of the submission was accepted.
EveryCommandAccountedFor ==
  \A c \in Cmds : handed[c] = 1 =>
    \/ c \in lost
    \/ execs[c] = 0 /\ c \in ToSet(wire) \union ToSet(batch)
    \/ execs[c] = 1 /\ (accepted[c] # NoHost \/ c \in Executed \union ToSet(sub))

\* A result the dispatcher still waits for is given up only when the network failed
\* at every attempt, when the submission is longer than handleResults reads, which no
\* attempt changes, or when an earlier result of its own investigation, in the same
\* submission, was refused because nobody waits for it any more: handleResults stops
\* there.  Results of another investigation never cost it.
LossHasItsReason ==
  [][Drop => \A k \in DOMAIN sub : Awaited(sub[k]) =>
       \/ netFails' = MaxAttempts \/ oversized
       \/ \E j \in 1..k-1 : /\ investigation[sub[j]] = investigation[sub[k]]
                            /\ ~Awaited(sub[j])]_vars

-----------------------------------------------------------------------------
(* The inductive strengthening.                                            *)

\* A command is on its way once, from the wire to the batch, and not executed.
PlaceInv ==
  /\ IsInjective(wire) /\ IsInjective(batch)
  /\ ToSet(wire) \intersect ToSet(batch) = {}
  /\ \A c \in ToSet(wire) \union ToSet(batch) : handed[c] = 1 /\ execs[c] = 0
  /\ \A c \in Cmds : handed[c] = 0 => execs[c] = 0

\* What has a result was executed.
ResultInv ==
  /\ \A i \in Invs : \A c \in ToSet(results[i]) : execs[c] = 1
  /\ \A c \in ToSet(sub) : execs[c] = 1
  /\ \A r \in Requests : \A c \in ToSet(todo[r]) : execs[c] = 1
  /\ ExecutedOnce

\* Where the loop is says what it holds.
ControlInv ==
  /\ pc # "run" => batch = <<>>
  /\ pc \notin {"submit", "pause"} => sub = <<>>
  /\ link = "none" => wire = <<>>
  /\ pc \in {"top", "polling", "connecting", "off"} => link = "none"
  /\ pc \in {"run", "group", "submit", "pause"} /\ caller = "drain" => link = "none"

\* The handler the agent waits for has delivered what it need not deliver any more.
CallInv ==
  call # NoRequest =>
    /\ pc = "submit" /\ status[call] # "idle"
    /\ status[call] \in {"running", "ok"} =>
         \A c \in ToSet(sub) : accepted[c] # NoHost \/ c \in ToSet(todo[call])
    /\ status[call] = "ok" => todo[call] = <<>>

LoopInv == PlaceInv /\ ResultInv /\ ControlInv /\ CallInv /\ EveryCommandAccountedFor

-----------------------------------------------------------------------------
(* Why a submission fails, for LossHasItsReason.                           *)

AssignedInv == \A c \in Cmds : handed[c] = 1 => assigned[c] # NoHost

\* What is submitted together belongs together.
GroupInv ==
  /\ \A i \in Invs : \A c \in ToSet(results[i]) : investigation[c] = i
  /\ \A c, d \in ToSet(sub) : investigation[c] = investigation[d]

\* How many results of the submission handler r has delivered.
Delivered(r) == Len(sub) - Len(todo[r])

\* The handler the agent waits for has the rest of the submission before it.
HandlerInv ==
  call # NoRequest /\ status[call] = "running" =>
    /\ Len(todo[call]) <= Len(sub)
    /\ \A k \in 1..Len(todo[call]) : todo[call][k] = sub[Delivered(call) + k]
    /\ \A j \in 1..Delivered(call) : ~Awaited(sub[j])

\* Every awaited result is behind one nobody waits for.
Blocked == \A k \in DOMAIN sub : Awaited(sub[k]) => \E j \in 1..k-1 : ~Awaited(sub[j])

\* An attempt that got a response and is not the last one was refused: so will
\* every other be.
BlockedInv == ~oversized =>
  /\ call # NoRequest /\ status[call] = "refused" => Blocked
  /\ pc = "submit" /\ netFails < attempt - 1 => Blocked
  /\ pc = "pause" /\ netFails < attempt => Blocked

ReasonInv == AssignedInv /\ GroupInv /\ HandlerInv /\ BlockedInv
=============================================================================
