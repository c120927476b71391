------------------------------- MODULE Dispatch -------------------------------
(***************************************************************************)
(* The tool handlers of puck-mcp that run commands (mcp/internal/router:   *)
(* puck_run_check, puck_query_fleet, puck_run_batch) with what they share: *)
(* the investigation manager (mcp/internal/investigation), the audit log   *)
(* (mcp/internal/audit), the result files, and the handlers that open,     *)
(* extend and close an investigation (puck_investigate, puck_continue,     *)
(* puck_save_analysis).  The command queue and the agents behind it appear *)
(* as CommandContract, which CommandQueue implements.                      *)
(*                                                                         *)
(* Each tool call is a goroutine.  One action is one critical section      *)
(* (Manager.mu, Logger.mu, a queue operation) or one file operation; the   *)
(* work between them is local.  A call has a sequence of work items, one   *)
(* command for one host each; fanoutBounded runs them in goroutines of     *)
(* their own, at most FanoutLimit at once.                                 *)
(***************************************************************************)
EXTENDS Naturals, Sequences, FiniteSets, FiniteSetsExt

CONSTANTS Invs,          \* investigation ids
          Calls,         \* tool calls
          Tools,         \* the kinds of call there are, of Kinds
          Hosts,         \* agent host names
          MaxItems,      \* bound on the hosts or commands of one call
          MaxWork,       \* bound on those of all calls together
          MaxCommands,   \* cost cap of a new investigation
          MaxBudget,     \* bound on what puck_continue raises the cap to
          MaxActive,     \* max_active_investigations, 0 for no limit
          FanoutLimit,   \* max_fanout_concurrency
          MaxFails,      \* bound on the writes to logs and result files that fail
          NoHost, NoInv,
          NoItem, Empty, Torn  \* a result file: none, truncated, of broken content

Kinds == {"run_check", "query_fleet", "run_batch"}
Items == Calls \X (1..MaxItems)

\* A command for a host; ok says whether the policy engine accepts it.
Targets == [host : Hosts, ok : BOOLEAN]

ASSUME DispatchAssumption ==
  /\ MaxItems \in Nat \ {0} /\ MaxWork \in Nat /\ MaxCommands \in Nat /\ MaxBudget \in Nat
  /\ MaxActive \in Nat /\ FanoutLimit \in Nat
  /\ MaxFails \in Nat
  /\ Tools \subseteq Kinds
  /\ NoHost \notin Hosts /\ NoInv \notin Invs
  /\ {NoItem, Empty, Torn} \intersect Items = {} /\ Empty \notin {NoItem, Torn}

VARIABLES
  invPc,      \* progress of the handleInvestigate that opens it
  phase,      \* Investigation.Phase
  used,       \* Investigation.CommandCount
  budget,     \* Investigation.MaxCommands
  savePc,     \* progress of the handleSaveAnalysis on it
  logOpen,    \* keys of Logger.perInv
  globalLog,  \* entries of the global audit log: <<event, subject>>
  invLog,     \* entries of each investigation's audit.jsonl
  globalMissed, invMissed,  \* history: the entries whose write to them failed
  files,      \* per investigation and host, the item in pathfinder/<host>.json
  spoiled,    \* history: files a write failed on, or two writers had open at once
  call,       \* each tool call: its request and control state
  itemPc,     \* control state of each work item
  saved,      \* items whose WriteHostResult returned a path (saved_to)
  assigned, handed, accepted, outcome  \* the queue, as its contract

invVars   == <<invPc, phase, used, budget, savePc>>
logVars   == <<logOpen, globalLog, invLog, globalMissed, invMissed>>
fileVars  == <<files, spoiled, saved>>
itemVars  == <<itemPc, fileVars>>
queueVars == <<assigned, handed, accepted, outcome>>
vars == <<invVars, logVars, itemVars, call, queueVars>>

Queue == INSTANCE CommandContract WITH Cmds <- Items

\* The control states in which a call has been charged, and in which an item
\* holds a slot or has finished.
Charged  == {"dispatching", "returned"}
InFlight == {"started", "audited", "waiting", "result", "opened", "written"}
Finished == {"rejected", "stale", "timeout", "done"}

InvTypes ==
  /\ invPc  \in [Invs -> {"none", "checked", "published", "ready", "failed", "refused"}]
  /\ phase  \in [Invs -> {"pathfinder", "complete"}]
  /\ used   \in [Invs -> Nat]
  /\ budget \in [Invs -> Nat]
  /\ savePc \in [Invs -> {"idle", "complete", "logged"}]
  /\ logOpen \subseteq Invs

CallStates == {"idle", "admitted", "capped", "dispatching", "returned", "refused"}

CallTypes ==
  /\ call \in [Calls -> [pc : CallStates, kind : Kinds, inv : Invs \union {NoInv},
                         phase : {"pathfinder", "complete"}, targets : Seq(Targets)]]
  /\ \A t \in Calls : Len(call[t].targets) <= MaxItems

ItemTypes ==
  /\ files \in [Invs \X Hosts -> Items \union {NoItem, Empty, Torn}]
  /\ itemPc \in [Items -> {"todo"} \union InFlight \union Finished]
  /\ spoiled \subseteq Invs \X Hosts /\ saved \subseteq Items

QueueTypes ==
  /\ assigned \in [Items -> Hosts \union {NoHost}]
  /\ handed   \in [Items -> Nat]
  /\ accepted \in [Items -> Hosts \union {NoHost}]
  /\ outcome  \in [Items -> {"none", "waiting", "result", "timeout"}]

TypeOK == InvTypes /\ CallTypes /\ ItemTypes /\ QueueTypes

Init ==
  /\ invPc  = [i \in Invs |-> "none"]
  /\ phase  = [i \in Invs |-> "pathfinder"]
  /\ used   = [i \in Invs |-> 0]
  /\ budget = [i \in Invs |-> MaxCommands]
  /\ savePc = [i \in Invs |-> "idle"]
  /\ logOpen = {} /\ globalLog = {} /\ invLog = [i \in Invs |-> {}]
  /\ globalMissed = {} /\ invMissed = [i \in Invs |-> {}]
  /\ files  = [f \in Invs \X Hosts |-> NoItem]
  /\ call   = [t \in Calls |-> [pc |-> "idle", kind |-> "run_check", inv |-> NoInv,
                                phase |-> "pathfinder", targets |-> <<>>]]
  /\ itemPc = [c \in Items |-> "todo"]
  /\ spoiled = {} /\ saved = {}
  /\ Queue!Init

-----------------------------------------------------------------------------
(* Logger.Log: one critical section, the global file first, then the       *)
(* investigation's if it is open.  A write that fails leaves no entry and  *)
(* ends it with an error, which every caller discards.                     *)

Failures ==
  Cardinality(globalMissed) + MapThenSumSet(LAMBDA i : Cardinality(invMissed[i]), Invs)
    + Cardinality({c \in Items : /\ itemPc[c] \in {"written", "done"} /\ c \notin saved
                                /\ call[c[1]].phase # "complete"})

GlobalWriteFails(e) ==
  /\ Failures < MaxFails
  /\ globalMissed' = globalMissed \union {e}
  /\ UNCHANGED <<globalLog, invLog, invMissed>>

InvWrite(i, e) ==
  \/ invLog' = [invLog EXCEPT ![i] = @ \union {e}] /\ UNCHANGED invMissed
  \/ /\ Failures < MaxFails
     /\ invMissed' = [invMissed EXCEPT ![i] = @ \union {e}] /\ UNCHANGED invLog

LogTo(open, i, e) ==
  \/ GlobalWriteFails(e)
  \/ /\ globalLog' = globalLog \union {e} /\ UNCHANGED globalMissed
     /\ IF i \in open THEN InvWrite(i, e) ELSE UNCHANGED <<invLog, invMissed>>

Log(i, e) == LogTo(logOpen, i, e) /\ UNCHANGED logOpen

-----------------------------------------------------------------------------
(* puck_investigate.  Manager.Create checks the limit and stores the new   *)
(* investigation in two critical sections; nobody else knows its id until  *)
(* the handler has responded, so the set-up between is one step.  A set-up *)
(* that fails leaves the investigation in the manager.                     *)

Stored == {i \in Invs : invPc[i] \in {"published", "ready", "failed"}}

CreateCheck(i) ==
  /\ invPc[i] = "none"
  /\ invPc' = [invPc EXCEPT ![i] =
                 IF MaxActive > 0 /\ Cardinality(Stored) >= MaxActive
                   THEN "refused" ELSE "checked"]
  /\ UNCHANGED <<phase, used, budget, savePc, logVars, itemVars, call, queueVars>>

CreateStore(i) ==
  /\ invPc[i] = "checked"
  /\ invPc' = [invPc EXCEPT ![i] = "published"]
  /\ UNCHANGED <<phase, used, budget, savePc, logVars, itemVars, call, queueVars>>

\* CreateDirs, AddInvestigationLog or WriteMetadata returned an error; only
\* the last of them leaves the investigation's log open.
SetupFails(i) ==
  /\ invPc[i] = "published"
  /\ invPc' = [invPc EXCEPT ![i] = "failed"]
  /\ \E open \in BOOLEAN : logOpen' = IF open THEN logOpen \union {i} ELSE logOpen
  /\ UNCHANGED <<phase, used, budget, savePc, globalLog, invLog, globalMissed,
                 invMissed, itemVars, call, queueVars>>

\* Mutant of SetupDone: the start is logged before the log is added.
SetupLogsTooEarly(i) ==
  /\ invPc[i] = "published"
  /\ invPc'   = [invPc EXCEPT ![i] = "ready"]
  /\ logOpen' = logOpen \union {i}
  /\ LogTo(logOpen, i, <<"investigation_start", i>>)
  /\ UNCHANGED <<phase, used, budget, savePc, itemVars, call, queueVars>>

SetupDone(i) ==
  /\ invPc[i] = "published"
  /\ invPc'   = [invPc EXCEPT ![i] = "ready"]
  /\ logOpen' = logOpen \union {i}
  /\ LogTo(logOpen', i, <<"investigation_start", i>>)
  /\ UNCHANGED <<phase, used, budget, savePc, itemVars, call, queueVars>>

\* puck_continue: Manager.ExtendBudget.
Continue(i) ==
  /\ invPc[i] = "ready"
  /\ \E n \in 1..MaxBudget : budget[i] + n <= MaxBudget
                             /\ budget' = [budget EXCEPT ![i] = @ + n]
  /\ UNCHANGED <<invPc, phase, used, savePc, logVars, itemVars, call, queueVars>>

(* puck_save_analysis: analysis.md is written, which nothing here reads     *)
(* (an error ends the handler there), then the phase is set, the end       *)
(* logged and the investigation's log closed; all of it may repeat.        *)
SaveVars == <<invPc, used, budget, itemVars, call, queueVars>>

SaveSetPhase(i) ==
  /\ invPc[i] = "ready" /\ savePc[i] = "idle"
  /\ phase'  = [phase EXCEPT ![i] = "complete"]
  /\ savePc' = [savePc EXCEPT ![i] = "complete"]
  /\ UNCHANGED <<logVars, SaveVars>>

SaveLogEnd(i) ==
  /\ savePc[i] = "complete"
  /\ Log(i, <<"investigation_end", i>>)
  /\ savePc' = [savePc EXCEPT ![i] = "logged"]
  /\ UNCHANGED <<phase, SaveVars>>

SaveCloseLog(i) ==
  /\ savePc[i] = "logged"
  /\ logOpen' = logOpen \ {i}
  /\ savePc' = [savePc EXCEPT ![i] = "idle"]
  /\ UNCHANGED <<phase, globalLog, invLog, globalMissed, invMissed, SaveVars>>

-----------------------------------------------------------------------------
(* A tool call.  Begin is Manager.Get: the call keeps a copy of the        *)
(* investigation, and the phase in it, for all it does later.              *)

WellFormed(kind, targets) ==
  CASE kind = "run_check"   -> Len(targets) = 1
    [] kind = "query_fleet" -> \A m, n \in DOMAIN targets : targets[m].ok = targets[n].ok
    [] kind = "run_batch"   -> TRUE

Requests == UNION {[1..n -> Targets] : n \in 1..MaxItems}

Requested == MapThenSumSet(LAMBDA t : Len(call[t].targets), Calls)

Begin(t) ==
  /\ call[t].pc = "idle"
  /\ \E i \in Invs, kind \in Tools, targets \in Requests :
       /\ invPc[i] = "ready"
       /\ WellFormed(kind, targets) /\ Requested + Len(targets) <= MaxWork
       /\ call' = [call EXCEPT ![t] = [pc |-> "admitted", kind |-> kind, inv |-> i,
                                       phase |-> phase[i], targets |-> targets]]
  /\ UNCHANGED <<invVars, logVars, itemVars, queueVars>>

GoTo(t, pc) == call' = [call EXCEPT ![t].pc = pc]

\* run_check and query_fleet ask the policy engine before anything is charged,
\* run_batch for each command in its own goroutine.
Admissible(t) == call[t].kind = "run_batch" \/ call[t].targets[1].ok

Reject(t) ==
  /\ call[t].pc = "admitted" /\ ~Admissible(t)
  /\ Log(call[t].inv, <<"command_rejected", t>>)
  /\ GoTo(t, "refused")
  /\ UNCHANGED <<invVars, itemVars, queueVars>>

\* hostnames ["all"] with no active agent.
NoActiveAgents(t) ==
  /\ call[t].pc = "admitted" /\ Admissible(t) /\ call[t].kind = "query_fleet"
  /\ GoTo(t, "refused")
  /\ UNCHANGED <<invVars, logVars, itemVars, queueVars>>

\* Mutant of Cost: a batch is charged as one command.
CostOfOne(t) == 1

\* What IncrementCommands is asked for: a fleet query is one operation.
Cost(t) == IF call[t].kind = "run_batch" THEN Len(call[t].targets) ELSE 1

\* Mutant of Charge: a refused charge is rolled back although it was not made.
ChargeRollsBack(t) ==
  LET i == call[t].inv IN
  /\ call[t].pc = "admitted" /\ Admissible(t)
  /\ IF used[i] + Cost(t) > budget[i]
       THEN GoTo(t, "capped") /\ used' = [used EXCEPT ![i] = @ - Cost(t)]
       ELSE GoTo(t, "dispatching") /\ used' = [used EXCEPT ![i] = @ + Cost(t)]
  /\ UNCHANGED <<invPc, phase, budget, savePc, logVars, itemVars, queueVars>>

Charge(t) ==
  LET i == call[t].inv IN
  /\ call[t].pc = "admitted" /\ Admissible(t)
  /\ IF used[i] + Cost(t) > budget[i]
       THEN GoTo(t, "capped") /\ UNCHANGED used
       ELSE GoTo(t, "dispatching") /\ used' = [used EXCEPT ![i] = @ + Cost(t)]
  /\ UNCHANGED <<invPc, phase, budget, savePc, logVars, itemVars, queueVars>>

CapReached(t) ==
  /\ call[t].pc = "capped"
  /\ Log(call[t].inv, <<"cost_cap_reached", t>>)
  /\ GoTo(t, "refused")
  /\ UNCHANGED <<invVars, itemVars, queueVars>>

-----------------------------------------------------------------------------
(* fanoutBounded: items start in order, each when a slot is free, and the  *)
(* call returns when all have finished.                                    *)

ItemsOf(t) == {<<t, n>> : n \in DOMAIN call[t].targets}
\* Mutant of Running: the slot of an item that ended early is not released.
RunningLeaky(t) == {c \in ItemsOf(t) : itemPc[c] \notin {"todo", "timeout", "done"}}

Running(t) == {c \in ItemsOf(t) : itemPc[c] \in InFlight}
Slots(t)   == IF FanoutLimit = 0 THEN Len(call[t].targets) ELSE FanoutLimit

Step(c, from, to) ==
  /\ itemPc[c] = from
  /\ itemPc' = [itemPc EXCEPT ![c] = to]

Start(t, n) ==
  /\ call[t].pc = "dispatching" /\ n \in DOMAIN call[t].targets
  /\ \A m \in 1..(n - 1) : itemPc[<<t, m>>] # "todo"
  /\ Cardinality(Running(t)) < Slots(t)
  /\ Step(<<t, n>>, "todo", "started")
  /\ UNCHANGED <<invVars, logVars, fileVars, call, queueVars>>

Return(t) ==
  /\ call[t].pc = "dispatching"
  /\ \A c \in ItemsOf(t) : itemPc[c] \in Finished
  /\ GoTo(t, "returned")
  /\ UNCHANGED <<invVars, logVars, itemVars, queueVars>>

-----------------------------------------------------------------------------
(* One work item: queryHost, runOneBatchedCommand and the rest of          *)
(* handleRunCheck.                                                         *)

InvOf(c)    == call[c[1]].inv
TargetOf(c) == call[c[1]].targets[c[2]]

ItemReject(c) ==
  /\ Step(c, "started", "rejected")
  /\ ~TargetOf(c).ok
  /\ Log(InvOf(c), <<"command_rejected", c>>)
  /\ UNCHANGED <<invVars, fileVars, call, queueVars>>

\* registry.Status(host) = stale; the charge is kept.
ItemStale(c) ==
  /\ Step(c, "started", "stale")
  /\ TargetOf(c).ok
  /\ UNCHANGED <<invVars, logVars, fileVars, call, queueVars>>

ItemAudit(c) ==
  /\ Step(c, "started", "audited")
  /\ TargetOf(c).ok
  /\ Log(InvOf(c), <<"command_queued", c>>)
  /\ UNCHANGED <<invVars, fileVars, call, queueVars>>

\* Mutant of ItemEnqueue: the command is queued before the audit entry.
EnqueueUnaudited(c) ==
  /\ Step(c, "started", "waiting")
  /\ Queue!Assign(c, TargetOf(c).host)
  /\ UNCHANGED <<invVars, logVars, fileVars, call>>

ItemEnqueue(c) ==
  /\ Step(c, "audited", "waiting")
  /\ Queue!Assign(c, TargetOf(c).host)
  /\ UNCHANGED <<invVars, logVars, fileVars, call>>

ItemResult(c) ==
  /\ Step(c, "waiting", "result")
  /\ Queue!Reply(c)
  /\ UNCHANGED <<invVars, logVars, fileVars, call>>

\* Mutant of ItemTimeout: the error branch does not return.
TimeoutFallsThrough(c) ==
  /\ Step(c, "waiting", "result")
  /\ Queue!GiveUp(c)
  /\ UNCHANGED <<invVars, logVars, fileVars, call>>

ItemTimeout(c) ==
  /\ Step(c, "waiting", "timeout")
  /\ Queue!GiveUp(c)
  /\ UNCHANGED <<invVars, logVars, fileVars, call>>

(* WriteHostResult into <dir>/<phase>/<host>.json, with the phase the call  *)
(* read when it began: os.WriteFile opens the file, which truncates it,     *)
(* writes from its start and closes it.  Nothing keeps two calls from       *)
(* having one file open at once.  An error is reported in saved_to and      *)
(* otherwise ignored.                                                       *)

Dest(c) == <<InvOf(c), TargetOf(c).host>>

OtherWriters(c) == {d \in Items \ {c} : itemPc[d] = "opened" /\ Dest(d) = Dest(c)}

ItemOpen(c) ==
  /\ call[c[1]].phase # "complete"
  /\ Step(c, "result", "opened")
  /\ files' = [files EXCEPT ![Dest(c)] = Empty]
  /\ spoiled' = IF OtherWriters(c) = {} THEN spoiled \ {Dest(c)} ELSE spoiled \union {Dest(c)}
  /\ UNCHANGED <<invVars, logVars, saved, call, queueVars>>

\* The file cannot be opened: always so for the complete phase, which CreateDirs
\* makes no directory for.
ItemOpenFails(c) ==
  /\ call[c[1]].phase = "complete" \/ Failures < MaxFails
  /\ Step(c, "result", "written")
  /\ UNCHANGED <<invVars, logVars, fileVars, call, queueVars>>

\* What another writer put there in the meantime may be longer and stay behind.
ItemPut(c) ==
  /\ Step(c, "opened", "written")
  /\ \E x \in {c, Torn} : /\ files[Dest(c)] = Empty => x = c
                         /\ files' = [files EXCEPT ![Dest(c)] = x]
  /\ saved' = saved \union {c}
  /\ UNCHANGED <<invVars, logVars, spoiled, call, queueVars>>

\* The write fails, at once or half way, or the close does.
ItemPutFails(c) ==
  /\ Failures < MaxFails
  /\ Step(c, "opened", "written")
  /\ \E x \in {files[Dest(c)], Torn, c} : files' = [files EXCEPT ![Dest(c)] = x]
  /\ spoiled' = spoiled \union {Dest(c)}
  /\ UNCHANGED <<invVars, logVars, saved, call, queueVars>>

ItemAuditResult(c) ==
  /\ Step(c, "written", "done")
  /\ Log(InvOf(c), <<"command_result", c>>)
  /\ UNCHANGED <<invVars, fileVars, call, queueVars>>

-----------------------------------------------------------------------------
(* The other side of the queue: an agent takes a command and may answer.   *)
AgentTakes(c) ==
  /\ \E h \in Hosts : Queue!Hand(h, {c})
  /\ UNCHANGED <<invVars, logVars, itemVars, call>>

AgentAnswers(c) ==
  /\ handed[c] > 0
  /\ Queue!Accept(c)
  /\ UNCHANGED <<invVars, logVars, itemVars, call>>

-----------------------------------------------------------------------------
Investigate(i)  == CreateCheck(i) \/ CreateStore(i) \/ SetupFails(i) \/ SetupDone(i)
SaveAnalysis(i) == SaveSetPhase(i) \/ SaveLogEnd(i) \/ SaveCloseLog(i)
Decide(t)       == Reject(t) \/ NoActiveAgents(t) \/ Charge(t) \/ CapReached(t)
ItemWrite(c)    == ItemOpen(c) \/ ItemOpenFails(c) \/ ItemPut(c) \/ ItemPutFails(c)
Work(c) ==
  \/ ItemReject(c) \/ ItemStale(c) \/ ItemAudit(c) \/ ItemEnqueue(c)
  \/ ItemResult(c) \/ ItemTimeout(c) \/ ItemWrite(c) \/ ItemAuditResult(c)

Next ==
  \/ \E i \in Invs : Investigate(i) \/ Continue(i) \/ SaveAnalysis(i)
  \/ \E t \in Calls : Begin(t) \/ Decide(t) \/ Return(t)
  \/ \E t \in Calls, n \in 1..MaxItems : Start(t, n)
  \/ \E c \in Items : Work(c) \/ AgentTakes(c) \/ AgentAnswers(c)

Spec == Init /\ [][Next]_vars

\* Goroutines run and WaitForResult's timer fires; agents owe nothing.
Fairness ==
  /\ \A t \in Calls : WF_vars(Return(t)) /\ WF_vars(Charge(t))
  /\ \A t \in Calls, n \in 1..MaxItems : WF_vars(Start(t, n))
  /\ \A c \in Items : WF_vars(Work(c))

FairSpec == Spec /\ Fairness

-----------------------------------------------------------------------------
(* Safety.                                                                 *)

InvOfSubject(x) == IF x \in Invs THEN x
                   ELSE IF x \in Calls THEN call[x].inv ELSE InvOf(x)

\* What the global log says of an investigation.
EntriesOf(i) == {e \in globalLog : InvOfSubject(e[2]) = i}

\* A command an agent has been handed was accepted by the policy engine, went
\* to the host it was meant for, was charged to its investigation, and is in
\* the global audit log unless the very write of its entry failed, however calls,
\* saves and timeouts interleave; and no call has more items in flight than
\* max_fanout_concurrency.
NothingRunsUnaccounted ==
  /\ \A c \in Items : handed[c] > 0 =>
       /\ call[c[1]].pc \in Charged
       /\ TargetOf(c).ok /\ assigned[c] = TargetOf(c).host
       /\ <<"command_queued", c>> \in globalLog \union globalMissed
  /\ FanoutLimit > 0 => \A t \in Calls : Cardinality(Running(t)) <= FanoutLimit

\* Documented, and not so (docs/reference.md:449, docs/tutorial.md:227): every
\* command is in the global audit log before it is executed.  The handlers
\* discard Log's error and enqueue the command.
AuditedBeforeExecution ==
  \A c \in Items : handed[c] > 0 => <<"command_queued", c>> \in globalLog

\* The commands charged to an investigation: each of a batch, one of any other call.
ChargesOn(i) ==
  {c \in Items : LET t == call[c[1]] IN
     /\ t.inv = i /\ t.pc \in Charged
     /\ c[2] <= IF t.kind = "run_batch" THEN Len(t.targets) ELSE 1}

\* The counter of an investigation counts what its calls have been charged with,
\* and is never above its cap: concurrent calls lose no charge and overdraw
\* nothing, and a refused batch leaves no part of itself charged.
BudgetAccounting ==
  \A i \in Invs : used[i] <= budget[i] /\ used[i] = Cardinality(ChargesOn(i))

\* An investigation's own log holds nothing of another one, nothing the global
\* log lacks, and, until save_analysis closes it, everything the global log
\* says of the investigation but the entries whose write to it failed.
InvestigationLogAgrees ==
  \A i \in Invs :
    /\ invLog[i] \union invMissed[i] \subseteq EntriesOf(i)
    /\ i \in logOpen /\ invPc[i] = "ready" => invLog[i] \union invMissed[i] = EntriesOf(i)

\* A result file holds, where it holds one, the answer to a command of its own
\* investigation and host, accepted from that host; and the file of a result
\* reported as saved still holds one so reported, that of a later command of the
\* phase perhaps, unless a write is under way on it, a later write of it failed or
\* two of its writers overlapped: nothing else costs a saved result.
ResultFilesGenuine ==
  /\ \A f \in Invs \X Hosts : LET c == files[f] IN
       c \in Items => InvOf(c) = f[1] /\ assigned[c] = f[2] /\ accepted[c] = f[2]
  /\ \A c \in saved :
       files[Dest(c)] \in saved \/ Dest(c) \in spoiled \/ OtherWriters(c) # {}

-----------------------------------------------------------------------------
(* The inductive strengthening behind the proved properties.               *)

Dispatched == {"waiting", "result", "opened", "written", "timeout", "done"}

CallInv(t) == call[t].pc # "idle" => call[t].inv \in Invs

\* What an item has behind it at each point: its call was charged and names it;
\* it was accepted and audited before it was queued; and what the queue knows of
\* it belongs to its own host.
ItemInv(c) ==
  /\ itemPc[c] # "todo" => call[c[1]].pc \in Charged /\ c[2] \in DOMAIN call[c[1]].targets
  /\ itemPc[c] \in {"audited"} \union Dispatched =>
       TargetOf(c).ok /\ <<"command_queued", c>> \in globalLog \union globalMissed
  /\ assigned[c] # NoHost => itemPc[c] \in Dispatched /\ assigned[c] = TargetOf(c).host
  /\ handed[c] > 0 => assigned[c] # NoHost
  /\ accepted[c] # NoHost => accepted[c] = assigned[c]
  /\ itemPc[c] \in {"result", "opened", "written", "done"} => accepted[c] # NoHost
  /\ c \in saved => itemPc[c] \in {"written", "done"}

\* A file that is not spoiled has one writer at most, which found it empty.
WriterInv ==
  \A c \in Items : itemPc[c] = "opened" /\ Dest(c) \notin spoiled =>
    OtherWriters(c) = {} /\ files[Dest(c)] = Empty

SlotInv == FanoutLimit > 0 => \A t \in Calls : Cardinality(Running(t)) <= FanoutLimit

DispatchInv ==
  /\ \A t \in Calls : CallInv(t)
  /\ \A c \in Items : ItemInv(c)
  /\ SlotInv
  /\ WriterInv
  /\ ResultFilesGenuine

\* What keeps the charges exact: they are counted in well-formed calls, each of an
\* investigation, and are finitely many.
AccountInv ==
  /\ InvTypes /\ CallTypes
  /\ \A t \in Calls : CallInv(t)
  /\ \A i \in Invs : IsFiniteSet(ChargesOn(i))
  /\ BudgetAccounting

\* What the audit entries have behind them: an investigation that is open for
\* calls, a call that has begun or an item that has started, none of which is
\* ever undone.
LogInv ==
  /\ invLog \in [Invs -> SUBSET globalLog] /\ invMissed \in [Invs -> SUBSET globalLog]
  /\ \A e \in globalLog : \/ e[2] \in Invs /\ invPc[e[2]] = "ready"
                          \/ e[2] \in Calls /\ call[e[2]].pc # "idle"
                          \/ e[2] \in Items /\ itemPc[e[2]] # "todo"
  /\ \A t \in Calls : call[t].pc # "idle" => invPc[call[t].inv] = "ready"
  /\ \A i \in Invs : savePc[i] # "idle" => invPc[i] = "ready"
  /\ \A i \in logOpen : invPc[i] \in {"ready", "failed"}
  /\ InvestigationLogAgrees

-----------------------------------------------------------------------------
(* Liveness.                                                               *)

\* Every admitted call returns, whatever its agents do: a slot is given back on
\* every path out of an item, and every wait times out.
CallReturns == \A t \in Calls : call[t].pc = "dispatching" ~> call[t].pc = "returned"
=============================================================================
