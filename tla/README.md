# A verification development for puck-scout

puck-scout lets an assistant investigate a fleet of machines with read-only
commands.  A server, `puck-mcp` (Go, `src/mcp`), talks MCP to the assistant on one
side and HTTPS with mutual TLS to the agents on the other; an agent, `puck-agent`
(Rust, `src/agent`), runs on each machine, polls or streams commands, executes
them and submits results.  The modules here model the parts in which goroutines,
connections, files, processes and failures interact, and state what has to hold
of them.

    CommandContract            what the queue promises its two sides
      ^ implements             ^ used by               ^ used by
    CommandQueue             Dispatch                AgentLoop
    queue.go and its         tool handlers,          poll.rs, the agent-facing
    goroutines               investigations, audit   handlers, the network
                             log, result files

    PolicyServer, PolicyAgent ---> PolicyPipeline    one command line through both
    (over PolicyGrammar)                             engines, then the resolver

    ServerCerts ---> Certificates                    Registry ---> McpTransport
    ca.go, server_cert.go,   enroll.rs, renew.rs,    registry.go   mcp_server.go,
    rotate_server_cert.go    the handshake           and streams   stdio_server.go

    TokenLedger                                      Executor
    bootstrap.go, enrolment handler,                 executor.rs and the child
    token issuers                                    process it runs

An arrow means EXTENDS: the right-hand module composes the left-hand one with what
uses it.

| module | role |
|---|---|
| `CommandContract.tla` | abstract specification of command delivery |
| `CommandQueue.tla` | `internal/agents/queue.go` and the goroutines that use it |
| `CommandQueueProofs.tla` | its invariants and the refinement, proved |
| `Dispatch.tla` | run_check, query_fleet, run_batch, the investigation manager, audit log and result files |
| `DispatchProofs.tla` | types, accounting, budget, audit logs and result files, proved |
| `AgentLoop.tla` | the agent's loop, the handlers it talks to, and the network between |
| `AgentLoopProofs.tla` | its invariants, proved |
| `PolicyGrammar.tla` | words, binary entries and parses, shared by both engines |
| `PolicyServer.tla`, `PolicyAgent.tla` | `policy/*.go`, and `safety/policy/*.rs` with overrides and the resolver |
| `PolicyPipeline.tla` | a command line on its way through both, with tables that may differ |
| `PolicyPipelineProofs.tla` | what the agent spawns conforms to its own table and is what was asked, and the two engines agree, proved |
| `ServerCerts.tla` | CA and server certificate: four files, several processes |
| `Certificates.tla` | the same with one agent that enrols, serves and renews, and a clock |
| `CertificatesProofs.tla` | its invariants, proved |
| `Registry.tla` | `agents/registry.go` with the handlers and the heartbeat that feed it |
| `McpTransport.tla` | MCP sessions over HTTP and stdio, with a tool that reads the registry |
| `McpTransportProofs.tla` | its invariants, proved |
| `TokenLedger.tla` | the bootstrap-token ledger, its issuers and the enrolment handler |
| `TokenLedgerProofs.tla` | its invariants, proved |
| `Executor.tla` | the agent's `execute`: one command beside its child process |
| `ExecutorProofs.tla` | its invariants, proved |
| `MC*.tla` | instances for TLC; one `.cfg` per run |

## 1. Inventory

For each component: the state it keeps, its operations, with whom it interacts,
what is hard about it, and what makes it correct.

**Command queue** (`mcp/internal/agents/queue.go`).  State: per host a pending
list, one registered SSE channel (capacity 128), per command a waiter with a
result channel of capacity 1 and a compare-and-swap flag.  Operations: Enqueue,
RegisterSSE, UnregisterSSE, Drain, Deliver, WaitForResult.  Called by the tool
handlers on one side and by the SSE, poll and results handlers on the other.
Hard: sends outside the lock, a reconnect beside the old connection's end, a
result racing the timer.  Correct when a command is handed out at most once and
only to its host, a reply comes from that host, nobody blocks on the result
channel, and every wait ends.

**Agent-facing HTTP server** (`mcp/internal/server/agent_server.go`, `identity.go`,
`auth.go`, `renew.go`).  No state of its own; identity is the client
certificate's name.  handlePoll drains then responds, handleResults delivers a
batch and stops at the first refused result, handleEvents streams.  Hard:
lost responses, partial batches, a batch longer than the 10 MB it reads.  Correct when what one response loses or one
result refuses affects no other host.

**Agent registry** (`registry.go`).  State: last contact per host.  Touch, Record,
Status, ActiveAgents.  Fed by polls, streams and a stream's heartbeat.  Hard: a
verdict that is stale when used, two computations of "active" from the same
timestamps.  Correct when a streaming agent, however quiet, is never missed.

**Tool dispatch** (`router/run_check.go`, `query_fleet.go`, `run_batch.go`,
`fanout.go`).  State: per call its work items.  Policy check, budget charge,
audit, enqueue, wait, write the result, audit.  Hard: concurrent calls on one
investigation, partial failure of a batch, slots given back on every path.
Correct when nothing runs that was not accepted, charged and audited, the budget
adds up, and every call returns.

**Investigation manager** (`investigation/state.go`).  State: investigations with
phase, command count and cap.  Create, Get (by value), IncrementCommands,
SetPhase, ExtendBudget.  Hard: check-then-act across critical sections, snapshots.

**Audit log** (`audit/audit.go`).  State: a global file, one file per open
investigation.  Log, AddInvestigationLog, CloseInvestigation.  Hard: closing an
investigation's log while its commands are in flight; a write that fails, whose error
every caller discards.  Correct when the logs differ only by what could not be written
or came after the close.

**Result files** (`investigation/results.go`).  State: `<phase>/<host>.json`.  Hard:
two commands for one host write one file, truncating it first, with no lock and no
rename.  Correct when a file holds what its own host answered, and a saved result goes
only to a later write of its own file.

**Bootstrap tokens and enrolment** (`pki/bootstrap.go`, `server/enroll.go`,
`generate_bootstrap_token.go`, `router/enroll_instructions.go`).  State: a JSONL file,
a lock file, a temporary file, a mutex per ledger object.  Issue,
ValidateAndSpend, OpenTokenLedger.  Hard: two locks held separately for reading
and writing, several processes, a crash between any two file operations.  Correct
when a token is consumed once, for its host, durably, and never for nobody.

**Server certificates** (`pki/ca.go`, `server_cert.go`, `rotate_server_cert.go`,
`server/instance_lock.go`).  State: two pairs of files, and what each process loaded
from them.  Operations: EnsureCA, EnsureServerCert, rotate-server-cert,
SignAgentCert.  Hard: both Ensure functions run before the instance lock, so a
start, a second start and a rotation write the same files; a crash between the two
files of a pair; an operator who deletes some of them.  Correct when a pair is torn
only by such a cut or overlap and an agent that pinned the CA stays served.

**MCP transports** (`server/mcp_server.go`, `stdio_server.go`).  State: the SSE session
table with its counter and its bounded channels.  Hard: the limit is checked and
counted in two steps, every message is a goroutine, an answer that finds a full
channel is dropped.  Correct when an answer goes once to the session that asked and
the counter is the number of sessions.

**Agent executor** (`agent/src/executor.rs`).  State: the child, two bounded readers, a
timer.  Called by the agent's loop, one command at a time.  Hard: a child that
writes more than is read, blocks, or closes its pipes; the timer firing beside
its exit.  Correct when memory is bounded, output is whole or said to be truncated,
no child outlives a verdict, and the call returns.

**Agent loop** (`agent/src/poll.rs`).  State: where the loop is, the commands and
results it holds, the attempt, the stream.  Polls once, streams until the stream
ends, executes and submits in between.  Interacts with the three handlers over a
network.  Hard: a response lost after the handler ran, a retry of what was
already done, handlers of an earlier connection that still run, a half-dead
stream, a restart.  Correct when no command is executed twice, none is forgotten,
and a result that is awaited is given up only for a reason outside the agent.

**Agent enrolment and renewal** (`enroll.rs`, `renew.rs`, `pki.rs`, the renewal check of
`poll.rs`).  State: certificate, key and pinned CA as three files, and the identity the
running agent presents.  Hard: three files written one after the other by two
programs; an expiry that is looked at only between two streams, which may last for
months; a failed renewal that leaves the disk ahead of the process.  Correct when the
files fit unless a writer was cut, and a certificate lapses under the agent only behind a
failed renewal or a stream older than the renewal window.

**Policy engine** (`policy/*.go`, `agent/src/safety/policy/*.rs`, `agent/src/executor.rs`,
`router/policy_drift.go`).  State: an embedded table on each side, overrides on the
agent's.  The server parses an argv and rewrites it, the agent parses what it is sent
and rewrites it again, then chooses an executable.  Hard: one grammar written twice,
in two languages; builds of different age; combined short flags; words that change
their place.  Correct when what is spawned is what was asked and lies within the
agent's table, whatever the server let through.

**Aggregation, skills and listings, configuration, installers**: pure or read-only,
sequential.

`PROJECT.json` names the sources of every component, how far each is modelled, and
the hazards, each at its line with the properties that would catch it.

## 2. Modules and code

### CommandQueue

One action is one step another goroutine can interleave with: a critical section
of `Queue.mu`, a compare-and-swap, one channel operation.

| code | actions |
|---|---|
| `Enqueue` | `EnqueueToStream`, `EnqueueToPending` (the select's two cases) |
| `RegisterSSE` | `RegisterSSE` (locked), `DrainSend` per command (blocking), `RegisterReturn` |
| select loop of `handleEvents` | `StreamCommand` |
| deferred `UnregisterSSE` | `UnregisterSSE` |
| `handlePoll` | `Drain` |
| `Deliver` | `DeliverLookup`, `DeliverCAS`, `DeliverSend` |
| `WaitForResult` | `WaitLookup`, `WaitReceive` or `WaitTimer`, `WaitReturn` |

A result is represented by the host that submitted it, a channel by the sequence
of what it holds.  `handed` counts how often a command was given to a connection:
a history variable, read by no guard.

`CommandContract` keeps, per command, the host it was assigned to, whether it was
handed over, whose result was accepted and how the wait ended.  The refinement
maps `assigned <- owner`, `accepted <- winner` and `outcome` to the control state of
the waiting goroutine; the acceptance of a result is the compare-and-swap.

### Dispatch

The three handlers that run commands are one process type, a call with a sequence
of work items.  They differ in when the policy is asked (`Admissible`: before the
charge, or per item in a batch) and in what is charged (`Cost`).  `Charge` is
`IncrementCommands`; `Log` is `Logger.Log` with the ways its two writes may end;
`Start`, `Running`, `Slots` and `Return` are `fanoutBounded`.  `Begin` copies the
phase, as `Manager.Get` copies the investigation, and `ItemWrite` uses the copy.  `CreateCheck` and
`CreateStore` are the two critical sections of `Manager.Create`, `SaveSetPhase`,
`SaveLogEnd` and `SaveCloseLog` the steps of puck_save_analysis.  The queue appears
through the actions of `CommandContract`, so what is checked here holds of every
queue that implements it, `CommandQueue` included.

`LogTo` lets the global write fail, after which nothing more is written, or the
investigation's; the item goes on in every case, as the handlers do.  `globalMissed` and
`invMissed` remember the entries that were not written.  `os.WriteFile` is two steps,
`ItemOpen` (the file is open and empty) and `ItemPut`, each with its failure
(`ItemOpenFails`, `ItemPutFails`); between them another call may open the same file, and a
writer that does not find it empty may leave it `Torn`, parts of two writings.  `spoiled` has
the files that a failed or overlapping write touched since a writer last opened
them alone, `saved` the items whose path was reported.  These four are history variables,
read by no guard but the bound `MaxFails`.

### TokenLedger

A record changes only by becoming spent, so the file is a function from tokens to
absent, unspent or spent.  An operation reads under the lock (`IssueRead`,
`Validate`), then takes the lock again and writes the temporary file (`Lock`), then
renames it (`Rename`), or fails on the way (`Fails`).  `Open` removes the
temporary file without the lock, as OpenTokenLedger does.  Each object has its own
mutex, which is its control state `pc`.  `Crash` ends a process: its objects and
locks go, files stay.  `lost` records the tokens a write took back: a
history variable, read by no guard, that lets the properties say which guarantee
remains although two objects may overwrite each other.

### Executor

`Rejected` and `Spawn` are `execute` up to the spawn; `Read`, `ReadFails` and
`ReadingDone` are the two `read_to_end` under `take(cap)` and their join, `Timeout` and
`Kill` the other branch of the select, `Reap` the wait of the successful branch.
Output is counted in units.  The child is external: it writes into its pipes in any
order, blocks when one is full, may close one, and exits; it stands for a program
whose output is finite and which does not hand its pipes to a process of its own.

### AgentLoop

One host.  `pc` is where `run` is: `top`, `polling` and `connecting` in the loop itself,
`stream` in `stream_events`, `run`, `group`, `submit` and `pause` in `execute_and_submit`,
`off` while the process is down.

| code | actions |
|---|---|
| `drain_on_connect`, `handlePoll` | `StartPoll`, `PollAnswered`, `PollFails`, `StrayPollAnswered` |
| `stream_events` | `ConnectOk`, `ConnectFails`, `ReadEvent`, `StreamEnds`, `ReadTimeout` |
| `handleEvents` | `StreamSends`, `StreamUnregisters` |
| `execute_and_submit` | `Execute`, `AllExecuted`, `NextGroup` per investigation, `Submitted` |
| `submit_with_retry` | `SubmitOk`, `SubmitFailed`, `Retry`, `Drop` |
| `handleResults` | `BodyTooLarge`, or `SubmissionArrives`, `Deliver` per result, then `Refuse` or `AllDelivered` |
| network, supervisor | `LinkFails`, `ResponseUnread`, `Crash`, `Restart` |

The network loses a request (`NoResponse` before `SubmissionArrives`), a response
(`NoResponse` after it, while the handler goes on), a poll in either way (`PollFails`
with or without a stray poll that drains later), and events of a stream.  A stream
ends in order, breaks, or dies silently; the server notices at its own time, so
handlers of two connections may run at once.  The queue is CommandContract; the
contract's acceptance is where `Deliver` wins, which may still be after the timer
(`Found`).  A submission is one body for all results of an investigation; whether it is
longer than handleResults reads is chosen when it is made (`oversized`) and the same at
every attempt.  `lost`, `execs` and `netFails` are history variables.

### PolicyGrammar, PolicyServer, PolicyAgent, PolicyPipeline

A word is opaque; `Shape` says of it what the code looks at: how many dashes, which
letters a combined short flag spells, which forbidden characters occur, whether it
reads as a number with a sign and a unit, which prefixes a path or a glob may test.
`BinaryPolicy` is one entry of policy.toml.  `WellFormed` says what its 59 binaries look
like: flag names unique within a binary, no positional of kind none, no prefixes inside a
kind.  The loaders decode the file and check none of this.

| code | definitions |
|---|---|
| `policy.go`, `parse.go` | `lookup`, `consumeSubcommand`, `flagVerdict`, `parseFlag`, `positionalVerdict`, `normalisedArgv` |
| `parse.go` AllowsPattern, for the skills | `AllowsPattern` |
| `validate.rs`, `parse.rs` | the same for the agent, named as in `parse.rs` |
| `overrides.rs`, `resolver.rs` | `lookup_binary`, `apply`; `resolve` over what the file system holds |
| `enforcePolicy`, `executor.rs`, `enrichAgentError` | `Forward`, `Resolve`, `EnrichAgentError` (with `reported`, the table whose digest the registry got last, if any) |

The two engines are translated separately, each from its own language, also where
they read alike: a difference would be visible.  The differences there are, are in
the model: the server folds a command name by Unicode rules and the agent by ASCII
only, the two give different codes for a bad enum positional, and the server accepts
a positional of kind "none".  A parser consumes one word, or a flag with its value,
per step, so that a run over all command lines stays small and a proof can follow
the words.

`EntriesSettled` says of a policy.toml what its binaries all have: no empty subcommand
entry, and where a shorter entry could match the front of a longer one (`list` and
`list --installed` of apt; likewise brew's `list --versions` and snap's `list --all`),
the rest of the longer one is flags without a value.  The code does not enforce it; the
table is compiled into both programs, and each of its 59 binaries satisfies it.

### ServerCerts and Certificates

A CA is a generation number, a certificate the number of its key pair with its CA,
names and expiry.  A process is a program counter, what it has loaded, and the list
`todo` of the files it has still to write; `writePEM` takes one off, and `Dies` may come
before any of them.

| code | actions |
|---|---|
| `main` up to the listener | `StartDaemon`, `loadCA`, `EnsureCARefuses`, `generateCA`, `KeepLeaf`, `generateServerCert`, `Serve`, `ServeRefused` |
| `rotate-server-cert` | `Rotate`, then as above without `KeepLeaf` |
| operator, `docs/operations.md` | `RotateCA`, `LoseCaHalf` |
| `enroll::run`, `persist_enrolled_material` | `EnrollSkips`, `EnrollStarts`, `EnrollAnswered`, `PersistEnrolled`, `EnrollFails` |
| `serve`, `build_client`, the guards of `poll::run` | `ServeAgent`, `CertExpired`, `Connect`, `StreamEnds` |
| `renew_cert` | `RenewAnswered`, `RenewFails`, `PersistRenewed`, `PersistFails` |

`Handshake` is mutual TLS with pinned authorities: each side's certificate against the
CA the other loaded, names and expiry.  `Tick` is a large part of a month: everything
but an open stream happens between two ticks, and a stream lasts any number of them:
the server's heartbeats reset the only timeout it has (poll.rs:310-364).  `since` and
`failed` remember when the last stream began and whether a renewal failed since then.
`mishaps` is a history variable too: it
records the six events outside one program's control after which a promise ends
(a writer of a pair cut or overtaken, two first CAs generated together, a certificate
that outlived its CA, an agent's writer cut, an enrolment beside the running agent).

### Registry and McpTransport

`elapsed` is the time since a host's last contact, saturating past the stale timeout.
`handlePoll`, `handleEvents` and `HeartbeatTicks` touch a host; an agent that vanishes
leaves a half-open stream whose ticker goes on touching it until a write fails
(`StreamCloses`).  `handleSSE` and `OpenSession` are the check and the count of one GET;
`handleMessage`, `HandleToolCall` and `queueResult` the goroutine of one POST;
`WriteMessage` and `CloseSession` the session's loop.  `Scan` and `Encode` are the stdio
loop.  `live` and `roster` remember, for one call, which agents streamed throughout and
which it was told of; `together` that two GETs passed the check at once.

## 3. What is checked

| run | instance | properties |
|---|---|---|
| `queue_safety` | 2 hosts, 2 commands, 2 connections, 2 Deliver calls, channel capacity 1 | TypeOK, HandedOutOnce, SendNeverBlocks, RegisteredStreamIsLive, RegistrationBlocksOnlyOnBacklog, ImplementsContract, NewerStreamSurvives |
| `dispatch_safety` | 1 investigation, 2 calls (fleet queries and batches), 1 host, 2 work items in all, cap 1 raised to 2, 1 slot, 1 failing write | TypeOK, NothingRunsUnaccounted, BudgetAccounting, InvestigationLogAgrees, ResultFilesGenuine |
| `dispatch_returns` | 1 call of up to 2 items, 1 failing write, with fairness | CallReturns |
| `dispatch_audit` | 1 call of 1 item, 1 failing write | AuditedBeforeExecution is **violated** |
| `loop_safety` | 2 commands, 2 investigations, 2 results handlers, 2 attempts, submissions of either length, 1 restart, 1 abandoned poll | TypeOK, ExecutedOnce, EveryCommandAccountedFor, LossHasItsReason |
| `policy_agree` | 5 binaries of policy.toml, 2 tables, 2 sets of overrides, every argv of up to 3 or 4 words, any file system | TypeOK, SpawnConforms, SpawnedAsAsked, EnginesAgree |
| `certs` | 1 daemon, 1 rotation, 2 SAN lists, 2 CAs, 2 key pairs a side, lifetime 3, window 2, streams of any length, 1 kind of mishap | TypeOK, EnrolledAgentIsServed, TornOnlyByMishap, LapseHasItsReason, WatchesItsOwnCertificate |
| `daemon` | 1 host, thresholds 1 and 3, heartbeat 2, 2 sessions with a limit of 1, 3 messages, channel capacity 1 | TypeOK, ConnectionsAccounted, AnswersReachTheirClient, RosterMissesNoStreamingAgent |
| `ledger_safety` | 2 tokens, 2 hosts, 2 requests, the daemon and a command-line issuer, with fairness | TypeOK, SpentOnceUnlessTakenBack, LedgerRemembers, NoPhantomSpend, EnrolmentEnds |
| `ledger_once` | the same with the minting tool inside the daemon | TokenUsedOnce is **violated** |
| `executor_safety` | limit 1, pipe capacity 1, up to 4 units written into each pipe, with fairness | TypeOK, CompleteUnlessTruncated, ChildIsGone, ReadingEnds |
| `executor_ends` | the same | ExecutionEnds is **violated** |

What some of them mean.  NothingRunsUnaccounted: a command in an agent's hands was
accepted and charged, and its audit entry was written before it was queued, or that very
write failed.  ResultFilesGenuine: a readable result file has its own host's answer, and
the file of a result reported as saved keeps one so reported, unless a later write of
that file is under way, failed or overlapped another.  LossHasItsReason: a result that
is awaited is given up when the network failed every attempt, when its submission is too
long for the server, or behind a result of its own investigation that nobody awaited.
SpawnConforms: the agent's own table is the last word,
whatever version the server has.  SpawnedAsAsked: two rewritings neither drop, repeat
nor invent a word.  EnginesAgree: with equal tables, what the server accepts the
agent's grammar accepts and leaves as it is, so a refusal explained without drift, by a
digest that is the agent's present one, comes from overrides, the resolver or the folding
of names.  EnrolledAgentIsServed: an agent
with three complete files and the server's CA connects and renews, through restarts
and rotations, but for the named mishaps.  LapseHasItsReason: a certificate lapses under
a running agent only when a renewal failed since the last stream began, or when that
stream (or the process) began before the renewal window; an agent that comes round inside
its window, and is answered, never lapses.  AnswersReachTheirClient: a dropped answer
means a channel full of answers to others.

Each property of a passing run has a mutant: a definition changed the way a bug
would change it, under which TLC finds the property violated.  Mutants stand
before the definition they mutate.

**Bounds.**  Two hosts are needed for a foreign submitter; two commands for order
and overflow; two connections for a reconnect; two Delivers for the race.  Capacity
1 makes the channel full with the second command, so the overflow to the pending
list and the blocking drain happen.  In Dispatch, two calls race for a cap that one
of them can exhaust, a batch of two meets one slot, and two single commands have two
writers of one file, one reported before the other fails; `MaxWork` bounds items,
`MaxBudget` what puck_continue may add, `MaxFails` the writes that fail: one, at any point
of any log or file (the theorems hold for any number).  `Tools` leaves run_check out of
`dispatch_safety`: in the model it takes the steps of a query_fleet of one host, less
NoActiveAgents, and the runs that follow have it.  In TokenLedger two requests can present one token or two, two hosts give a
wrong one, and one issuer beside the daemon is enough for a lost update.  In Executor
four units exceed what reader and pipe take together (2 + 1), so the child does block;
`MaxWritten` bounds its output.  In AgentLoop two commands make a submission whose
first result is refused and a batch of two investigations; two attempts, instead of
the code's three, make a retry and a last attempt; with two results handlers a retry
meets the first request still being handled; one restart and one abandoned poll
(`MaxCrashes`, `MaxStray`) may fall between any two steps.  Counters
need no other bound: `handed` and `used` are limited by commands and cap.

In PolicyPipeline the words of each binary's command lines include a flag with and
without a value, a combined short with a letter that takes one, a negative number, a
forbidden flag, a word with a shell character, a word that is in no table; four words
hold a subcommand of two with a flag and its value (`FindLen`, `AptLen`, `AwsLen`), or a
flag, its value and two positionals, and `ls` takes flags alone (`LsLen` 3).  The older
table lacks a binary and two flags and differs in positionals and subcommands.  In Certificates, `Life` 3 with `Window` 2 and
streams of any number of ticks have one that ends before the window, one that ends
inside it and one that outlasts the certificate; `MaxNow` 3 lets the first certificates expire; `MaxCa` and `MaxPairs` 2 give
one replacement of each; `MaxRuns` one rotation beside the daemon, so every overlap of
two writers occurs; `MaxMishaps` 1 separates the mishaps, each of which alone must
explain a violation.  With one daemon the instance lock is never contended here.  In
McpTransport two sessions with a limit of one make the race of check and count; three
messages fill a channel of one and have one dropped; `StaleTimeout` 3 exceeds threshold
1 and heartbeat 2 as the defaults (300, 10 and 25 s) do.

**Symmetry** is used in the safety runs only.  Deadlock is checked in the queue,
loop, ledger and daemon runs.  In Dispatch calls and investigations are finite, in Executor
one call is and in PolicyPipeline one command line, and the clock and the key pairs of
Certificates end, so their runs stop.

**Fairness.**  Goroutines that can run are scheduled, a started timer fires, a
process holding a lock finishes its operation.  Nothing is assumed of agents: they
may never connect, poll or answer.  In Dispatch a call is scheduled while it decides, starts
items and works on them, and WaitForResult's timer fires.  In TokenLedger a request that waits for the mutex or the
file lock gets its turn only because every holder gives it back; fairness is on the
holder's steps and on the waiter's, not on the issuers' commands, crashes or
expiry.  In Executor the readers are polled when there is something to read, the
timer fires, and the child, being a process, is scheduled.  AgentLoop assumes none: it
states what may not happen, because its requests have no time limit and may wait
for ever.  Registry and Certificates keep time by urgency instead of fairness: a ticker
that is due fires before the next tick, and the clock waits for a start, an enrolment
or what the agent does between two streams.  For seconds against months that is what
the machines do.  It never waits for a stream, since nothing in the code limits one.

## 4. What the violations show, and what else the code does otherwise than said

- `ledger_once`: bootstrap.go says only the first caller of ValidateAndSpend succeeds, and
  that its file lock serialises it with other objects; the lock is released between the
  read and the write, so an Issue that read earlier restores a spent token.
- `executor_ends`: executor.rs says a command is executed with a timeout.  The timer
  covers the reading only.  When both readers reach their cap, the agent waits for the
  child, which waits for room in a pipe that the agent holds open and no longer reads;
  a child that closes its pipes and runs on has the same effect.
- `dispatch_audit`: docs/reference.md:449 says every command is written to the global audit
  log before execution, docs/tutorial.md:227 that every call appears there before execution.
  A write that fails (a full disk, say) makes `Log` return an error (audit.go:85) that
  run_check.go:116, query_fleet.go:225 and run_batch.go:225 discard; the command is queued
  and runs without an entry.

Modelling met more places where a comment or a document says more than the code does.
The models follow the code; each of these is a behaviour of theirs, or of the code
beside them, and no property contradicts it:

- queue.go:101 says no command is lost on a reconnect.  Only the pending list is drained;
  what had gone into the old connection's channel is lost with it.  The dispatcher times
  out, and its call returns (CallReturns).
- docs/operations.md:130-135 says the agent renews when the remaining lifetime drops below
  the threshold, and that an agent exits with its certificate expired if renewal did not
  succeed before.  The check is made at the top of the loop only (poll.rs:175), and the loop
  comes round when the stream ends.  A stream has no limit of its own: its one timeout is
  per chunk, and the server's heartbeats reset it (poll.rs:310-364).  An agent on a quiet,
  stable connection can stream from before the window until after the expiry; no renewal
  was tried, and the agent exits when the stream ends.
- agent_server.go:124 calls 10 MB enough for many results of 1 MB.  execute_and_submit sends
  all results of an investigation as one body (poll.rs:452), each with up to 1 MiB of each
  pipe before escaping.  A longer body is answered 400 before any result is delivered, every
  retry meets the same answer, and all of the body's results are dropped.
- aggregate.go:19 says the result files still hold the full material; two commands to
  one host in one phase share one file (results.go:78), so the later one replaces the
  earlier.  os.WriteFile truncates before it writes: a later write that fails, or one that
  overlaps another, also destroys a result that was reported as saved, while the response
  says only of the later one that it failed.  After save_analysis the phase
  is "complete", for which CreateDirs makes no directory, so later results are not
  written (save_analysis.go:47).
- docs/reference.md:424 limits active investigations; the check and the store are two
  critical sections (state.go:58, 78), and the count includes completed ones for ever.
- The runbook for a new CA (docs/operations.md, from line 105) enrols every endpoint again
  with the new fingerprint.  An enrolment that finds a certificate far from its expiry
  skips (enroll.rs:84) before it looks at the fingerprint, and the old CA stays pinned.
- rotate_server_cert.go:123 says the next start regenerates what a failed rotation left.
  EnsureServerCert compares no names, and a second rotation says "No changes" (:117).
- EnsureCA's recovery message (ca.go:53) has the operator delete the half that is left
  of the CA; the server certificate of the lost CA stays and is kept.
- EnsureServerCert does not compare key and certificate, so a torn pair is not healed by
  a restart; the agent's is_fresh (pki.rs:40) looks at the certificate alone, so neither
  is the agent's by another enrolment.
- Some flags of policy.toml have no dash ("aux", "+D", "dev", "scope"); both parsers take
  such a word for a positional, so `ps aux` of docs/reference.md:262 is refused.
- policy_drift.go:33 says resolver failures are not explained as drift; the agent gives
  them the same prefix (executor.rs:449), so they are.
- config.go:134 accepts a stale timeout below the heartbeat, with which a streaming agent
  leaves the roster between two heartbeats; `TimeoutAssumption` is the default's case.
  The other way round, the server's own heartbeat keeps a half-open agent listed until a
  write fails (agent_server.go:260).
- An entry of policy.toml that breaks `EntriesSettled` would set the engines apart: the
  agent takes the longest entry at the front of the rewritten argv, where the server
  has put the flags before the positionals, so what the server took for a flag and a
  positional could become a subcommand, or a flag's value a positional.  No entry does
  so now, and nothing checks a new one.
- aggregate.go:12 calls a group hosts with identical output.  Its key keeps the low
  sixteen bits of an exit code that the agent sends as an i32 (:191), so 0xC0000005, a
  crash on Windows, and 5 share a group and are counted under the exit code of the host
  looked at first; and the NUL between the outputs (:186) keeps apart only outputs that
  have none.
- aggregate.go:43 keeps apart what prevented a command from running.  Only failures at
  the server set Error; a command that the agent's policy refused, or that could not be
  spawned, is grouped like an output, without its AgentError, and run_batch counts it
  as succeeded (run_batch.go:153).

## 5. What is proved

The theorems hold for every value of the constants under the modules' assumptions
(`QueueAssumption`, `LedgerAssumption`: the null values are outside their sets, the
capacity is positive, an issuer is not the daemon's object; `ExecutorAssumption`: the
limits are numbers and a pipe holds something; `LoopAssumption`: commands are finitely
many, there is at least one attempt, the bounds are numbers; in ServerCerts and
Certificates, that a process is not both daemon and rotation, that the window is within
a lifetime, and that the null value is no number and no
certificate; in Registry, that the stale timeout is the longest; in PolicyPipeline, that
tables are well formed, and `EntriesAssumption`, that their entries are settled, as those
of policy.toml are, which EnginesAgreeCorrect alone uses).  Two theorems assume
more, in their statement: RegistrationCorrect that commands are finitely many, LogsCorrect
(`Apart`) that the names of investigations, calls and items are pairwise disjoint.  Those of
Dispatch hold whatever writes fail.

`CommandQueueProofs`: types; `DeliveryInv`, then SendNeverBlocks, WaiterLifecycle and
ReplyFromOwner; `StreamInv`, then HandedOutOnce, RegisteredStreamIsLive and
NewerStreamSurvives; and the refinement of `CommandContract`.
- SendNeverBlocks is not inductive.  A send that is about to happen must find the
  channel empty, which depends on where the one result of a command is: `ResultInv`
  follows it from the compare-and-swap through the channel to the reply, and `CallInv`
  says that a call past its lookup acts for the owner.
- HandedOutOnce is about three places a command can be.  It needs that a command not
  yet enqueued is in none (`HandlerInv`, `HandedInv`) and that a registered stream
  belongs to the host.
- The refinement uses both: a poll or stream hands over what was never handed over, to
  its owner, and a compare-and-swap that wins is the first acceptance.

`TokenLedgerProofs`: types, with the lock file held exactly by the writing object; then
`LedgerInv`, from which LedgerRemembers, NoPhantomSpend, SpentForBoundHost and
SpentOnceUnlessTakenBack follow.  SpentOnceUnlessTakenBack is not inductive: the check is
made at the read and the token is spent at the rename.  `OperationInv` ties the daemon's
copy of the records to the one request that is spending, and `RequestInv` extends the
claim on a token to the time between; a second request would have to read the token
unspent, which LedgerRemembers allows only after its record was taken back.

`ExecutorProofs`: types, which bound what the agent holds in memory; `ReaderInv`, then
ChildIsGone and CompleteUnlessTruncated.  The latter needs that a reader that is done
stays done: a child writes only into a pipe it has open, and one that has ended has
none, which `ReaderInv` adds.

`AgentLoopProofs`: types; `LoopInv`, then ExecutedOnce and EveryCommandAccountedFor.
ExecutedOnce is not inductive: it needs that a command waits in one place only
(`PlaceInv`), which holds because the contract hands it over once, and that every result,
also in a handler whose request the agent gave up, is of an executed command
(`ResultInv`).  EveryCommandAccountedFor needs `CallInv`: the handler the agent waits for
has accepted every result that is no longer in its list, so a response 204 is about
all of them.  LossHasItsReason is about two states and needs `ReasonInv`: the handler's
list is a suffix of the submission and what it passed over is awaited no more
(`HandlerInv`), which stays so because the command had been assigned (`AssignedInv`); so
a refusal, or an earlier attempt that was one, means `Blocked` unless the submission is
too long (`BlockedInv`), and `GroupInv` says that the results in question are of one
investigation.

`CommandQueueProofs` has RegistrationCorrect besides: a registration that waits for room
in its own channel has more commands outstanding than the channel holds.  It follows
from HandedOutOnce's invariant by counting: what is in the channel and in the list to be
drained are disjoint sets of commands.

`DispatchProofs`: types (with every command assigned to a host of its own request), then
NothingRunsUnaccounted, ResultFilesGenuine, InvestigationLogAgrees and BudgetAccounting.
NothingRunsUnaccounted needs to know of each item where it stands
between policy, charge, audit and agent, and that a running item holds a slot, of which
there are finitely many.  ResultFilesGenuine needs `WriterInv`: a file that is not spoiled has one
writer at most, and that one found it empty, so what it puts there is whole.
InvestigationLogAgrees relates the two logs through every
interleaving of a set-up, a call and a save: but for failed writes, entries are equal
from the moment the investigation's log is added until it is closed.  BudgetAccounting says of the counter
that it is the size of a set, the commands charged (`ChargesOn`), so no sum has to be
taken by induction: a charge adds a disjoint set of `Cost` commands, `AccountInv` adds
that the set is finite and its calls well formed, and no other step changes it.

`PolicyPipelineProofs`: types, SpawnConforms, SpawnedAsAsked and EnginesAgree, for all
overrides and command lines of any length; the first three for every pair of tables.  `AgentInv` carries the conformity of what has been
parsed so far; the parser takes a word per step, so the invariant replaces an induction
over the argv.  Where one is needed (the flattened argv is a sequence of words) it is made
over the least number without the property, since the library's induction rules are
out of reach.
- SpawnedAsAsked needs `AsAskedInv`, which says at each place where the words asked for
  are: `Count`, the occurrences of a word in the subcommand, the flags, the positionals
  and what is still to be read, is what it was in the argv.  Each reader moves one or two
  words from the last part to another, and a lemma on occurrences in a concatenation
  settles each.
- EnginesAgree relates two parses of one command line.  `ServerReads` says of the
  server's parse what is read and that it is legal; at the end `Sent` says of the
  forwarded argv that it starts with a subcommand entry, then holds legal flags, then
  legal positionals.  `Ready` says the same of what the agent has still to read.  That
  the agent finds such a subcommand, though perhaps a longer one than the server
  found, is where `EntriesAssumption` is needed: what the longer entry takes more are
  flags without values, so the rest is still ready and the words are unchanged.  Each
  verdict of the agent's on a ready argv is then "ok", word by word, because the two
  languages' checks of a flag and of a value agree (a lemma per kind of value).  `AgreeInv`
  carries this from the arrival to the answer.

`CertificatesProofs`: types, EnrolledAgentIsServed, TornOnlyByMishap, LapseHasItsReason and
WatchesItsOwnCertificate, for any number of daemons and rotations.  None is inductive.
- On the server `ProcessInv` gives the four shapes of what a process has left to write.
  `CaInv` says that, unless two first CAs were generated together, only one process
  writes a CA and everybody past that point holds the one on the disk; `LeafInv` that a
  leaf's files fit but while its one writer stands between them; `OriginInv` that the
  leaf is the present CA's.
- On the agent `ClockInv` relates the watched expiry to the start of the last stream: since
  that start, unless a renewal failed, the expiry is ahead or was at least a window away;
  `MaterialInv` follows the
  three files through both writers and says that the disk holds the presented identity
  until a writer replaces it.

`McpTransportProofs`: types, RosterMissesNoStreamingAgent (`RosterInv`: the registry heard of a
streaming agent no longer ago than its ticker fired), ConnectionsAccounted (`CheckInv`:
while one request stands between check and count, there is room and it is alone) and
AnswersReachTheirClient.  The last is inductive with its types: appending to a channel
and taking its head shift one occurrence of one answer, and a channel that is full
holds `QueueSize` different answers, since none occurs twice.  It is the only theorem there
that counts messages, and needs that only finitely many have been sent so far.

WaiterLifecycle, ReplyFromOwner and SpentForBoundHost are proved and stated in no run:
they are lemmas of the refinement and of the ledger that their modules keep by name.

Every safety property that a passing run checks is also a theorem.

**Only model-checked**: the liveness properties CallReturns, EnrolmentEnds and
ReadingEnds, since fairness is outside the prover's reach.

## 6. What is not modelled, and why

- Payloads: command texts, outputs, keys, JSON; properties compare only identities,
  hosts, verdicts and, in the policy modules, words.
- Cancellation of a tool call by its client: handlers and WaitForResult take no
  context, so nothing cancels a wait.
- Crashes of the server in CommandQueue, Dispatch and McpTransport: their state is in
  memory and starts from Init again; files left behind are read by nobody.
- Issue is modelled for fresh tokens (32 random bytes); a token may expire at any time.
- In AgentLoop a renewal is an end of the process at any moment; Certificates has the
  renewal and leaves out the commands.
- writePEM is one step: that two overlapping writers share a temporary name is left out,
  as are the CA's ten years and a SAN list the operator edits by hand.
- The two clock readings of one Status call are one; deleting a session and decrementing
  the counter are one step.  An agent's self-description (digest, OS, build) decides
  nothing in the registry.
- A request that never ends is a request whose next step is not taken; no property says
  it must: the agent's HTTP client has no request timeout (poll.rs:501).
- The characters of a command line: a word is what the parsers ask of it.  The corpus
  tests of both engines compare the texts.
- Response texts, log formats, metrics, decoding of output, the child's environment and
  PowerShell quoting.
- Result aggregation: a sequential loop over the results of one call, after all of them
  are there; section 4 names where its keys keep less than its comments say.
- The parsers of command outputs, skills and listings: pure functions of text read
  once, where a table of cases tests as well as a model.
- Configuration, doctor, status, installers, demo: sequential reading and reporting,
  without state of their own.

## 7. What is left

1. Composition of AgentLoop with CommandQueue in place of its contract, on one host, with
   the two refinements put together.
2. A second daemon in `certs`, so that the instance lock is contended, once the instance
   is small enough; several agents, for the order in which they renew.
3. The table itself: a check that each binary of policy.toml satisfies `EntriesSettled`,
   beside the loaders' tests.
4. Aggregation of results (`aggregate.go`) as a function on bounded result sets, against
   its definition as a partition.
