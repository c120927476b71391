----------------------------- MODULE CommandQueue -----------------------------
(***************************************************************************)
(* The per-host command queue of puck-mcp (mcp/internal/agents/queue.go)   *)
(* with the goroutines that use it: the router's dispatch (Enqueue, then   *)
(* WaitForResult), the SSE handler of an agent (RegisterSSE, its select    *)
(* loop, UnregisterSSE), the poll handler (Drain) and the results handler  *)
(* (Deliver).                                                              *)
(*                                                                         *)
(* One action is one step another goroutine can interleave with: a         *)
(* critical section of Queue.mu, a compare-and-swap, one channel           *)
(* operation.  So RegisterSSE is a locked step followed by one send per    *)
(* drained command and a return; Deliver is a lookup, a CAS and a send;    *)
(* WaitForResult is a lookup, a select and a locked delete.                *)
(*                                                                         *)
(* A command id is a fresh UUID, so it is enqueued once, one goroutine     *)
(* waits for it, and the Waiter object of the code is a field of the       *)
(* command here: owner (Waiter.Hostname), winner (Waiter.delivered, with   *)
(* the name of the host that won the CAS) and resultCh (Waiter.Ch).  A     *)
(* result is represented by the host that submitted it.                    *)
(***************************************************************************)
EXTENDS Naturals, Sequences, FiniteSets, Functions

CONSTANTS Hosts,     \* hosts, the certificate names of the agents
          Cmds,      \* command ids
          Streams,   \* SSE handler goroutines, each one connection
          Calls,     \* goroutines of the results handler that call Deliver
          ChanCap,   \* capacity of an SSE channel (128 in the code)
          NoHost, NoStream, NoCmd

ASSUME QueueAssumption ==
  /\ ChanCap \in Nat \ {0}
  /\ NoHost \notin Hosts
  /\ NoStream \notin Streams
  /\ NoCmd \notin Cmds

VARIABLES
  pending,     \* Queue.pending: per host, the commands no stream took
  waiters,     \* keys of Queue.waiters
  sse,         \* Queue.sseChannels: per host, the registered stream
  owner,       \* Waiter.Hostname, NoHost before Enqueue
  winner,      \* Waiter.delivered: the host whose Deliver won, or NoHost
  resultCh,    \* Waiter.Ch, a channel of capacity 1
  streamPc,    \* control state of each SSE handler
  streamHost,  \* its host
  chan,        \* its command channel
  drain,       \* what RegisterSSE has still to send into chan
  callPc,      \* control state of each Deliver call
  callHost,    \* its submitter
  callCmd,     \* its command
  waitPc,      \* control state of the dispatch goroutine of each command
  reply,       \* the result WaitForResult returns
  handed       \* how often each was given to an agent's connection (history)

queueVars  == <<pending, waiters, sse>>
waiterVars == <<owner, winner, resultCh>>
streamVars == <<streamPc, streamHost, chan, drain>>
callVars   == <<callPc, callHost, callCmd>>
waitVars   == <<waitPc, reply>>
vars == <<queueVars, waiterVars, streamVars, callVars, waitVars, handed>>

TypeOK ==
  /\ pending    \in [Hosts -> Seq(Cmds)]
  /\ waiters    \subseteq Cmds
  /\ sse        \in [Hosts -> Streams \union {NoStream}]
  /\ owner      \in [Cmds -> Hosts \union {NoHost}]
  /\ winner     \in [Cmds -> Hosts \union {NoHost}]
  /\ resultCh   \in [Cmds -> Seq(Hosts)]
  /\ streamPc   \in [Streams -> {"idle", "registering", "open", "closed"}]
  /\ streamHost \in [Streams -> Hosts \union {NoHost}]
  /\ chan       \in [Streams -> Seq(Cmds)]
  /\ \A s \in Streams : Len(chan[s]) <= ChanCap
  /\ drain      \in [Streams -> Seq(Cmds)]
  /\ callPc     \in [Calls -> {"idle", "cas", "send"}]
  /\ callHost   \in [Calls -> Hosts \union {NoHost}]
  /\ callCmd    \in [Calls -> Cmds \union {NoCmd}]
  /\ \A d \in Calls : callPc[d] # "idle" =>
        callHost[d] \in Hosts /\ callCmd[d] \in Cmds
  /\ waitPc     \in [Cmds -> {"none", "enqueued", "select", "received",
                              "expired", "result", "timeout", "unknown"}]
  /\ reply      \in [Cmds -> Hosts \union {NoHost}]
  /\ handed     \in [Cmds -> Nat]

Init ==
  /\ pending    = [h \in Hosts |-> <<>>]
  /\ waiters    = {}
  /\ sse        = [h \in Hosts |-> NoStream]
  /\ owner      = [c \in Cmds |-> NoHost]
  /\ winner     = [c \in Cmds |-> NoHost]
  /\ resultCh   = [c \in Cmds |-> <<>>]
  /\ streamPc   = [s \in Streams |-> "idle"]
  /\ streamHost = [s \in Streams |-> NoHost]
  /\ chan       = [s \in Streams |-> <<>>]
  /\ drain      = [s \in Streams |-> <<>>]
  /\ callPc     = [d \in Calls |-> "idle"]
  /\ callHost   = [d \in Calls |-> NoHost]
  /\ callCmd    = [d \in Calls |-> NoCmd]
  /\ waitPc     = [c \in Cmds |-> "none"]
  /\ reply      = [c \in Cmds |-> NoHost]
  /\ handed     = [c \in Cmds |-> 0]

-----------------------------------------------------------------------------
(* Enqueue: one critical section.  The waiter is recorded, then the        *)
(* command goes into the registered stream's channel if there is one with  *)
(* room, and to the pending list otherwise.                                *)

\* Mutant of HasRoom: the capacity is off by one.
HasRoomAndOne(s) == s # NoStream /\ Len(chan[s]) <= ChanCap

HasRoom(s) == s # NoStream /\ Len(chan[s]) < ChanCap

RecordWaiter(c, h) ==
  /\ waitPc[c] = "none"
  /\ waitPc'  = [waitPc EXCEPT ![c] = "enqueued"]
  /\ waiters' = waiters \union {c}
  /\ owner'   = [owner EXCEPT ![c] = h]
  /\ UNCHANGED <<winner, resultCh, reply>>

\* Mutant of EnqueueToStream: no return after the channel send, so the command
\* is appended to the pending list as well.
EnqueueTwice(c, h) ==
  /\ RecordWaiter(c, h)
  /\ HasRoom(sse[h])
  /\ chan'    = [chan EXCEPT ![sse[h]] = Append(@, c)]
  /\ pending' = [pending EXCEPT ![h] = Append(@, c)]
  /\ UNCHANGED <<sse, streamPc, streamHost, drain, callVars, handed>>

EnqueueToStream(c, h) ==
  /\ RecordWaiter(c, h)
  /\ HasRoom(sse[h])
  /\ chan' = [chan EXCEPT ![sse[h]] = Append(@, c)]
  /\ UNCHANGED <<pending, sse, streamPc, streamHost, drain, callVars, handed>>

EnqueueToPending(c, h) ==
  /\ RecordWaiter(c, h)
  /\ ~HasRoom(sse[h])
  /\ pending' = [pending EXCEPT ![h] = Append(@, c)]
  /\ UNCHANGED <<sse, streamVars, callVars, handed>>

-----------------------------------------------------------------------------
(* The SSE handler.  RegisterSSE publishes the channel and takes the       *)
(* pending list under the lock, then sends outside it; the handler reads   *)
(* its channel only after RegisterSSE has returned.                        *)

\* Mutant of RegisterSSE: the pending list is copied and not cleared.
RegisterKeepingPending(s, h) ==
  /\ streamPc[s] = "idle"
  /\ streamPc'   = [streamPc EXCEPT ![s] = "registering"]
  /\ streamHost' = [streamHost EXCEPT ![s] = h]
  /\ sse'        = [sse EXCEPT ![h] = s]
  /\ drain'      = [drain EXCEPT ![s] = pending[h]]
  /\ UNCHANGED <<pending, waiters, waiterVars, chan, callVars, waitVars, handed>>

RegisterSSE(s, h) ==
  /\ streamPc[s] = "idle"
  /\ streamPc'   = [streamPc EXCEPT ![s] = "registering"]
  /\ streamHost' = [streamHost EXCEPT ![s] = h]
  /\ sse'        = [sse EXCEPT ![h] = s]
  /\ drain'      = [drain EXCEPT ![s] = pending[h]]
  /\ pending'    = [pending EXCEPT ![h] = <<>>]
  /\ UNCHANGED <<waiters, waiterVars, chan, callVars, waitVars, handed>>

\* One blocking send of the drain loop: it waits for room in the channel.
DrainSend(s) ==
  /\ streamPc[s] = "registering"
  /\ drain[s] # <<>>
  /\ Len(chan[s]) < ChanCap
  /\ chan'  = [chan EXCEPT ![s] = Append(@, Head(drain[s]))]
  /\ drain' = [drain EXCEPT ![s] = Tail(@)]
  /\ UNCHANGED <<queueVars, waiterVars, streamPc, streamHost, callVars,
                 waitVars, handed>>

RegisterReturn(s) ==
  /\ streamPc[s] = "registering"
  /\ drain[s] = <<>>
  /\ streamPc' = [streamPc EXCEPT ![s] = "open"]
  /\ UNCHANGED <<queueVars, waiterVars, streamHost, chan, drain, callVars,
                 waitVars, handed>>

\* The select loop takes a command and writes it to the connection.
StreamCommand(s) ==
  /\ streamPc[s] = "open"
  /\ chan[s] # <<>>
  /\ handed' = [handed EXCEPT ![Head(chan[s])] = @ + 1]
  /\ chan'   = [chan EXCEPT ![s] = Tail(@)]
  /\ UNCHANGED <<queueVars, waiterVars, streamPc, streamHost, drain, callVars,
                 waitVars>>

\* Mutant of UnregisterSSE: the deferred call is missing.
LeaveRegistered(s) ==
  /\ streamPc[s] = "open"
  /\ streamPc' = [streamPc EXCEPT ![s] = "closed"]
  /\ UNCHANGED <<queueVars, waiterVars, streamHost, chan, drain, callVars,
                 waitVars, handed>>

\* Mutant of UnregisterSSE: the host's channel is forgotten whoever owns it.
UnregisterAny(s) ==
  /\ streamPc[s] = "open"
  /\ streamPc' = [streamPc EXCEPT ![s] = "closed"]
  /\ sse' = [sse EXCEPT ![streamHost[s]] = NoStream]
  /\ UNCHANGED <<pending, waiters, waiterVars, streamHost, chan, drain,
                 callVars, waitVars, handed>>

\* The request context is done: the deferred UnregisterSSE runs.  It forgets
\* the channel only if a newer connection has not replaced it.  Commands left
\* in the channel stay in it, where nothing reads them.
UnregisterSSE(s) ==
  /\ streamPc[s] = "open"
  /\ streamPc' = [streamPc EXCEPT ![s] = "closed"]
  /\ sse' = IF sse[streamHost[s]] = s
              THEN [sse EXCEPT ![streamHost[s]] = NoStream] ELSE sse
  /\ UNCHANGED <<pending, waiters, waiterVars, streamHost, chan, drain,
                 callVars, waitVars, handed>>

(* The poll handler: Drain returns the pending list and clears it.         *)
Drain(h) ==
  /\ handed'  = [c \in Cmds |-> IF c \in Range(pending[h]) THEN handed[c] + 1 ELSE handed[c]]
  /\ pending' = [pending EXCEPT ![h] = <<>>]
  /\ UNCHANGED <<waiters, sse, waiterVars, streamVars, callVars, waitVars>>

-----------------------------------------------------------------------------
(* Deliver, called by the results handler with the certificate name of the *)
(* submitter.  An unknown id, a foreign host and a lost CAS all return an  *)
(* error and change nothing; the winner sends into the result channel.     *)

\* Mutant of Verdict: the submitter is not compared with the owner.
VerdictAnyHost(h, c) == IF c \notin waiters THEN "ErrUnknownCommandID" ELSE "ok"

Verdict(h, c) ==
  IF c \notin waiters THEN "ErrUnknownCommandID"
  ELSE IF owner[c] # h THEN "ErrHostnameMismatch" ELSE "ok"

DeliverLookup(d, h, c) ==
  /\ callPc[d] = "idle"
  /\ Verdict(h, c) = "ok"
  /\ callPc'   = [callPc EXCEPT ![d] = "cas"]
  /\ callHost' = [callHost EXCEPT ![d] = h]
  /\ callCmd'  = [callCmd EXCEPT ![d] = c]
  /\ UNCHANGED <<queueVars, waiterVars, streamVars, waitVars, handed>>

CallReturns(d) ==
  /\ callPc'   = [callPc EXCEPT ![d] = "idle"]
  /\ callHost' = [callHost EXCEPT ![d] = NoHost]
  /\ callCmd'  = [callCmd EXCEPT ![d] = NoCmd]

\* Mutant of DeliverCAS: the flag is stored without being compared.
DeliverStore(d) ==
  /\ callPc[d] = "cas"
  /\ winner' = [winner EXCEPT ![callCmd[d]] = callHost[d]]
  /\ callPc' = [callPc EXCEPT ![d] = "send"]
  /\ UNCHANGED <<queueVars, owner, resultCh, callHost, callCmd, streamVars,
                 waitVars, handed>>

DeliverCAS(d) ==
  LET c == callCmd[d] IN
  /\ callPc[d] = "cas"
  /\ IF winner[c] = NoHost
       THEN /\ winner' = [winner EXCEPT ![c] = callHost[d]]
            /\ callPc' = [callPc EXCEPT ![d] = "send"]
            /\ UNCHANGED <<callHost, callCmd>>
       ELSE CallReturns(d) /\ UNCHANGED winner
  /\ UNCHANGED <<queueVars, owner, resultCh, streamVars, waitVars, handed>>

DeliverSend(d) ==
  LET c == callCmd[d] IN
  /\ callPc[d] = "send"
  /\ Len(resultCh[c]) < 1
  /\ resultCh' = [resultCh EXCEPT ![c] = Append(@, callHost[d])]
  /\ CallReturns(d)
  /\ UNCHANGED <<queueVars, owner, winner, streamVars, waitVars, handed>>

-----------------------------------------------------------------------------
(* WaitForResult.  When a result and the timer are both ready, Go's select *)
(* takes either.                                                           *)

WaitLookup(c) ==
  /\ waitPc[c] = "enqueued"
  /\ waitPc' = [waitPc EXCEPT ![c] = IF c \in waiters THEN "select" ELSE "unknown"]
  /\ UNCHANGED <<queueVars, waiterVars, streamVars, callVars, reply, handed>>

WaitReceive(c) ==
  /\ waitPc[c] = "select"
  /\ resultCh[c] # <<>>
  /\ reply'    = [reply EXCEPT ![c] = Head(resultCh[c])]
  /\ resultCh' = [resultCh EXCEPT ![c] = Tail(@)]
  /\ waitPc'   = [waitPc EXCEPT ![c] = "received"]
  /\ UNCHANGED <<queueVars, owner, winner, streamVars, callVars, handed>>

WaitTimer(c) ==
  /\ waitPc[c] = "select"
  /\ waitPc' = [waitPc EXCEPT ![c] = "expired"]
  /\ UNCHANGED <<queueVars, waiterVars, streamVars, callVars, reply, handed>>

\* Both branches delete the entry under the lock and return.
WaitReturn(c) ==
  /\ waitPc[c] \in {"received", "expired"}
  /\ waiters' = waiters \ {c}
  /\ waitPc'  = [waitPc EXCEPT ![c] =
                   IF @ = "received" THEN "result" ELSE "timeout"]
  /\ UNCHANGED <<pending, sse, waiterVars, streamVars, callVars, reply, handed>>

-----------------------------------------------------------------------------
Dispatch(c) == WaitLookup(c) \/ WaitReceive(c) \/ WaitTimer(c) \/ WaitReturn(c)
Handler(s)  == DrainSend(s) \/ RegisterReturn(s) \/ StreamCommand(s)
Deliver(d)  == DeliverCAS(d) \/ DeliverSend(d)

Next ==
  \/ \E c \in Cmds, h \in Hosts : EnqueueToStream(c, h) \/ EnqueueToPending(c, h)
  \/ \E s \in Streams, h \in Hosts : RegisterSSE(s, h)
  \/ \E s \in Streams : Handler(s) \/ UnregisterSSE(s)
  \/ \E h \in Hosts : Drain(h)
  \/ \E d \in Calls, h \in Hosts, c \in Cmds : DeliverLookup(d, h, c)
  \/ \E d \in Calls : Deliver(d)
  \/ \E c \in Cmds : Dispatch(c)

Spec == Init /\ [][Next]_vars

-----------------------------------------------------------------------------
(* Safety.                                                                 *)

InStream(s, c) == c \in Range(chan[s]) \union Range(drain[s])

PendingOnce(h) ==
  /\ IsInjective(pending[h])
  /\ \A c \in Range(pending[h]) :
        owner[c] = h /\ handed[c] = 0 /\ \A s \in Streams : ~InStream(s, c)

StreamOnce(s) ==
  /\ IsInjective(chan[s] \o drain[s])
  /\ \A c \in Cmds : InStream(s, c) =>
        /\ owner[c] = streamHost[s] /\ handed[c] = 0
        /\ \A t \in Streams : InStream(t, c) => t = s

\* A command handed to an agent's connection is nowhere in the queue any more,
\* and until then it is in one place only, once, under its own host: through
\* polls, streams, reconnects and overflow it is never handed out twice nor to
\* another host (Enqueue, RegisterSSE's drain and Drain all move it).
HandedOutOnce ==
  /\ \A h \in Hosts : PendingOnce(h)
  /\ \A s \in Streams : StreamOnce(s)
  /\ \A c \in Cmds : handed[c] <= 1

\* Deliver's send into the capacity-1 channel finds it empty, and finds it
\* alone: of the concurrent Delivers of one command only the CAS winner sends,
\* and it sends once, so the results handler never blocks there.
SendNeverBlocks ==
  \A d \in Calls : callPc[d] = "send" =>
    /\ resultCh[callCmd[d]] = <<>>
    /\ reply[callCmd[d]] = NoHost
    /\ \A e \in Calls : callPc[e] = "send" /\ callCmd[e] = callCmd[d] => e = d

\* What WaitForResult returns was submitted by the host the command was
\* dispatched to, and by the Deliver that won.
ReplyFromOwner ==
  \A c \in Cmds : reply[c] # NoHost => reply[c] = owner[c] /\ reply[c] = winner[c]

\* The waiters entry lives exactly from Enqueue to the return of WaitForResult:
\* a wait never finds its entry gone (ErrUnknownCommandID) because a result
\* overtook it, and no entry outlives its wait.
WaiterLifecycle ==
  \A c \in Cmds :
    /\ waitPc[c] # "unknown"
    /\ c \in waiters <=> waitPc[c] \in {"enqueued", "select", "received", "expired"}

\* Enqueue's fast path never sends into a channel nobody will read: the stream
\* registered for a host is a connection of that host whose handler has not
\* ended, whatever order reconnects and late unregisters come in.
RegisteredStreamIsLive ==
  \A h \in Hosts : sse[h] # NoStream =>
    streamHost[sse[h]] = h /\ streamPc[sse[h]] \in {"registering", "open"}

\* A live registration is given up only by its own handler or to a newer one:
\* a late unregister of a replaced connection leaves the newer one in place.
NewerStreamSurvives ==
  [][\A h \in Hosts : sse[h] # NoStream /\ sse'[h] = NoStream =>
        streamPc[sse[h]] = "open" /\ streamPc'[sse[h]] = "closed"]_vars

\* A registration blocks in its drain only when more commands of its host are
\* outstanding than the channel holds (the comment's "capacity 128").
RegistrationBlocksOnlyOnBacklog ==
  \A s \in Streams :
    streamPc[s] = "registering" /\ drain[s] # <<>> /\ Len(chan[s]) >= ChanCap =>
      Cardinality({c \in Cmds : owner[c] = streamHost[s] /\ handed[c] = 0}) > ChanCap

-----------------------------------------------------------------------------
(* The inductive strengthenings behind the safety properties.              *)

\* Between the CAS and the reply the result of a command is in the hands of one
\* Deliver call, then in the channel, then in the reply, and always under the
\* owner's name.
ResultInv(c) ==
  /\ owner[c] = NoHost <=> waitPc[c] = "none"
  /\ winner[c] \in {NoHost, owner[c]}
  /\ winner[c] = NoHost => resultCh[c] = <<>> /\ reply[c] = NoHost
  /\ resultCh[c] # <<>> => resultCh[c] = <<owner[c]>> /\ reply[c] = NoHost
  /\ reply[c] \in {NoHost, winner[c]}
  /\ reply[c] # NoHost <=> waitPc[c] \in {"received", "result"}

CallInv(d) ==
  /\ callPc[d] # "idle" => callHost[d] = owner[callCmd[d]]
  /\ callPc[d] = "send" => winner[callCmd[d]] # NoHost

DeliveryInv ==
  /\ WaiterLifecycle
  /\ SendNeverBlocks
  /\ \A c \in Cmds : ResultInv(c)
  /\ \A d \in Calls : CallInv(d)

\* A connection has a host from its registration on, and only a registration
\* has commands still to drain; what was handed out had been dispatched.
HandlerInv(s) ==
  /\ streamPc[s] = "idle" => chan[s] = <<>>
  /\ streamPc[s] # "registering" => drain[s] = <<>>
  /\ streamPc[s] # "idle" => streamHost[s] \in Hosts

HandedInv == \A c \in Cmds : handed[c] <= 1 /\ (handed[c] = 1 => owner[c] # NoHost)

StreamInv ==
  /\ RegisteredStreamIsLive
  /\ HandedOutOnce
  /\ \A s \in Streams : HandlerInv(s)
  /\ HandedInv

-----------------------------------------------------------------------------
(* The queue implements its contract.                                      *)

OutcomeAt(pc) ==
  IF pc \in {"enqueued", "select"} THEN "waiting"
  ELSE IF pc \in {"received", "result"} THEN "result"
  ELSE IF pc \in {"expired", "timeout"} THEN "timeout" ELSE "none"

Outcome == [c \in Cmds |-> OutcomeAt(waitPc[c])]

Contract == INSTANCE CommandContract WITH
  assigned <- owner, accepted <- winner, outcome <- Outcome

\* Seen from outside, the queue hands each command to its host at most once,
\* accepts at most one result for it, from that host, and ends each wait once.
ImplementsContract == Contract!Spec
=============================================================================
