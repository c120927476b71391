------------------------------- MODULE Registry -------------------------------
(***************************************************************************)
(* The registry of agents and what feeds it: handlePoll and handleEvents   *)
(* touch an agent, the ticker of an open event stream touches it again,    *)
(* and every tool reads statuses computed from the time since.  Time is    *)
(* kept as the ticks since the last contact; past the stale timeout they   *)
(* make no difference any more.                                            *)
(***************************************************************************)
EXTENDS Integers

CONSTANTS
  Host,
  ActiveThreshold,  \* activeThresholdSecs
  StaleTimeout,     \* agent_stale_timeout
  Heartbeat,        \* sseHeartbeatInterval
  Unseen

ASSUME TimesAssumption ==
  /\ ActiveThreshold \in Nat /\ Heartbeat \in Nat \ {0} /\ StaleTimeout \in Nat
  /\ Unseen \notin Nat

(* By default 10 s, 25 s and 300 s; config.go accepts any other timeout.   *)
ASSUME TimeoutAssumption == ActiveThreshold < StaleTimeout /\ Heartbeat < StaleTimeout

VARIABLES
  elapsed,   \* ticks since LastSeen, or Unseen
  stream,    \* the event stream: none, open, or half-open (the agent is gone)
  beat       \* ticks since the stream's last heartbeat

registryVars == <<elapsed, stream, beat>>

RegistryInit ==
  /\ elapsed = [h \in Host |-> Unseen]
  /\ stream = [h \in Host |-> "none"]
  /\ beat = [h \in Host |-> 0]

-----------------------------------------------------------------------------
computeStatus(e) ==
  CASE e <= ActiveThreshold -> "active"
    [] e > ActiveThreshold /\ e < StaleTimeout -> "idle"
    [] OTHER -> "stale"

Status(h) == IF elapsed[h] = Unseen THEN "stale" ELSE computeStatus(elapsed[h])

\* Mutant of ActiveAgents: off by one against computeStatus.
AgentsUpToTimeout == {h \in Host : elapsed[h] # Unseen /\ elapsed[h] <= StaleTimeout}

ActiveAgents == {h \in Host : elapsed[h] # Unseen /\ elapsed[h] < StaleTimeout}

Touch(h) == elapsed' = [elapsed EXCEPT ![h] = 0]

(* What the agent reports of itself (digest, OS, build) decides nothing    *)
(* here and is left out.                                                   *)
handlePoll(h) ==
  /\ Touch(h)
  /\ UNCHANGED <<stream, beat>>

(* The stream's handler, and its ticker, start, and those of a stream it   *)
(* replaces end.  (RegisterSSE itself is in CommandQueue.)                 *)
handleEvents(h) ==
  /\ stream[h] # "open"
  /\ Touch(h)
  /\ stream' = [stream EXCEPT ![h] = "open"]
  /\ beat' = [beat EXCEPT ![h] = 0]

\* Mutant of HeartbeatTicks: pings without a Touch.
HeartbeatWithoutTouch(h) ==
  /\ stream[h] # "none" /\ beat[h] = Heartbeat
  /\ beat' = [beat EXCEPT ![h] = 0]
  /\ UNCHANGED <<elapsed, stream>>

(* The ticker touches the agent whether or not it still reads. *)
HeartbeatTicks(h) ==
  /\ stream[h] # "none" /\ beat[h] = Heartbeat
  /\ Touch(h)
  /\ beat' = [beat EXCEPT ![h] = 0]
  /\ UNCHANGED stream

(* The agent or the network goes away without a word. *)
AgentVanishes(h) ==
  /\ stream[h] = "open"
  /\ stream' = [stream EXCEPT ![h] = "half"]
  /\ UNCHANGED <<elapsed, beat>>

(* The request's context is done: the connection was closed or given up. *)
StreamCloses(h) ==
  /\ stream[h] # "none"
  /\ stream' = [stream EXCEPT ![h] = "none"]
  /\ beat' = [beat EXCEPT ![h] = 0]
  /\ UNCHANGED elapsed

(* Tickers fire on time. *)
Tick ==
  /\ \A h \in Host : stream[h] # "none" => beat[h] < Heartbeat
  /\ elapsed' = [h \in Host |->
       IF elapsed[h] = Unseen \/ elapsed[h] > StaleTimeout THEN elapsed[h] ELSE elapsed[h] + 1]
  /\ beat' = [h \in Host |-> IF stream[h] = "none" THEN 0 ELSE beat[h] + 1]
  /\ UNCHANGED stream
=============================================================================
