----------------------------- MODULE McpTransport -----------------------------
(***************************************************************************)
(* The two ways an MCP client talks to puck-mcp, over the registry its     *)
(* tools read.  HTTP: a GET of /sse opens a session with a bounded         *)
(* channel, every POST of /message is a goroutine of its own that computes *)
(* its answer and puts it into the channel without waiting, and the        *)
(* session's goroutine writes the channel to the client.  stdio: one       *)
(* loop reads a line, answers it, and reads the next.                      *)
(***************************************************************************)
EXTENDS Registry, Sequences, FiniteSets

CONSTANTS
  Conn,         \* GET /sse requests
  Request,      \* JSON-RPC messages
  NoConn,
  MaxSSEConns,  \* max_sse_conns, 0 for no limit
  QueueSize     \* sessionQueueSize

ASSUME TransportAssumption ==
  /\ IsFiniteSet(Conn) /\ NoConn \notin Conn
  /\ MaxSSEConns \in Nat /\ QueueSize \in Nat \ {0}

VARIABLES
  mode,      \* -transport
  sse,       \* where each GET /sse stands
  sseConns,  \* the counter
  sessions,  \* the session map's keys
  channel,   \* the sessions' channels; they outlive the map's entry
  message,   \* where each message stands
  written,   \* what each client has read
  together   \* two GET /sse were once between check and count at the same time

transportVars == <<mode, sse, sseConns, sessions, channel, message, written, together>>
vars == <<registryVars, transportVars>>

Kind == {"request", "initialized", "other notification", "garbage"}

(* live: the agents whose stream has been open since the message arrived.  *)
NotSent == [at |-> "client", conn |-> NoConn, live |-> {}, roster |-> {}]

Init ==
  /\ RegistryInit
  /\ mode \in {"http", "stdio"}
  /\ sse = [c \in Conn |-> "none"]
  /\ sseConns = 0
  /\ sessions = {}
  /\ channel = [c \in Conn \cup {NoConn} |-> <<>>]
  /\ message = [r \in Request |-> NotSent]
  /\ written = [c \in Conn \cup {NoConn} |-> <<>>]
  /\ together = FALSE

-----------------------------------------------------------------------------
Streaming == {h \in Host : stream[h] = "open"}
Moves(r, m) == message' = [message EXCEPT ![r] = m]

\* Mutant of atLimit: one more.
atLimitExceeded == MaxSSEConns > 0 /\ sseConns > MaxSSEConns

atLimit == MaxSSEConns > 0 /\ sseConns >= MaxSSEConns

(* handleSSE looks at the counter ... *)
handleSSE(c) ==
  /\ mode = "http" /\ sse[c] = "none"
  /\ sse' = [sse EXCEPT ![c] = IF atLimit THEN "refused" ELSE "checked"]
  /\ together' = (together \/ (~atLimit /\ \E d \in Conn : sse[d] = "checked"))
  /\ UNCHANGED <<registryVars, mode, sseConns, sessions, channel, message, written>>

(* ... and counts itself after that; then the session is there. *)
OpenSession(c) ==
  /\ sse[c] = "checked"
  /\ sse' = [sse EXCEPT ![c] = "open"]
  /\ sseConns' = sseConns + 1
  /\ sessions' = sessions \cup {c}
  /\ UNCHANGED <<registryVars, mode, channel, message, written, together>>

(* Its loop takes a response, or the client is gone. *)
WriteMessage(c) ==
  /\ sse[c] = "open" /\ channel[c] # <<>>
  /\ written' = [written EXCEPT ![c] = Append(@, Head(channel[c]))]
  /\ channel' = [channel EXCEPT ![c] = Tail(@)]
  /\ UNCHANGED <<registryVars, mode, sse, sseConns, sessions, message, together>>

CloseSession(c) ==
  /\ sse[c] = "open"
  /\ sse' = [sse EXCEPT ![c] = "closed"]
  /\ sseConns' = sseConns - 1
  /\ sessions' = sessions \ {c}
  /\ UNCHANGED <<registryVars, mode, channel, message, written, together>>

(* handleMessage finds the channel, or answers 404. *)
handleMessage(r, c) ==
  /\ mode = "http" /\ message[r].at = "client"
  /\ sse[c] \in {"open", "closed"}
  /\ Moves(r, [NotSent EXCEPT !.at = IF c \in sessions THEN "handling" ELSE "unknown session",
                              !.conn = c, !.live = Streaming])
  /\ UNCHANGED <<registryVars, mode, sse, sseConns, sessions, channel, written, together>>

(* What cannot be parsed is answered without an id, and so is, on stdio    *)
(* alone, a notification the server does not know.                         *)
Answered(kind) == kind \in {"request", "garbage"} \/ (kind = "other notification" /\ mode = "stdio")

(* A call takes as long as it takes, and reads the roster.                 *)
HandleToolCall(r, kind) ==
  /\ message[r].at = "handling"
  /\ Moves(r, IF Answered(kind)
              THEN [message[r] EXCEPT !.at = "result", !.roster = ActiveAgents]
              ELSE [NotSent EXCEPT !.at = "done"])
  /\ UNCHANGED <<registryVars, mode, sse, sseConns, sessions, channel, written, together>>

\* Mutant of queueResult: makes room by dropping the oldest answer.
queueResultDropsOldest(r) ==
  LET c == message[r].conn
      full == Len(channel[c]) >= QueueSize IN
  /\ mode = "http" /\ message[r].at = "result"
  /\ channel' = [channel EXCEPT ![c] = Append(IF full THEN Tail(@) ELSE @, r)]
  /\ Moves(r, [NotSent EXCEPT !.at = "queued", !.conn = c])
  /\ UNCHANGED <<registryVars, mode, sse, sseConns, sessions, written, together>>

(* A full channel drops the answer. *)
queueResult(r) ==
  LET c == message[r].conn
      full == Len(channel[c]) >= QueueSize IN
  /\ mode = "http" /\ message[r].at = "result"
  /\ channel' = IF full THEN channel ELSE [channel EXCEPT ![c] = Append(@, r)]
  /\ Moves(r, [NotSent EXCEPT !.at = IF full THEN "dropped" ELSE "queued", !.conn = c])
  /\ UNCHANGED <<registryVars, mode, sse, sseConns, sessions, written, together>>

(* Run takes the next line only after it has answered the last one. *)
Busy == \E r \in Request : message[r].at \in {"handling", "result"}

Scan(r) ==
  /\ mode = "stdio" /\ message[r].at = "client"
  /\ ~Busy
  /\ Moves(r, [NotSent EXCEPT !.at = "handling", !.live = Streaming])
  /\ UNCHANGED <<registryVars, mode, sse, sseConns, sessions, channel, written, together>>

Encode(r) ==
  /\ mode = "stdio" /\ message[r].at = "result"
  /\ written' = [written EXCEPT ![NoConn] = Append(@, r)]
  /\ Moves(r, [NotSent EXCEPT !.at = "queued"])
  /\ UNCHANGED <<registryVars, mode, sse, sseConns, sessions, channel, together>>

(* The registry's steps; an agent that is no longer streaming is not one   *)
(* that has been since a message arrived.                                  *)
RegistryStep ==
  /\ \/ \E h \in Host : handlePoll(h) \/ handleEvents(h) \/ HeartbeatTicks(h) \/ AgentVanishes(h) \/ StreamCloses(h)
     \/ Tick
  /\ message' = [r \in Request |->
       IF message[r].at = "handling"
       THEN [message[r] EXCEPT !.live = @ \cap {h \in Host : stream'[h] = "open"}]
       ELSE message[r]]
  /\ UNCHANGED <<mode, sse, sseConns, sessions, channel, written, together>>

Next ==
  \/ \E c \in Conn : handleSSE(c) \/ OpenSession(c) \/ WriteMessage(c) \/ CloseSession(c)
  \/ \E r \in Request, c \in Conn : handleMessage(r, c)
  \/ \E r \in Request, kind \in Kind : HandleToolCall(r, kind)
  \/ \E r \in Request : Scan(r) \/ queueResult(r) \/ Encode(r)
  \/ RegistryStep

Spec == Init /\ [][Next]_vars

-----------------------------------------------------------------------------
(* Types; the roster and the status of one host, which ActiveAgents and    *)
(* computeStatus derive separately, agree.                                 *)
TypeOK ==
  /\ \A h \in Host :
       /\ elapsed[h] \in {Unseen} \cup 0 .. StaleTimeout + 1
       /\ stream[h] \in {"none", "open", "half"}
       /\ beat[h] \in 0 .. Heartbeat
       /\ Status(h) \in {"active", "idle"} <=> h \in ActiveAgents
  /\ \A c \in Conn : sse[c] \in {"none", "refused", "checked", "open", "closed"}
  /\ \A r \in Request :
       message[r].at \in {"client", "unknown session", "handling", "result", "done", "queued", "dropped"}

(* handleSSE counts and maps exactly the sessions whose stream is open,    *)
(* and stays within max_sse_conns as long as no two requests were between  *)
(* its check and its count at once.                                        *)
ConnectionsAccounted ==
  /\ sseConns = Cardinality({c \in Conn : sse[c] = "open"})
  /\ sessions = {c \in Conn : sse[c] = "open"}
  /\ MaxSSEConns > 0 /\ ~together => sseConns <= MaxSSEConns

Times(r, s) == Cardinality({i \in DOMAIN s : s[i] = r})

(* An answer goes once to the client that asked and to no other; it is     *)
(* dropped only where a full channel of answers had been made for others,  *)
(* so that a client with one request outstanding loses none to queueResult.*)
AnswersReachTheirClient ==
  \A r \in Request :
    /\ \A c \in Conn \cup {NoConn} :
         Times(r, channel[c]) + Times(r, written[c])
           = (IF message[r].at = "queued" /\ message[r].conn = c THEN 1 ELSE 0)
    /\ message[r].at = "dropped" =>
         Cardinality({q \in Request \ {r} :
           message[q].conn = message[r].conn /\ message[q].at = "queued"}) >= QueueSize

(* puck_list_agents and the tools that pick hosts from the roster see      *)
(* every agent whose stream was open from the arrival of the message on.   *)
RosterMissesNoStreamingAgent ==
  \A r \in Request :
    message[r].at = "result" => message[r].live \subseteq message[r].roster

-----------------------------------------------------------------------------
(* The inductive strengthenings behind the proved properties.              *)

States == {"client", "unknown session", "handling", "result", "done", "queued", "dropped"}

TypeInv ==
  /\ elapsed \in [Host -> {Unseen} \cup 0 .. StaleTimeout + 1]
  /\ stream \in [Host -> {"none", "open", "half"}]
  /\ beat \in [Host -> 0 .. Heartbeat]
  /\ sse \in [Conn -> {"none", "refused", "checked", "open", "closed"}]
  /\ message \in [Request -> [at : States, conn : Conn \cup {NoConn},
                              live : SUBSET Host, roster : SUBSET Host]]

(* While one request stands between handleSSE's check and its count, the   *)
(* count is below the limit and no other request passes the check.         *)
CheckInv ==
  MaxSSEConns > 0 /\ ~together =>
    \A c \in Conn : sse[c] = "checked" =>
      /\ sseConns < MaxSSEConns
      /\ \A d \in Conn : sse[d] = "checked" => d = c

(* The registry hears of a streaming agent at least as often as its ticker *)
(* fires, and a message being handled remembers only streaming agents.     *)
RosterInv ==
  /\ \A h \in Host : stream[h] # "none" => elapsed[h] # Unseen /\ elapsed[h] <= beat[h]
  /\ \A r \in Request : message[r].at = "handling" => message[r].live \subseteq Streaming
  /\ RosterMissesNoStreamingAgent
=============================================================================
