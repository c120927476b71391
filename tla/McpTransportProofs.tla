-------------------------- MODULE McpTransportProofs --------------------------
(***************************************************************************)
(* Proofs about the MCP transports over the registry, for any agents,      *)
(* sessions, messages, limits and timeouts the assumptions admit.          *)
(***************************************************************************)
EXTENDS McpTransport, FiniteSetTheorems, TLAPS

USE TimesAssumption, TimeoutAssumption, TransportAssumption

-----------------------------------------------------------------------------
(* Types.                                                                  *)

LEMMA InitType == Init => TypeInv
  BY DEF Init, RegistryInit, TypeInv, NotSent, States

\* The registry's steps keep its types; between the ticks of its timer the
\* count of an open stream stays within the timer's interval.
LEMMA RegistryType ==
  ASSUME TypeInv, RegistryStep, RosterInv
  PROVE  /\ elapsed' \in [Host -> {Unseen} \cup 0 .. StaleTimeout + 1]
         /\ stream' \in [Host -> {"none", "open", "half"}]
         /\ beat' \in [Host -> 0 .. Heartbeat]
  <1> DEFINE RegType == /\ elapsed \in [Host -> {Unseen} \cup 0 .. StaleTimeout + 1]
                        /\ stream \in [Host -> {"none", "open", "half"}]
                        /\ beat \in [Host -> 0 .. Heartbeat]
  <1> RegType
    BY DEF TypeInv
  <1>1. ASSUME NEW h \in Host, handlePoll(h) PROVE RegType'
    BY <1>1 DEF handlePoll, Touch
  <1>2. ASSUME NEW h \in Host, handleEvents(h) PROVE RegType'
    BY <1>2 DEF handleEvents, Touch
  <1>3. ASSUME NEW h \in Host, HeartbeatTicks(h) PROVE RegType'
    BY <1>3 DEF HeartbeatTicks, Touch
  <1>4. ASSUME NEW h \in Host, AgentVanishes(h) PROVE RegType'
    BY <1>4 DEF AgentVanishes
  <1>5. ASSUME NEW h \in Host, StreamCloses(h) PROVE RegType'
    BY <1>5 DEF StreamCloses
  <1>6. CASE Tick
    <2>1. ASSUME NEW h \in Host
          PROVE  /\ elapsed'[h] \in {Unseen} \cup 0 .. StaleTimeout + 1
                 /\ beat'[h] \in 0 .. Heartbeat
      <3>1. elapsed[h] \in {Unseen} \cup 0 .. StaleTimeout + 1 /\ beat[h] \in 0 .. Heartbeat
        OBVIOUS
      <3>2. /\ elapsed'[h] = IF elapsed[h] = Unseen \/ elapsed[h] > StaleTimeout
                             THEN elapsed[h] ELSE elapsed[h] + 1
            /\ beat'[h] = IF stream[h] = "none" THEN 0 ELSE beat[h] + 1
            /\ stream[h] # "none" => beat[h] < Heartbeat
        BY <1>6 DEF Tick
      <3>3. QED
        BY <3>1, <3>2
    <2>2. QED
      BY <1>6, <2>1 DEF Tick
  <1>7. QED
    BY <1>1, <1>2, <1>3, <1>4, <1>5, <1>6 DEF RegistryStep

LEMMA NextType == TypeInv /\ RosterInv /\ [Next]_vars => TypeInv'
  <1> SUFFICES ASSUME TypeInv, RosterInv, [Next]_vars PROVE TypeInv'
    OBVIOUS
  <1> USE DEF TypeInv, States, registryVars, Moves, NotSent
  <1>1. CASE UNCHANGED vars
    BY <1>1 DEF vars, transportVars
  <1>2. ASSUME NEW c \in Conn, handleSSE(c) PROVE TypeInv'
    BY <1>2 DEF handleSSE
  <1>3. ASSUME NEW c \in Conn, OpenSession(c) PROVE TypeInv'
    BY <1>3 DEF OpenSession
  <1>4. ASSUME NEW c \in Conn, WriteMessage(c) PROVE TypeInv'
    BY <1>4 DEF WriteMessage
  <1>5. ASSUME NEW c \in Conn, CloseSession(c) PROVE TypeInv'
    BY <1>5 DEF CloseSession
  <1>6. ASSUME NEW r \in Request, NEW c \in Conn, handleMessage(r, c) PROVE TypeInv'
    <2>1. Streaming \in SUBSET Host
      BY DEF Streaming
    <2>2. message' \in [Request -> [at : States, conn : Conn \cup {NoConn},
                                   live : SUBSET Host, roster : SUBSET Host]]
      <3> HIDE DEF Streaming
      <3>1. QED
        BY <1>6, <2>1 DEF handleMessage
    <2>3. UNCHANGED <<elapsed, stream, beat, sse>>
      BY <1>6 DEF handleMessage
    <2>4. QED
      BY <2>2, <2>3
  <1>7. ASSUME NEW r \in Request, NEW kind \in Kind, HandleToolCall(r, kind) PROVE TypeInv'
    <2>1. ActiveAgents \subseteq Host
      BY DEF ActiveAgents
    <2>2. CASE Answered(kind)
      <3>1. message' = [message EXCEPT ![r] = [message[r] EXCEPT !.at = "result", !.roster = ActiveAgents]]
            /\ UNCHANGED <<elapsed, stream, beat, sse>>
        BY <1>7, <2>2 DEF HandleToolCall
      <3>2. [message[r] EXCEPT !.at = "result", !.roster = ActiveAgents]
              \in [at : States, conn : Conn \cup {NoConn}, live : SUBSET Host, roster : SUBSET Host]
        BY <2>1
      <3>3. QED
        BY <3>1, <3>2
    <2>3. CASE ~Answered(kind)
      BY <1>7, <2>3 DEF HandleToolCall
    <2>4. QED
      BY <2>2, <2>3
  <1>8. ASSUME NEW r \in Request, queueResult(r) PROVE TypeInv'
    <2>1. message[r].conn \in Conn \cup {NoConn}
      OBVIOUS
    <2>2. QED
      BY <1>8, <2>1 DEF queueResult
  <1>9. ASSUME NEW r \in Request, Scan(r) PROVE TypeInv'
    BY <1>9 DEF Scan, Streaming
  <1>10. ASSUME NEW r \in Request, Encode(r) PROVE TypeInv'
    BY <1>10 DEF Encode
  <1>11. CASE RegistryStep
    <2>1. /\ elapsed' \in [Host -> {Unseen} \cup 0 .. StaleTimeout + 1]
          /\ stream' \in [Host -> {"none", "open", "half"}]
          /\ beat' \in [Host -> 0 .. Heartbeat]
      BY <1>11, RegistryType
    <2>2. sse' = sse /\ message' \in [Request -> [at : States, conn : Conn \cup {NoConn},
                                                 live : SUBSET Host, roster : SUBSET Host]]
      BY <1>11, ZenonT(30) DEF RegistryStep
    <2>3. QED
      BY <2>1, <2>2
  <1>12. QED
    BY <1>1, <1>2, <1>3, <1>4, <1>5, <1>6, <1>7, <1>8, <1>9, <1>10, <1>11 DEF Next

-----------------------------------------------------------------------------
(* The roster.                                                             *)

LEMMA InitRoster == Init => RosterInv
  BY DEF Init, RegistryInit, RosterInv, RosterMissesNoStreamingAgent, NotSent

\* After each step of the registry its last contact with a streaming agent is
\* no older than the timer of that stream.
LEMMA ContactIsRecent ==
  ASSUME TypeInv, RosterInv, RegistryStep
  PROVE  \A h \in Host : stream'[h] # "none" => elapsed'[h] # Unseen /\ elapsed'[h] <= beat'[h]
  <1> DEFINE Recent == \A h \in Host : stream[h] # "none" => elapsed[h] # Unseen /\ elapsed[h] <= beat[h]
  <1>a. Recent
    BY DEF RosterInv
  <1>b. /\ elapsed \in [Host -> {Unseen} \cup 0 .. StaleTimeout + 1]
        /\ stream \in [Host -> {"none", "open", "half"}]
        /\ beat \in [Host -> 0 .. Heartbeat]
    BY DEF TypeInv
  <1>1. ASSUME NEW h \in Host, handlePoll(h) PROVE Recent'
    BY <1>1, <1>a, <1>b DEF handlePoll, Touch
  <1>2. ASSUME NEW h \in Host, handleEvents(h) PROVE Recent'
    BY <1>2, <1>a, <1>b DEF handleEvents, Touch
  <1>3. ASSUME NEW h \in Host, HeartbeatTicks(h) PROVE Recent'
    BY <1>3, <1>a, <1>b DEF HeartbeatTicks, Touch
  <1>4. ASSUME NEW h \in Host, AgentVanishes(h) PROVE Recent'
    BY <1>4, <1>a, <1>b DEF AgentVanishes
  <1>5. ASSUME NEW h \in Host, StreamCloses(h) PROVE Recent'
    BY <1>5, <1>a, <1>b DEF StreamCloses
  <1>6. CASE Tick
    <2>1. ASSUME NEW h \in Host, stream'[h] # "none"
          PROVE  elapsed'[h] # Unseen /\ elapsed'[h] <= beat'[h]
      <3>1. elapsed[h] # Unseen /\ elapsed[h] <= beat[h] /\ beat[h] < Heartbeat
            /\ stream[h] # "none"
        BY <1>6, <1>a, <2>1 DEF Tick
      <3>2. elapsed[h] \in Nat /\ beat[h] \in Nat /\ elapsed[h] <= StaleTimeout
        BY <1>b, <3>1
      <3>3. elapsed'[h] = elapsed[h] + 1 /\ beat'[h] = beat[h] + 1
        BY <1>6, <3>1, <3>2 DEF Tick
      <3>4. QED
        BY <3>1, <3>2, <3>3
    <2>2. QED
      BY <2>1
  <1>7. QED
    BY <1>1, <1>2, <1>3, <1>4, <1>5, <1>6 DEF RegistryStep

\* An agent that is streaming is in the roster.
LEMMA StreamingIsActive ==
  ASSUME TypeInv, RosterInv
  PROVE  Streaming \subseteq ActiveAgents
  <1> SUFFICES ASSUME NEW h \in Host, stream[h] = "open" PROVE h \in ActiveAgents
    BY DEF Streaming
  <1>1. elapsed[h] # Unseen /\ elapsed[h] <= beat[h]
    BY DEF RosterInv
  <1>2. elapsed[h] \in Nat /\ beat[h] \in 0 .. Heartbeat
    BY <1>1 DEF TypeInv
  <1>3. elapsed[h] < StaleTimeout
    BY <1>1, <1>2
  <1>4. QED
    BY <1>1, <1>3 DEF ActiveAgents

LEMMA NextRoster == TypeInv /\ RosterInv /\ [Next]_vars => RosterInv'
  <1> SUFFICES ASSUME TypeInv, RosterInv, [Next]_vars PROVE RosterInv'
    OBVIOUS
  <1> message \in [Request -> [at : States, conn : Conn \cup {NoConn},
                               live : SUBSET Host, roster : SUBSET Host]]
    BY DEF TypeInv
  <1> USE DEF RosterInv, RosterMissesNoStreamingAgent, Streaming, registryVars, Moves, NotSent
  <1>1. CASE UNCHANGED vars
    BY <1>1 DEF vars, transportVars
  <1>2. ASSUME NEW c \in Conn, handleSSE(c) PROVE RosterInv'
    BY <1>2 DEF handleSSE
  <1>3. ASSUME NEW c \in Conn, OpenSession(c) PROVE RosterInv'
    BY <1>3 DEF OpenSession
  <1>4. ASSUME NEW c \in Conn, WriteMessage(c) PROVE RosterInv'
    BY <1>4 DEF WriteMessage
  <1>5. ASSUME NEW c \in Conn, CloseSession(c) PROVE RosterInv'
    BY <1>5 DEF CloseSession
  <1>6. ASSUME NEW r \in Request, NEW c \in Conn, handleMessage(r, c) PROVE RosterInv'
    BY <1>6 DEF handleMessage
  <1>7. ASSUME NEW r \in Request, NEW kind \in Kind, HandleToolCall(r, kind) PROVE RosterInv'
    <2>1. message[r].live \subseteq ActiveAgents
      BY <1>7, StreamingIsActive DEF HandleToolCall
    <2>2. QED
      BY <1>7, <2>1 DEF HandleToolCall
  <1>8. ASSUME NEW r \in Request, queueResult(r) PROVE RosterInv'
    BY <1>8 DEF queueResult
  <1>9. ASSUME NEW r \in Request, Scan(r) PROVE RosterInv'
    BY <1>9 DEF Scan
  <1>10. ASSUME NEW r \in Request, Encode(r) PROVE RosterInv'
    BY <1>10 DEF Encode
  <1>11. CASE RegistryStep
    <2>1. \A h \in Host : stream'[h] # "none" => elapsed'[h] # Unseen /\ elapsed'[h] <= beat'[h]
      BY <1>11, ContactIsRecent
    <2>2. ASSUME NEW r \in Request
          PROVE  /\ message'[r].at = "handling" =>
                      message'[r].live \subseteq {h \in Host : stream'[h] = "open"}
                 /\ message'[r].at = "result" => message'[r].live \subseteq message'[r].roster
      BY <1>11 DEF RegistryStep
    <2>3. QED
      BY <2>1, <2>2
  <1>12. QED
    BY <1>1, <1>2, <1>3, <1>4, <1>5, <1>6, <1>7, <1>8, <1>9, <1>10, <1>11 DEF Next

\* In any fleet, for any timeouts of which the stale timeout is the longest: the
\* roster a tool call read has every agent whose event stream was open from the
\* arrival of the call on (handleEvents' heartbeat, Registry.ActiveAgents).
THEOREM RosterCorrect == Spec => []RosterMissesNoStreamingAgent
  <1>1. TypeInv /\ RosterInv /\ [Next]_vars => (TypeInv /\ RosterInv)'
    BY NextType, NextRoster
  <1>2. RosterInv => RosterMissesNoStreamingAgent
    BY DEF RosterInv
  <1>3. QED
    BY <1>1, <1>2, InitType, InitRoster, PTL DEF Spec

\* The registry and the transports keep their types, and the two readings of an
\* agent's age agree: Status calls an agent stale exactly when ActiveAgents
\* leaves it out.
THEOREM TypeCorrect == Spec => []TypeOK
  <1>1. TypeInv /\ RosterInv /\ [Next]_vars => (TypeInv /\ RosterInv)'
    BY NextType, NextRoster
  <1>2. TypeInv => TypeOK
    <2> SUFFICES ASSUME TypeInv PROVE TypeOK
      OBVIOUS
    <2>1. ASSUME NEW h \in Host
          PROVE  Status(h) \in {"active", "idle"} <=> h \in ActiveAgents
      <3>1. elapsed[h] = Unseen \/ elapsed[h] \in Nat
        BY DEF TypeInv
      <3>2. QED
        BY <2>1, <3>1 DEF Status, computeStatus, ActiveAgents
    <2>2. QED
      BY <2>1 DEF TypeOK, TypeInv, States
  <1>3. QED
    BY <1>1, <1>2, InitType, InitRoster, PTL DEF Spec

-----------------------------------------------------------------------------
(* The session counter.                                                    *)

Open == {c \in Conn : sse[c] = "open"}

LEMMA OpenIsFinite == IsFiniteSet(Open) /\ Cardinality(Open) \in Nat
  BY FS_Subset, FS_CardinalityType DEF Open

LEMMA InitConnections == Init => ConnectionsAccounted /\ CheckInv
  <1> SUFFICES ASSUME Init PROVE ConnectionsAccounted /\ CheckInv
    OBVIOUS
  <1>1. {c \in Conn : sse[c] = "open"} = {}
    BY DEF Init
  <1>2. QED
    <2>1. Cardinality({c \in Conn : sse[c] = "open"}) = 0
      BY <1>1, FS_EmptySet
    <2>2. sseConns = 0 /\ sessions = {} /\ \A c \in Conn : sse[c] = "none"
      BY DEF Init
    <2>3. ConnectionsAccounted
      BY <1>1, <2>1, <2>2 DEF ConnectionsAccounted
    <2>4. QED
      BY <2>2, <2>3 DEF CheckInv

LEMMA NextConnections ==
  TypeInv /\ ConnectionsAccounted /\ CheckInv /\ [Next]_vars => (ConnectionsAccounted /\ CheckInv)'
  <1> SUFFICES ASSUME TypeInv, ConnectionsAccounted, CheckInv, [Next]_vars
               PROVE  (ConnectionsAccounted /\ CheckInv)'
    OBVIOUS
  <1>a. sse \in [Conn -> {"none", "refused", "checked", "open", "closed"}]
    BY DEF TypeInv
  <1>b. sseConns = Cardinality(Open) /\ sessions = Open /\ sseConns \in Nat /\ IsFiniteSet(Open)
    BY OpenIsFinite DEF ConnectionsAccounted, Open
  <1>1. ASSUME UNCHANGED <<sse, sseConns, sessions, together>> PROVE (ConnectionsAccounted /\ CheckInv)'
    BY <1>1 DEF ConnectionsAccounted, CheckInv
  <1>2. ASSUME NEW c \in Conn, handleSSE(c) PROVE (ConnectionsAccounted /\ CheckInv)'
    <2>1. sse[c] = "none" /\ UNCHANGED <<sseConns, sessions>>
          /\ sse' = [sse EXCEPT ![c] = IF atLimit THEN "refused" ELSE "checked"]
      BY <1>2 DEF handleSSE
    <2>2. Open' = Open
      BY <1>a, <2>1 DEF Open
    <2>3. ~together' => ~together /\ (atLimit \/ \A d \in Conn : sse[d] # "checked")
      BY <1>2 DEF handleSSE
    <2>4. MaxSSEConns > 0 /\ ~atLimit => sseConns < MaxSSEConns
      BY <1>b DEF atLimit
    <2>5. CheckInv'
      BY <1>a, <2>1, <2>3, <2>4 DEF CheckInv
    <2>6. ConnectionsAccounted'
      BY <1>b, <2>1, <2>2, <2>3 DEF ConnectionsAccounted, Open
    <2>7. QED
      BY <2>5, <2>6
  <1>3. ASSUME NEW c \in Conn, OpenSession(c) PROVE (ConnectionsAccounted /\ CheckInv)'
    <2>1. /\ sse[c] = "checked" /\ sse' = [sse EXCEPT ![c] = "open"]
          /\ sseConns' = sseConns + 1 /\ sessions' = sessions \cup {c} /\ together' = together
      BY <1>3 DEF OpenSession
    <2>2. c \notin Open /\ Open' = Open \cup {c}
      BY <1>a, <2>1 DEF Open
    <2>3. Cardinality(Open') = Cardinality(Open) + 1
      BY <1>b, <2>2, FS_AddElement
    <2>4. MaxSSEConns > 0 /\ ~together => sseConns < MaxSSEConns /\ \A d \in Conn : sse[d] = "checked" => d = c
      BY <2>1 DEF CheckInv
    <2>5. CheckInv'
      BY <1>a, <2>1, <2>4 DEF CheckInv
    <2>6. sseConns' = Cardinality(Open') /\ sessions' = Open'
      BY <1>b, <2>1, <2>2, <2>3
    <2>7. MaxSSEConns > 0 /\ ~together' => sseConns' <= MaxSSEConns
      BY <1>b, <2>1, <2>4
    <2>8. QED
      BY <2>5, <2>6, <2>7 DEF ConnectionsAccounted, Open
  <1>4. ASSUME NEW c \in Conn, CloseSession(c) PROVE (ConnectionsAccounted /\ CheckInv)'
    <2>1. /\ sse[c] = "open" /\ sse' = [sse EXCEPT ![c] = "closed"]
          /\ sseConns' = sseConns - 1 /\ sessions' = sessions \ {c} /\ together' = together
      BY <1>4 DEF CloseSession
    <2>2. c \in Open /\ Open' = Open \ {c}
      BY <1>a, <2>1 DEF Open
    <2>3. Cardinality(Open') = Cardinality(Open) - 1
      BY <1>b, <2>2, FS_RemoveElement
    <2>4. CheckInv'
      BY <1>a, <1>b, <2>1 DEF CheckInv
    <2>5. sseConns' = Cardinality(Open') /\ sessions' = Open'
      BY <1>b, <2>1, <2>2, <2>3
    <2>6. MaxSSEConns > 0 /\ ~together' => sseConns' <= MaxSSEConns
      BY <1>b, <2>1 DEF ConnectionsAccounted
    <2>7. QED
      BY <2>4, <2>5, <2>6 DEF ConnectionsAccounted, Open
  <1>5. QED
    BY <1>1, <1>2, <1>3, <1>4
    DEF Next, WriteMessage, handleMessage, HandleToolCall, queueResult, Scan, Encode,
        RegistryStep, vars, transportVars

\* For any number of GET /sse requests: handleSSE counts and maps the open
\* sessions, and keeps to max_sse_conns unless two requests passed its check
\* before either was counted.
THEOREM ConnectionsCorrect == Spec => []ConnectionsAccounted
  <1>1. Init => TypeInv /\ RosterInv /\ ConnectionsAccounted /\ CheckInv
    BY InitType, InitRoster, InitConnections
  <1>2. (TypeInv /\ RosterInv /\ ConnectionsAccounted /\ CheckInv) /\ [Next]_vars
          => (TypeInv /\ RosterInv /\ ConnectionsAccounted /\ CheckInv)'
    BY NextType, NextRoster, NextConnections
  <1>3. QED
    BY <1>1, <1>2, PTL DEF Spec

-----------------------------------------------------------------------------
(* How often a value occurs in a sequence.                                 *)

LEMMA TimesType ==
  ASSUME NEW X, NEW s \in Seq(X), NEW r
  PROVE  IsFiniteSet({i \in DOMAIN s : s[i] = r}) /\ Times(r, s) \in Nat
  <1>1. IsFiniteSet(1..Len(s))
    BY FS_Interval
  <1>2. {i \in DOMAIN s : s[i] = r} \in SUBSET (1..Len(s))
    OBVIOUS
  <1>3. QED
    BY <1>1, <1>2, FS_Subset, FS_CardinalityType DEF Times

LEMMA TimesConcat ==
  ASSUME NEW X, NEW s \in Seq(X), NEW t \in Seq(X), NEW r
  PROVE  Times(r, s \o t) = Times(r, s) + Times(r, t)
  <1> DEFINE S == {i \in DOMAIN s : s[i] = r}
             T == {i \in DOMAIN t : t[i] = r}
             U == {i \in Len(s) + 1 .. Len(s) + Len(t) : t[i - Len(s)] = r}
             f == [i \in T |-> Len(s) + i]
  <1>1. s \o t \in Seq(X) /\ Len(s \o t) = Len(s) + Len(t)
    OBVIOUS
  <1>2. {i \in DOMAIN (s \o t) : (s \o t)[i] = r} = S \cup U
    <2>1. ASSUME NEW i \in 1 .. Len(s) + Len(t)
          PROVE  (s \o t)[i] = IF i <= Len(s) THEN s[i] ELSE t[i - Len(s)]
      BY <2>1
    <2>2. QED
      BY <1>1, <2>1
  <1>3. S \cap U = {}
    OBVIOUS
  <1>4. f \in Bijection(T, U)
    <2>1. \A i \in T : f[i] \in U
      OBVIOUS
    <2>2. \A j \in U : j - Len(s) \in T /\ f[j - Len(s)] = j
      OBVIOUS
    <2>3. \A i, j \in T : f[i] = f[j] => i = j
      OBVIOUS
    <2>4. f \in [T -> U]
      BY <2>1
    <2>5. \A j \in U : \E i \in T : f[i] = j
      BY <2>2
    <2>6. QED
      BY <2>3, <2>4, <2>5 DEF Bijection, Injection, Surjection, IsInjective
  <1>5. IsFiniteSet(S) /\ IsFiniteSet(T)
    BY TimesType
  <1>6. IsFiniteSet(U) /\ Cardinality(U) = Cardinality(T)
    BY <1>4, <1>5, FS_Bijection DEF ExistsBijection
  <1>7. Cardinality(S) \in Nat /\ Cardinality(T) \in Nat
    BY <1>5, FS_CardinalityType
  <1>8. Cardinality(S \cup U) = Cardinality(S) + Cardinality(T)
    <2>1. Cardinality(S \cap U) = 0
      BY <1>3, FS_EmptySet
    <2>2. Cardinality(S \cup U) = Cardinality(S) + Cardinality(U) - Cardinality(S \cap U)
      <3> HIDE DEF S, T, U
      <3>1. QED
        BY <1>5, <1>6, FS_Union
    <2>3. QED
      BY <2>1, <2>2, <1>6, <1>7
  <1>9. QED
    BY <1>2, <1>8 DEF Times

LEMMA TimesOne ==
  ASSUME NEW x, NEW r
  PROVE  Times(r, <<x>>) = IF x = r THEN 1 ELSE 0
  <1>1. {i \in DOMAIN <<x>> : <<x>>[i] = r} = IF x = r THEN {1} ELSE {}
    OBVIOUS
  <1>2. QED
    BY <1>1, FS_EmptySet, FS_Singleton DEF Times

LEMMA TimesTail ==
  ASSUME NEW X, NEW s \in Seq(X), s # <<>>, NEW r
  PROVE  Times(r, s) = (IF Head(s) = r THEN 1 ELSE 0) + Times(r, Tail(s))
  <1>1. s = <<Head(s)>> \o Tail(s) /\ <<Head(s)>> \in Seq(X) /\ Tail(s) \in Seq(X)
    OBVIOUS
  <1>2. Times(r, s) = Times(r, <<Head(s)>>) + Times(r, Tail(s))
    BY <1>1, TimesConcat
  <1>3. QED
    BY <1>2, TimesOne

LEMMA TimesAppend ==
  ASSUME NEW X, NEW s \in Seq(X), NEW x \in X, NEW r
  PROVE  Times(r, Append(s, x)) = Times(r, s) + (IF x = r THEN 1 ELSE 0)
  <1>1. Append(s, x) = s \o <<x>> /\ <<x>> \in Seq(X)
    OBVIOUS
  <1>2. Times(r, Append(s, x)) = Times(r, s) + Times(r, <<x>>)
    BY <1>1, TimesConcat
  <1>3. QED
    BY <1>2, TimesOne

\* What occurs at two places occurs twice.
LEMMA TimesTwice ==
  ASSUME NEW X, NEW s \in Seq(X), NEW r,
         NEW i \in DOMAIN s, NEW j \in DOMAIN s, i # j, s[i] = r, s[j] = r
  PROVE  Times(r, s) >= 2
  <1>1. {i, j} \in SUBSET {k \in DOMAIN s : s[k] = r}
    OBVIOUS
  <1>2. Cardinality({i, j}) = 2
    <2>1. IsFiniteSet({i}) /\ Cardinality({i}) = 1 /\ j \notin {i}
      BY FS_Singleton
    <2>2. Cardinality({i} \cup {j}) = Cardinality({i}) + 1
      BY <2>1, FS_AddElement
    <2>3. Cardinality({i} \cup {j}) = 2
      BY <2>1, <2>2
    <2>4. {i, j} = {i} \cup {j}
      OBVIOUS
    <2>5. QED
      BY <2>3, <2>4, Zenon
  <1>3. QED
    BY <1>1, <1>2, TimesType, FS_Subset DEF Times

-----------------------------------------------------------------------------
(* The answers.                                                            *)

Anyone == Conn \cup {NoConn}

QueuedFor(r, c) == {q \in Request \ {r} : message[q].conn = c /\ message[q].at = "queued"}

(* What the answers are counted in, and that messages arrive one by one.   *)
AnswerTypes ==
  /\ channel \in [Anyone -> Seq(Request)]
  /\ written \in [Anyone -> Seq(Request)]
  /\ IsFiniteSet({r \in Request : message[r].at # "client"})

AnswerInv == TypeInv /\ AnswerTypes /\ AnswersReachTheirClient

LEMMA InitAnswers == Init => AnswerInv
  <1> SUFFICES ASSUME Init PROVE AnswerInv
    OBVIOUS
  <1>1. /\ channel = [c \in Anyone |-> <<>>] /\ written = [c \in Anyone |-> <<>>]
        /\ \A r \in Request : message[r].at = "client"
    BY DEF Init, NotSent, Anyone
  <1>2. {r \in Request : message[r].at # "client"} = {}
    BY <1>1
  <1>3. AnswerTypes
    BY <1>1, <1>2, FS_EmptySet DEF AnswerTypes
  <1>4. ASSUME NEW r \in Request PROVE Times(r, <<>>) = 0
    <2>1. {i \in DOMAIN <<>> : <<>>[i] = r} = {}
      OBVIOUS
    <2>2. QED
      BY <2>1, FS_EmptySet DEF Times
  <1>5. AnswersReachTheirClient
    BY <1>1, <1>4 DEF AnswersReachTheirClient, Anyone
  <1>6. QED
    BY <1>3, <1>5, InitType DEF AnswerInv

\* One message at most arrives in a step.
LEMMA ArrivalsFinite ==
  ASSUME AnswerTypes, NEW m, NEW r,
         \A q \in Request \ {r} : m[q].at # "client" => message[q].at # "client"
  PROVE  IsFiniteSet({q \in Request : m[q].at # "client"})
  <1> DEFINE Arrived == {q \in Request : message[q].at # "client"}
  <1>1. IsFiniteSet(Arrived \cup {r})
    BY FS_AddElement DEF AnswerTypes
  <1>2. {q \in Request : m[q].at # "client"} \in SUBSET (Arrived \cup {r})
    OBVIOUS
  <1>3. QED
    BY <1>1, <1>2, FS_Subset

\* Who has been answered stays so, and with it what was dropped for it.
LEMMA QueuedGrows ==
  ASSUME AnswerTypes, AnswerTypes', NEW r \in Request, NEW c,
         \A q \in Request : message[q].at = "queued" =>
            message'[q].at = "queued" /\ message'[q].conn = message[q].conn
  PROVE  /\ Cardinality(QueuedFor(r, c)) \in Nat /\ Cardinality(QueuedFor(r, c)') \in Nat
         /\ Cardinality(QueuedFor(r, c)') >= Cardinality(QueuedFor(r, c))
  <1>1. QueuedFor(r, c)' \in SUBSET {q \in Request : message'[q].at # "client"}
    BY DEF QueuedFor
  <1>2. IsFiniteSet(QueuedFor(r, c)')
    BY <1>1, FS_Subset DEF AnswerTypes
  <1>3. QueuedFor(r, c) \in SUBSET (QueuedFor(r, c)')
    BY DEF QueuedFor
  <1>4. QED
    BY <1>2, <1>3, FS_Subset, FS_CardinalityType

\* A step that touches neither what the clients read nor what waits for them,
\* and answers nothing.
LEMMA QuietStep ==
  ASSUME AnswerInv, TypeInv', AnswerTypes', UNCHANGED <<channel, written>>,
         \A q \in Request :
            \/ message'[q] = message[q]
            \/ {message[q].at, message'[q].at} \cap {"queued", "dropped"} = {}
            \/ message'[q].at = message[q].at /\ message'[q].conn = message[q].conn
  PROVE  AnswerInv'
  <1>1. ASSUME NEW q \in Request
        PROVE  /\ message'[q].at = "queued" <=> message[q].at = "queued"
               /\ message'[q].at = "dropped" <=> message[q].at = "dropped"
               /\ message[q].at \in {"queued", "dropped"} => message'[q].conn = message[q].conn
    OBVIOUS
  <1>2. ASSUME NEW r \in Request, NEW c \in Anyone
        PROVE  Times(r, channel'[c]) + Times(r, written'[c])
                 = (IF message'[r].at = "queued" /\ message'[r].conn = c THEN 1 ELSE 0)
    BY <1>1, <1>2 DEF AnswerInv, AnswersReachTheirClient, Anyone
  <1>3. ASSUME NEW r \in Request, message'[r].at = "dropped"
        PROVE  Cardinality(QueuedFor(r, message[r].conn)') >= QueueSize
    <2>1. PICK c : c = message[r].conn
      OBVIOUS
    <2>2. c = message'[r].conn /\ message[r].at = "dropped"
      BY <1>1, <1>3, <2>1
    <2>3. Cardinality(QueuedFor(r, c)) >= QueueSize
      BY <2>1, <2>2 DEF AnswerInv, AnswersReachTheirClient, QueuedFor
    <2>4. \A q \in Request : message[q].at = "queued" =>
             message'[q].at = "queued" /\ message'[q].conn = message[q].conn
      BY <1>1
    <2>5. /\ Cardinality(QueuedFor(r, c)) \in Nat /\ Cardinality(QueuedFor(r, c)') \in Nat
          /\ Cardinality(QueuedFor(r, c)') >= Cardinality(QueuedFor(r, c))
      BY <2>4, QueuedGrows DEF AnswerInv
    <2>6. Cardinality(QueuedFor(r, c)') >= QueueSize
      BY <2>3, <2>5
    <2>7. QED
      BY <2>2, <2>6
  <1>4. AnswersReachTheirClient'
    <2>1. \A r \in Request : message'[r].at = "dropped" => message'[r].conn = message[r].conn
      BY <1>1
    <2>2. QED
      BY <1>2, <1>3, <2>1 DEF AnswersReachTheirClient, QueuedFor, Anyone
  <1>5. QED
    BY <1>4 DEF AnswerInv


\* The session's loop moves an answer from the channel to the client.
LEMMA WriteAnswers ==
  ASSUME AnswerInv, TypeInv', NEW c \in Conn, WriteMessage(c)
  PROVE  AnswerInv'
  <1> DEFINE s == channel[c]
             w == written[c]
  <1>1. /\ s # <<>> /\ message' = message
        /\ written' = [written EXCEPT ![c] = Append(w, Head(s))]
        /\ channel' = [channel EXCEPT ![c] = Tail(s)]
    BY DEF WriteMessage
  <1>2. /\ channel \in [Anyone -> Seq(Request)] /\ written \in [Anyone -> Seq(Request)]
        /\ s \in Seq(Request) /\ w \in Seq(Request) /\ Head(s) \in Request
    BY <1>1 DEF AnswerInv, AnswerTypes, Anyone
  <1>3. AnswerTypes'
    <2>1. Tail(s) \in Seq(Request) /\ Append(w, Head(s)) \in Seq(Request)
      BY <1>1, <1>2
    <2>2. QED
      BY <1>1, <1>2, <2>1 DEF AnswerInv, AnswerTypes, Anyone
  <1>4. ASSUME NEW r \in Request, NEW d \in Anyone
        PROVE  Times(r, channel'[d]) + Times(r, written'[d]) = Times(r, channel[d]) + Times(r, written[d])
    <2>1. CASE d # c
      BY <1>1, <1>2, <2>1
    <2>2. CASE d = c
      <3>1. channel'[d] = Tail(s) /\ written'[d] = Append(w, Head(s))
        BY <1>1, <1>2, <2>2
      <3>2. Times(r, s) = (IF Head(s) = r THEN 1 ELSE 0) + Times(r, Tail(s))
        BY <1>1, <1>2, TimesTail
      <3>3. Times(r, Append(w, Head(s))) = Times(r, w) + (IF Head(s) = r THEN 1 ELSE 0)
        BY <1>2, TimesAppend
      <3>4. /\ Times(r, Tail(s)) \in Nat /\ Times(r, w) \in Nat
        <4>1. Tail(s) \in Seq(Request)
          BY <1>1, <1>2
        <4>2. Times(r, Tail(s)) \in Nat
          BY <4>1, TimesType
        <4>3. Times(r, w) \in Nat
          BY <1>2, TimesType
        <4>4. QED
          BY <4>2, <4>3
      <3>5. QED
        BY <2>2, <3>1, <3>2, <3>3, <3>4
    <2>3. QED
      BY <2>1, <2>2
  <1>5. AnswersReachTheirClient'
    BY <1>1, <1>4 DEF AnswerInv, AnswersReachTheirClient, Anyone
  <1>6. QED
    BY <1>3, <1>5 DEF AnswerInv

\* A one-to-one function into a finite set has no more arguments than it has values.
LEMMA InjectiveBound ==
  ASSUME NEW S, NEW T, IsFiniteSet(T), NEW f \in [S -> T],
         \A a, b \in S : f[a] = f[b] => a = b
  PROVE  Cardinality(S) <= Cardinality(T)
  <1>1. f \in Injection(S, T)
    BY DEF Injection, IsInjective
  <1>2. QED
    BY <1>1, FS_Injection

\* There are n numbers from 1 to n.
LEMMA FirstNumbers ==
  ASSUME NEW n \in Nat
  PROVE  Cardinality(1 .. n) = n
  <1>1. Cardinality(1 .. n) = IF 1 > n THEN 0 ELSE n - 1 + 1
    BY FS_Interval, SMT
  <1>2. QED
    BY <1>1

\* A full channel holds answers to as many messages of its client.
LEMMA FullOfOthers ==
  ASSUME AnswerInv, NEW r \in Request, message[r].at = "result", NEW c \in Anyone
  PROVE  Cardinality(QueuedFor(r, c)) >= Len(channel[c])
  <1> DEFINE s == channel[c]
             f == [i \in 1 .. Len(s) |-> s[i]]
  <1>1. s \in Seq(Request) /\ written[c] \in Seq(Request) /\ IsFiniteSet(QueuedFor(r, c))
    <2>1. QueuedFor(r, c) \in SUBSET {q \in Request : message[q].at # "client"}
      BY DEF QueuedFor
    <2>2. QED
      BY <2>1, FS_Subset DEF AnswerInv, AnswerTypes
  <1>2. ASSUME NEW q \in Request
        PROVE  /\ Times(q, s) \in Nat /\ Times(q, s) <= 1
               /\ Times(q, s) > 0 => message[q].at = "queued" /\ message[q].conn = c
    <2>1. Times(q, s) \in Nat /\ Times(q, written[c]) \in Nat
      BY <1>1, TimesType
    <2>2. Times(q, s) + Times(q, written[c])
            = (IF message[q].at = "queued" /\ message[q].conn = c THEN 1 ELSE 0)
      BY DEF AnswerInv, AnswersReachTheirClient, Anyone
    <2>3. QED
      BY <2>1, <2>2
  <1>3. ASSUME NEW i \in 1 .. Len(s) PROVE s[i] \in QueuedFor(r, c)
    <2>1. s[i] \in Request
      BY <1>1
    <2>2. {k \in DOMAIN s : s[k] = s[i]} # {}
      BY <1>1
    <2>3. Times(s[i], s) # 0
      BY <1>1, <2>2, TimesType, FS_EmptySet DEF Times
    <2>4. message[s[i]].at = "queued" /\ message[s[i]].conn = c
      BY <1>2, <2>1, <2>3
    <2>5. QED
      BY <2>1, <2>4 DEF QueuedFor
  <1>4. ASSUME NEW i \in 1 .. Len(s), NEW j \in 1 .. Len(s), s[i] = s[j] PROVE i = j
    <2>1. SUFFICES ASSUME i # j PROVE FALSE
      OBVIOUS
    <2>2. s[i] \in Request /\ DOMAIN s = 1 .. Len(s)
      BY <1>1
    <2>3. Times(s[i], s) >= 2
      BY <1>1, <1>4, <2>1, <2>2, TimesTwice
    <2>4. QED
      BY <1>2, <2>2, <2>3
  <1>5. f \in [1 .. Len(s) -> QueuedFor(r, c)] /\ \A i, j \in 1 .. Len(s) : f[i] = f[j] => i = j
    BY <1>3, <1>4
  <1>6. Cardinality(1 .. Len(s)) <= Cardinality(QueuedFor(r, c))
    <2> HIDE DEF f, s
    <2>1. QED
      BY <1>1, <1>5, InjectiveBound
  <1>7. Cardinality(1 .. Len(s)) = Len(s) /\ Len(s) \in Nat
    <2>1. Len(s) \in Nat
      BY <1>1
    <2> HIDE DEF f, s
    <2>2. QED
      BY <2>1, FirstNumbers
  <1>8. QED
    BY <1>6, <1>7

\* An answer enters one channel, or is dropped with that channel full.
LEMMA QueueAnswers ==
  ASSUME AnswerInv, TypeInv', NEW r \in Request, queueResult(r)
  PROVE  AnswerInv'
  <1> USE DEF Moves, NotSent
  <1>1. PICK c : c = message[r].conn
    OBVIOUS
  <1>2. /\ c \in Anyone /\ message[r].at = "result" /\ written' = written
        /\ message \in [Request -> [at : States, conn : Anyone, live : SUBSET Host, roster : SUBSET Host]]
    BY <1>1 DEF queueResult, AnswerInv, TypeInv, Anyone
  <1>3. /\ channel \in [Anyone -> Seq(Request)] /\ written \in [Anyone -> Seq(Request)]
        /\ channel[c] \in Seq(Request)
    BY <1>2 DEF AnswerInv, AnswerTypes
  <1>4. \A d \in Anyone : /\ Times(r, channel[d]) + Times(r, written[d]) = 0
                          /\ Times(r, channel[d]) \in Nat /\ Times(r, written[d]) \in Nat
    BY <1>2, <1>3, TimesType DEF AnswerInv, AnswersReachTheirClient, Anyone
  <1>5. /\ \A q \in Request \ {r} : message'[q] = message[q]
        /\ message'[r].conn = c /\ message'[r].at \in {"queued", "dropped"}
        /\ message'[r].at = "dropped" => Len(channel[c]) >= QueueSize /\ channel' = channel
        /\ message'[r].at = "queued" => channel' = [channel EXCEPT ![c] = Append(channel[c], r)]
    BY <1>1, <1>2 DEF queueResult
  <1>6. channel' \in [Anyone -> Seq(Request)]
    <2>1. Append(channel[c], r) \in Seq(Request)
      BY <1>3
    <2>2. QED
      BY <1>2, <1>3, <1>5, <2>1
  <1>7. AnswerTypes'
    <2>1. IsFiniteSet({q \in Request : message'[q].at # "client"})
      BY <1>5, ArrivalsFinite DEF AnswerInv
    <2>2. QED
      BY <1>2, <1>3, <1>6, <2>1 DEF AnswerTypes
  <1>8. ASSUME NEW q \in Request, NEW d \in Anyone
        PROVE  Times(q, channel'[d]) + Times(q, written'[d])
                 = (IF message'[q].at = "queued" /\ message'[q].conn = d THEN 1 ELSE 0)
    <2>1. Times(q, channel[d]) + Times(q, written[d])
            = (IF message[q].at = "queued" /\ message[q].conn = d THEN 1 ELSE 0)
      BY DEF AnswerInv, AnswersReachTheirClient, Anyone
    <2>2. Times(q, channel[c]) \in Nat /\ Times(q, written[c]) \in Nat
      BY <1>2, <1>3, TimesType
    <2>3. Times(q, Append(channel[c], r)) = Times(q, channel[c]) + (IF r = q THEN 1 ELSE 0)
      BY <1>3, TimesAppend
    <2>4. CASE d # c \/ message'[r].at = "dropped"
      <3>1. channel'[d] = channel[d] /\ written'[d] = written[d]
        BY <1>2, <1>3, <1>5, <2>4
      <3>2. QED
        BY <1>2, <1>5, <2>1, <2>4, <3>1
    <2>5. CASE d = c /\ message'[r].at = "queued"
      <3>1. channel'[d] = Append(channel[c], r) /\ written'[d] = written[c]
        BY <1>2, <1>3, <1>5, <2>5
      <3>2. CASE q = r
        <4>1. message'[q].at = "queued" /\ message'[q].conn = d
          BY <1>5, <2>5, <3>2
        <4>2. Times(q, channel[c]) + Times(q, written[c]) = 0
          BY <1>2, <1>4, <3>2
        <4>3. Times(q, Append(channel[c], r)) = Times(q, channel[c]) + 1
          BY <2>3, <3>2
        <4>4. QED
          BY <2>2, <3>1, <4>1, <4>2, <4>3
      <3>3. CASE q # r
        <4>1. message'[q] = message[q]
          BY <1>5, <3>3
        <4>2. QED
          BY <2>1, <2>2, <2>3, <2>5, <3>1, <3>3, <4>1
      <3>4. QED
        BY <3>2, <3>3
    <2>6. QED
      BY <1>5, <2>4, <2>5
  <1>9. ASSUME NEW q \in Request, message'[q].at = "dropped"
        PROVE  Cardinality(QueuedFor(q, message[q].conn)') >= QueueSize
    <2>1. PICK d : d = message[q].conn
      OBVIOUS
    <2>2. d = message'[q].conn
      BY <1>1, <1>5, <2>1
    <2>3. Cardinality(QueuedFor(q, d)) >= QueueSize
      <3>1. CASE q = r
        <4>1. c \in Anyone /\ Cardinality(QueuedFor(r, c)) >= Len(channel[c]) /\ Len(channel[c]) \in Nat
          BY <1>2, <1>3, FullOfOthers
        <4>2. Cardinality(QueuedFor(r, c)) \in Nat
          BY <1>2, <1>5, <1>7, QueuedGrows DEF AnswerInv
        <4>3. QED
          BY <1>1, <1>5, <1>9, <2>1, <3>1, <4>1, <4>2
      <3>2. CASE q # r
        BY <1>5, <1>9, <2>1, <3>2 DEF AnswerInv, AnswersReachTheirClient, QueuedFor
      <3>3. QED
        BY <3>1, <3>2
    <2>4. /\ Cardinality(QueuedFor(q, d)) \in Nat /\ Cardinality(QueuedFor(q, d)') \in Nat
          /\ Cardinality(QueuedFor(q, d)') >= Cardinality(QueuedFor(q, d))
      BY <1>2, <1>5, <1>7, QueuedGrows DEF AnswerInv
    <2>5. Cardinality(QueuedFor(q, d)') >= QueueSize
      BY <2>3, <2>4
    <2>6. QED
      BY <2>2, <2>5
  <1>10. AnswersReachTheirClient'
    <2>1. \A q \in Request : message'[q].at = "dropped" => message'[q].conn = message[q].conn
      BY <1>1, <1>5
    <2>2. QED
      BY <1>8, <1>9, <2>1 DEF AnswersReachTheirClient, QueuedFor, Anyone
  <1>11. QED
    BY <1>7, <1>10 DEF AnswerInv

\* On stdio the answer is written at once.
LEMMA EncodeAnswers ==
  ASSUME AnswerInv, TypeInv', NEW r \in Request, Encode(r)
  PROVE  AnswerInv'
  <1> USE DEF Moves, NotSent
  <1>1. /\ message[r].at = "result" /\ channel' = channel
        /\ written' = [written EXCEPT ![NoConn] = Append(written[NoConn], r)]
        /\ message \in [Request -> [at : States, conn : Anyone, live : SUBSET Host, roster : SUBSET Host]]
    BY DEF Encode, AnswerInv, TypeInv, Anyone
  <1>2. /\ channel \in [Anyone -> Seq(Request)] /\ written \in [Anyone -> Seq(Request)]
        /\ NoConn \in Anyone /\ written[NoConn] \in Seq(Request) /\ channel[NoConn] \in Seq(Request)
    BY DEF AnswerInv, AnswerTypes, Anyone
  <1>3. /\ \A q \in Request \ {r} : message'[q] = message[q]
        /\ message'[r].conn = NoConn /\ message'[r].at = "queued"
    BY <1>1 DEF Encode
  <1>4. AnswerTypes'
    <2>1. IsFiniteSet({q \in Request : message'[q].at # "client"})
      BY <1>3, ArrivalsFinite DEF AnswerInv
    <2>2. Append(written[NoConn], r) \in Seq(Request)
      BY <1>2
    <2>3. QED
      BY <1>1, <1>2, <2>1, <2>2 DEF AnswerTypes
  <1>5. ASSUME NEW q \in Request, NEW d \in Anyone
        PROVE  Times(q, channel'[d]) + Times(q, written'[d])
                 = (IF message'[q].at = "queued" /\ message'[q].conn = d THEN 1 ELSE 0)
    <2>1. Times(q, channel[d]) + Times(q, written[d])
            = (IF message[q].at = "queued" /\ message[q].conn = d THEN 1 ELSE 0)
      BY DEF AnswerInv, AnswersReachTheirClient, Anyone
    <2>2. Times(q, channel[NoConn]) \in Nat /\ Times(q, written[NoConn]) \in Nat
      BY <1>2, TimesType
    <2>3. Times(q, Append(written[NoConn], r)) = Times(q, written[NoConn]) + (IF r = q THEN 1 ELSE 0)
      BY <1>2, TimesAppend
    <2>4. CASE d # NoConn
      <3>1. written'[d] = written[d]
        BY <1>1, <1>2, <2>4
      <3>2. QED
        BY <1>1, <1>3, <2>1, <2>4, <3>1
    <2>5. CASE d = NoConn
      <3>1. written'[d] = Append(written[NoConn], r)
        BY <1>1, <1>2, <2>5
      <3>2. CASE q = r
        BY <1>1, <1>3, <2>1, <2>2, <2>3, <2>5, <3>1, <3>2
      <3>3. CASE q # r
        BY <1>1, <1>3, <2>1, <2>2, <2>3, <2>5, <3>1, <3>3
      <3>4. QED
        BY <3>2, <3>3
    <2>6. QED
      BY <2>4, <2>5
  <1>6. ASSUME NEW q \in Request, message'[q].at = "dropped"
        PROVE  Cardinality(QueuedFor(q, message[q].conn)') >= QueueSize
    <2>1. PICK d : d = message[q].conn
      OBVIOUS
    <2>2. q # r /\ message'[q] = message[q]
      BY <1>3, <1>6
    <2>3. Cardinality(QueuedFor(q, d)) >= QueueSize
      BY <1>6, <2>1, <2>2 DEF AnswerInv, AnswersReachTheirClient, QueuedFor
    <2>4. /\ Cardinality(QueuedFor(q, d)) \in Nat /\ Cardinality(QueuedFor(q, d)') \in Nat
          /\ Cardinality(QueuedFor(q, d)') >= Cardinality(QueuedFor(q, d))
      BY <1>1, <1>3, <1>4, QueuedGrows DEF AnswerInv
    <2>5. Cardinality(QueuedFor(q, d)') >= QueueSize
      BY <2>3, <2>4
    <2>6. QED
      BY <2>1, <2>2, <2>5
  <1>7. AnswersReachTheirClient'
    <2>1. \A q \in Request : message'[q].at = "dropped" => message'[q].conn = message[q].conn
      BY <1>3
    <2>2. QED
      BY <1>5, <1>6, <2>1 DEF AnswersReachTheirClient, QueuedFor, Anyone
  <1>8. QED
    BY <1>4, <1>7 DEF AnswerInv

LEMMA NextAnswers == AnswerInv /\ RosterInv /\ [Next]_vars => AnswerInv'
  <1> SUFFICES ASSUME AnswerInv, RosterInv, [Next]_vars PROVE AnswerInv'
    OBVIOUS
  <1>a. TypeInv'
    BY NextType DEF AnswerInv
  <1>b. AnswerTypes /\ message \in [Request -> [at : States, conn : Anyone, live : SUBSET Host,
                                                roster : SUBSET Host]]
    BY DEF AnswerInv, TypeInv, Anyone
  <1> USE DEF Moves, NotSent
  <1>1. ASSUME UNCHANGED <<message, channel, written>> PROVE AnswerInv'
    <2>1. AnswerTypes'
      BY <1>1, <1>b DEF AnswerTypes
    <2>2. QED
      BY <1>1, <1>a, <2>1, QuietStep
  \* A message moves on before it has an answer in a channel.
  <1>2. ASSUME NEW r \in Request, UNCHANGED <<channel, written>>,
               \A q \in Request \ {r} : message'[q] = message[q],
               {message[r].at, message'[r].at} \cap {"queued", "dropped"} = {}
        PROVE  AnswerInv'
    <2>1. IsFiniteSet({q \in Request : message'[q].at # "client"})
      BY <1>2, <1>b, ArrivalsFinite
    <2>2. AnswerTypes'
      BY <1>2, <1>b, <2>1 DEF AnswerTypes
    <2>3. \A q \in Request :
            \/ message'[q] = message[q]
            \/ {message[q].at, message'[q].at} \cap {"queued", "dropped"} = {}
      BY <1>2
    <2>4. QED
      BY <1>2, <1>a, <2>2, <2>3, QuietStep
  <1>3. ASSUME NEW r \in Request, NEW c \in Conn, handleMessage(r, c) PROVE AnswerInv'
    <2>1. /\ UNCHANGED <<channel, written>> /\ \A q \in Request \ {r} : message'[q] = message[q]
          /\ message[r].at = "client" /\ message'[r].at \in {"handling", "unknown session"}
      BY <1>3, <1>b DEF handleMessage
    <2>2. QED
      BY <1>2, <2>1
  <1>4. ASSUME NEW r \in Request, NEW kind \in Kind, HandleToolCall(r, kind) PROVE AnswerInv'
    <2>1. /\ UNCHANGED <<channel, written>> /\ \A q \in Request \ {r} : message'[q] = message[q]
          /\ message[r].at = "handling" /\ message'[r].at \in {"result", "done"}
      BY <1>4, <1>b DEF HandleToolCall
    <2>2. QED
      BY <1>2, <2>1
  <1>5. ASSUME NEW r \in Request, Scan(r) PROVE AnswerInv'
    <2>1. /\ UNCHANGED <<channel, written>> /\ \A q \in Request \ {r} : message'[q] = message[q]
          /\ message[r].at = "client" /\ message'[r].at = "handling"
      BY <1>5, <1>b DEF Scan
    <2>2. QED
      BY <1>2, <2>1
  <1>6. CASE RegistryStep
    <2>1. /\ UNCHANGED <<channel, written>>
          /\ \A q \in Request : message'[q].at = message[q].at /\ message'[q].conn = message[q].conn
      BY <1>6, <1>b DEF RegistryStep
    <2>2. {q \in Request : message'[q].at # "client"} = {q \in Request : message[q].at # "client"}
      BY <2>1
    <2>3. AnswerTypes'
      BY <1>b, <2>1, <2>2 DEF AnswerTypes
    <2>4. QED
      BY <1>a, <2>1, <2>3, QuietStep
  <1>7. QED
    BY <1>1, <1>3, <1>4, <1>5, <1>6, <1>a, WriteAnswers, QueueAnswers, EncodeAnswers
    DEF Next, handleSSE, OpenSession, CloseSession, vars, transportVars

\* For any sessions, messages and channel size: an answer goes once to the client
\* that asked and to no other, and queueResult drops one only into a channel that
\* has been filled with answers to that client's other messages.
THEOREM AnswersCorrect == Spec => []AnswersReachTheirClient
  <1>1. AnswerInv /\ RosterInv /\ [Next]_vars => (AnswerInv /\ RosterInv)'
    BY NextAnswers, NextRoster DEF AnswerInv
  <1>2. AnswerInv => AnswersReachTheirClient
    BY DEF AnswerInv
  <1>3. QED
    BY <1>1, <1>2, InitAnswers, InitRoster, PTL DEF Spec

=============================================================================
