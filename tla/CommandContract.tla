--------------------------- MODULE CommandContract ---------------------------
(***************************************************************************)
(* What the command queue of puck-mcp promises the two sides it connects.  *)
(* The dispatcher assigns a command to one host and waits; the command is  *)
(* handed to that host's agent at most once, at most one result is         *)
(* accepted for it, that result comes from the host it was assigned to,    *)
(* and the dispatcher's wait ends once, with the accepted result or with   *)
(* a timeout.  Nothing here says how the queue does it: CommandQueue is    *)
(* the code, and implements this specification.                            *)
(*                                                                         *)
(* The contract promises no delivery: a command may be lost between the    *)
(* queue and the agent, and a wait may time out although a result was      *)
(* accepted.                                                               *)
(***************************************************************************)
CONSTANTS Hosts,    \* names of the enrolled hosts
          Cmds,     \* command ids (a fresh UUID for each dispatch)
          NoHost    \* "no host yet"

VARIABLES assigned,  \* host each command was dispatched to, or NoHost
          handed,    \* how often each was handed to an agent's connection
          accepted,  \* host whose result was accepted, or NoHost
          outcome    \* what the dispatcher's wait ended with

contractVars == <<assigned, handed, accepted, outcome>>

Init ==
  /\ assigned = [c \in Cmds |-> NoHost]
  /\ handed   = [c \in Cmds |-> 0]
  /\ accepted = [c \in Cmds |-> NoHost]
  /\ outcome  = [c \in Cmds |-> "none"]

Assign(c, h) ==
  /\ assigned[c] = NoHost
  /\ assigned' = [assigned EXCEPT ![c] = h]
  /\ outcome'  = [outcome EXCEPT ![c] = "waiting"]
  /\ UNCHANGED <<handed, accepted>>

\* A poll hands over several commands at once, a stream one at a time.
Hand(h, S) ==
  /\ \A c \in S : assigned[c] = h /\ handed[c] = 0
  /\ handed' = [c \in Cmds |-> IF c \in S THEN 1 ELSE handed[c]]
  /\ UNCHANGED <<assigned, accepted, outcome>>

Accept(c) ==
  /\ assigned[c] # NoHost
  /\ accepted[c] = NoHost
  /\ accepted' = [accepted EXCEPT ![c] = assigned[c]]
  /\ UNCHANGED <<assigned, handed, outcome>>

Reply(c) ==
  /\ outcome[c] = "waiting"
  /\ accepted[c] # NoHost
  /\ outcome' = [outcome EXCEPT ![c] = "result"]
  /\ UNCHANGED <<assigned, handed, accepted>>

GiveUp(c) ==
  /\ outcome[c] = "waiting"
  /\ outcome' = [outcome EXCEPT ![c] = "timeout"]
  /\ UNCHANGED <<assigned, handed, accepted>>

Next ==
  \/ \E c \in Cmds, h \in Hosts : Assign(c, h)
  \/ \E h \in Hosts, S \in SUBSET Cmds : Hand(h, S)
  \/ \E c \in Cmds : Accept(c) \/ Reply(c) \/ GiveUp(c)

Spec == Init /\ [][Next]_contractVars
=============================================================================
