----------------------------- MODULE Certificates -----------------------------
(***************************************************************************)
(* One agent's certificate, with the server's of ServerCerts: puck-agent   *)
(* enroll obtains it, puck-agent serve uses it and renews it, both write   *)
(* the agent's three files one after the other, and the server signs with  *)
(* the CA it loaded when it started.  Bootstrap tokens are TokenLedger's.  *)
(*                                                                         *)
(* Between two ticks of the clock lies most of a month: a start, an        *)
(* enrolment, what the agent does between two streams, requests included,  *)
(* take no time here.  A stream may outlast any number of ticks: its only  *)
(* timeout is for the next chunk, and heartbeats are chunks.               *)
(***************************************************************************)
EXTENDS ServerCerts

CONSTANTS
  Covering,     \* the SAN lists that contain the address agents connect to
  Pinning,      \* whether enrolments are given --server-ca-fingerprint
  MaxAgentPairs \* bound: key pairs the agent generates

ASSUME PinningAssumption == Pinning \in BOOLEAN
ASSUME CoveringAssumption == Covering \subseteq SanList
ASSUME PairsAssumption == MaxAgentPairs \in Nat

Cert == [pair : Nat, ca : Nat, until : Nat]

ASSUME NoCertAssumption == None \notin Cert

VARIABLES
  adisk,        \* the agent's cert, key and pinned CA on disk
  agent,        \* puck-agent serve
  enroll,       \* puck-agent enroll
  pairs         \* key pairs the agent has generated

agentVars == <<adisk, agent, enroll, pairs>>
vars == <<now, serverVars, mishaps, agentVars>>

NoNew == [cert |-> None, key |-> None, ca |-> None]
NoMaterial == NoNew

(* id and pin are what build_client read; watched is the expiry the loop   *)
(* goes by.  History, read by no guard: since is when its last stream, or  *)
(* the process, began; failed says that a renewal failed since then.       *)
AgentOff == [pc |-> "off", id |-> None, pin |-> None, watched |-> 0,
             since |-> 0, failed |-> FALSE, new |-> NoNew]
EnrollOff == [pc |-> "off", fp |-> None, new |-> NoNew]

Init ==
  /\ ServerInit
  /\ adisk = NoMaterial
  /\ agent = AgentOff
  /\ enroll = EnrollOff
  /\ pairs = 0

-----------------------------------------------------------------------------
\* Mutant of should_renew: only once it has expired.
RenewOnlyAtExpiry(until) == until <= now

should_renew(until) == until - now < Window

Persisting(c) == c.pc \in {"cert", "key", "ca"}
NewPair == pairs < MaxAgentPairs /\ pairs' = pairs + 1

(* SignAgentCert with the CA that d loaded. *)
SignAgentCert(d, pair) == [pair |-> pair, ca |-> proc[d].caCert, until |-> now + Life]
Response(d, pair) ==
  [cert |-> SignAgentCert(d, pair), key |-> pair, ca |-> proc[d].caCert]

(* Mutual TLS with pinned authorities: the agent verifies the leaf against *)
(* the CA it pinned, the server the agent's against the CA it loaded.      *)
Handshake(d, id, pin) ==
  /\ Serving(d)
  /\ proc[d].cert.ca = pin
  /\ proc[d].cert.sans \in Covering
  /\ now < proc[d].cert.until
  /\ id.ca = proc[d].caCert
  /\ now < id.until

-----------------------------------------------------------------------------
(* puck-agent enroll *)

is_fresh == adisk.cert # None /\ now < adisk.cert.until /\ ~should_renew(adisk.cert.until)

(* The operator has the fingerprint of the CA that is on the server now. *)
fingerprint == IF Pinning THEN disk["ca.pem"] ELSE None

(* A fresh certificate ends the enrolment, and successfully. *)
EnrollSkips ==
  /\ enroll.pc \in {"off", "skipped"}
  /\ is_fresh
  /\ enroll' = [EnrollOff EXCEPT !.pc = "skipped", !.fp = fingerprint]
  /\ UNCHANGED <<now, serverVars, mishaps, adisk, agent, pairs>>

(* Anything else is removed, one file after the other; the process may die *)
(* after the first or the second.                                          *)
EnrollStarts ==
  /\ enroll.pc \in {"off", "skipped"}
  /\ ~is_fresh
  /\ \/ /\ adisk' = IF adisk.cert = None THEN adisk ELSE NoMaterial
        /\ enroll' = [EnrollOff EXCEPT !.pc = "post", !.fp = fingerprint]
     \/ /\ adisk.cert # None
        /\ adisk' \in {[adisk EXCEPT !.cert = None], [adisk EXCEPT !.cert = None, !.key = None]}
        /\ enroll' = EnrollOff
  /\ Mishap("enrolled beside the agent", agent.pc # "off")
  /\ UNCHANGED <<now, serverVars, agent, pairs>>

(* The server signs; a fingerprint that was given must be the CA's. *)
EnrollAnswered(d) ==
  /\ enroll.pc = "post"
  /\ Serving(d) /\ CanSign(d)
  /\ NewPair
  /\ enroll' = IF enroll.fp \notin {None, proc[d].caCert}
               THEN EnrollOff
               ELSE [EnrollOff EXCEPT !.pc = "cert", !.new = Response(d, pairs')]
  /\ UNCHANGED <<now, serverVars, mishaps, adisk, agent>>

(* No answer or a refusal, a failed write, or the process is killed. *)
EnrollFails ==
  /\ enroll.pc \in {"post", "cert", "key", "ca"}
  /\ enroll' = EnrollOff
  /\ Mishap("agent cut", enroll.pc \in {"key", "ca"})
  /\ UNCHANGED <<now, serverVars, adisk, agent, pairs>>

(* persist_enrolled_material writes the certificate, the key, the CA. *)
NextFile(pc) == CASE pc = "cert" -> "key" [] pc = "key" -> "ca" [] pc = "ca" -> "persisted"

PersistEnrolled ==
  /\ Persisting(enroll)
  /\ adisk' = [adisk EXCEPT ![enroll.pc] = enroll.new[enroll.pc]]
  /\ enroll' = IF NextFile(enroll.pc) = "persisted"
               THEN EnrollOff
               ELSE [enroll EXCEPT !.pc = NextFile(@)]
  /\ UNCHANGED <<now, serverVars, mishaps, agent, pairs>>

-----------------------------------------------------------------------------
(* puck-agent serve *)

(* serve and build_client need the three files, and a key that fits. *)
ServeAgent ==
  /\ agent.pc = "off"
  /\ \A f \in {"cert", "key", "ca"} : adisk[f] # None
  /\ adisk.cert.pair = adisk.key
  /\ now < adisk.cert.until
  /\ agent' = [AgentOff EXCEPT !.pc = "top", !.id = adisk.cert, !.pin = adisk.ca,
                               !.watched = adisk.cert.until, !.since = now]
  /\ Mishap("enrolled beside the agent", enroll.pc \notin {"off", "skipped"})
  /\ UNCHANGED <<now, serverVars, adisk, enroll, pairs>>

(* The expiry guard ends the process. *)
CertExpired ==
  /\ agent.pc = "top"
  /\ now >= agent.watched
  /\ agent' = AgentOff
  /\ UNCHANGED <<now, serverVars, mishaps, adisk, enroll, pairs>>

(* Not yet in the window: drain and stream. *)
Connect ==
  /\ agent.pc = "top"
  /\ now < agent.watched /\ ~should_renew(agent.watched)
  /\ agent' = [agent EXCEPT !.pc = "stream", !.since = now]
  /\ UNCHANGED <<now, serverVars, mishaps, adisk, enroll, pairs>>

RenewalDue == agent.pc = "top" /\ now < agent.watched /\ should_renew(agent.watched)

(* The CA of the answer must be the CA on disk. *)
RenewAnswered(d) ==
  /\ RenewalDue
  /\ Handshake(d, agent.id, agent.pin) /\ CanSign(d)
  /\ adisk.ca = proc[d].caCert
  /\ NewPair
  /\ agent' = [agent EXCEPT !.pc = "cert", !.new = Response(d, pairs')]
  /\ UNCHANGED <<now, serverVars, mishaps, adisk, enroll>>

(* The expiry is read again from the disk, whatever is there by now, and   *)
(* the loop goes on with the client it has.                                *)
AfterFailedRenewal ==
  [agent EXCEPT !.pc = "stream", !.since = now, !.failed = TRUE, !.new = NoNew,
                !.watched = IF adisk.cert # None THEN adisk.cert.until ELSE @]

(* No handshake, no answer, an error status or another CA: all that the    *)
(* network can do to a request that would have succeeded as well.          *)
RenewFails ==
  /\ RenewalDue
  /\ agent' = AfterFailedRenewal
  /\ UNCHANGED <<now, serverVars, mishaps, adisk, enroll, pairs>>

\* Mutant of PersistRenewed: the renewed certificate is put beside the old key.
PersistRenewedWithoutKey ==
  /\ Persisting(agent)
  /\ adisk' = [adisk EXCEPT ![agent.pc] = IF agent.pc = "key" THEN @ ELSE agent.new[agent.pc]]
  /\ agent' = IF NextFile(agent.pc) = "persisted"
              THEN AgentOff
              ELSE [agent EXCEPT !.pc = NextFile(@)]
  /\ UNCHANGED <<now, serverVars, mishaps, enroll, pairs>>

\* Mutant of PersistRenewed: goes on with the new expiry and the old client.
PersistRenewedAndStays ==
  /\ Persisting(agent)
  /\ adisk' = [adisk EXCEPT ![agent.pc] = agent.new[agent.pc]]
  /\ agent' = IF NextFile(agent.pc) = "persisted"
              THEN [agent EXCEPT !.pc = "stream", !.since = now, !.new = NoNew,
                                  !.watched = adisk'.cert.until]
              ELSE [agent EXCEPT !.pc = NextFile(@)]
  /\ UNCHANGED <<now, serverVars, mishaps, enroll, pairs>>

(* After the last file the process leaves, to be started again. *)
PersistRenewed ==
  /\ Persisting(agent)
  /\ adisk' = [adisk EXCEPT ![agent.pc] = agent.new[agent.pc]]
  /\ agent' = IF NextFile(agent.pc) = "persisted"
              THEN AgentOff
              ELSE [agent EXCEPT !.pc = NextFile(@)]
  /\ UNCHANGED <<now, serverVars, mishaps, enroll, pairs>>

(* A write fails: renew_cert returns the error. *)
PersistFails ==
  /\ Persisting(agent)
  /\ agent' = AfterFailedRenewal
  /\ Mishap("agent cut", agent.pc \in {"key", "ca"})
  /\ UNCHANGED <<now, serverVars, adisk, enroll, pairs>>

(* The drain failed, or the stream ended. *)
StreamEnds ==
  /\ agent.pc = "stream"
  /\ agent' = [agent EXCEPT !.pc = "top"]
  /\ UNCHANGED <<now, serverVars, mishaps, adisk, enroll, pairs>>

AgentDies ==
  /\ agent.pc # "off"
  /\ agent' = AgentOff
  /\ Mishap("agent cut", agent.pc \in {"key", "ca"})
  /\ UNCHANGED <<now, serverVars, adisk, enroll, pairs>>

Tick ==
  /\ now < MaxNow
  /\ \A p \in Process : proc[p].pc \in {"off", "serving"}
  /\ enroll.pc \in {"off", "skipped"}
  /\ agent.pc \in {"off", "stream"}
  /\ now' = now + 1
  /\ UNCHANGED <<serverVars, mishaps, agentVars>>

Next ==
  \/ ServerNext /\ UNCHANGED agentVars
  \/ \E d \in Daemon : EnrollAnswered(d) \/ RenewAnswered(d)
  \/ EnrollSkips \/ EnrollStarts \/ PersistEnrolled \/ EnrollFails
  \/ ServeAgent \/ CertExpired \/ Connect \/ RenewFails
  \/ PersistRenewed \/ PersistFails \/ StreamEnds \/ AgentDies
  \/ Tick

Spec == Init /\ [][Next]_vars

-----------------------------------------------------------------------------
(* Types; a process has files left to write exactly while it writes, and a *)
(* client exactly then has new material (generateCA, generateServerCert,   *)
(* persist_enrolled_material).                                             *)
TypeOK ==
  /\ now \in 0 .. MaxNow
  /\ config \in SanList
  /\ DOMAIN disk = Files
  /\ made \in [ca : 0 .. MaxCa, pair : 0 .. MaxPairs, run : 0 .. MaxRuns]
  /\ \A p \in Process :
       /\ proc[p].pc \in {"off", "ca", "leaf", "write", "lock", "serving"}
       /\ proc[p].pc = "write" <=> proc[p].todo # <<>>
  /\ agent.pc \in {"off", "top", "stream", "cert", "key", "ca"}
  /\ enroll.pc \in {"off", "post", "cert", "key", "ca", "skipped"}
  /\ \A c \in {agent, enroll} : Persisting(c) <=> c.new # NoNew
  /\ adisk.cert \in {None} \cup Cert
  /\ pairs \in 0 .. MaxAgentPairs

Went(kinds) == mishaps \cap kinds # {}
ClientsIdle == ~Persisting(agent) /\ enroll.pc \in {"off", "skipped"}

(* What CA pinning is for: an agent whose three files are complete and     *)
(* whose CA is the one the running server loaded can connect, be           *)
(* authenticated and renew, through restarts, crashes, renewals on both    *)
(* sides and rotations of the server's certificate.  The exceptions: the   *)
(* server kept a certificate of a deleted CA, two processes generated the  *)
(* first CA at once, or the agent's files were written in part.            *)
EnrolledAgentIsServed ==
  \A d \in Daemon :
    (/\ Serving(d) /\ ClientsIdle
     /\ ~Went({"leaf outlived its CA", "ca raced", "agent cut", "enrolled beside the agent"})
     /\ \A f \in DOMAIN adisk : adisk[f] # None
     /\ adisk.ca = proc[d].caCert
     /\ now < adisk.cert.until /\ now < proc[d].cert.until
     /\ proc[d].cert.sans \in Covering)
    => /\ adisk.cert.pair = adisk.key
       /\ Handshake(d, adisk.cert, adisk.ca)
       /\ CanSign(d)

(* A certificate lies beside a key that is not its own, so that puck-mcp   *)
(* or puck-agent refuses every start (X509KeyPair, build_client), only     *)
(* where a writer was cut between its two files or two writers overlapped. *)
TornOnlyByMishap ==
  /\ (/\ \A p \in Process : ~Writing(p, LeafFiles)
      /\ tryLoad /\ disk["server.pem"].pair # disk["server-key.pem"])
     => Went({"leaf cut", "leaf raced"})
  /\ (/\ ClientsIdle
      /\ adisk.cert # None /\ adisk.key # None /\ adisk.cert.pair # adisk.key)
     => Went({"agent cut", "enrolled beside the agent"})

(* The identity of a running agent lapses only after a renewal failed, or  *)
(* in a stream that began before the window opened: whenever the loop      *)
(* comes round inside the window, it tries, and the expiry guard is not    *)
(* what it meets first.                                                    *)
LapseHasItsReason ==
  agent.pc # "off" /\ now >= agent.id.until =>
    agent.failed \/ agent.id.until - agent.since >= Window

(* The expiry the loop goes by is that of the identity it presents, unless *)
(* a failed renewal read the disk after the certificate there had changed. *)
WatchesItsOwnCertificate ==
  agent.pc # "off" /\ agent.watched # agent.id.until =>
    /\ agent.failed
    /\ Went({"agent cut", "enrolled beside the agent"})
=============================================================================
