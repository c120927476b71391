----------------------------- MODULE ServerCerts ------------------------------
(***************************************************************************)
(* The server's certificate authority and TLS certificate: four files,     *)
(* each replaced in one rename, and the processes that read and write      *)
(* them without a lock between them: puck-mcp starting                     *)
(* (main, EnsureCA, EnsureServerCert, then the instance lock) and          *)
(* puck-mcp rotate-server-cert, which changes the SAN list of the          *)
(* configuration first.  Any of them may die between two writes.           *)
(*                                                                         *)
(* A generation number stands for a CA's key pair, a number for a leaf's   *)
(* key pair.  The CA's ten years never pass here.                          *)
(***************************************************************************)
EXTENDS Integers, Sequences, FiniteSets

CONSTANTS
  Daemon,      \* puck-mcp processes that may be started
  Rotation,    \* runs of rotate-server-cert
  SanList,     \* the SAN lists an operator may configure
  None,
  Life,        \* lifetime of a certificate
  Window,      \* max(25% of the lifetime, 30 days)
  MaxNow,      \* bound: the last moment
  MaxRuns,     \* bound: runs of rotate-server-cert
  MaxCa,       \* bound: CAs generated
  MaxPairs,    \* bound: key pairs generated for the server's certificate
  MaxMishaps   \* bound: kinds of mishap in one behaviour

ASSUME ProcessAssumption == Daemon \cap Rotation = {}
ASSUME LifeAssumption == Life \in Nat /\ Window \in 1 .. Life

Leaf == [pair : Nat, ca : Nat, sans : SanList, until : Nat]

ASSUME NoneAssumption == None \notin Nat \cup Leaf
ASSUME BoundsAssumption ==
  MaxNow \in Nat /\ MaxRuns \in Nat /\ MaxCa \in Nat /\ MaxPairs \in Nat

VARIABLES
  now,
  config,      \* server_cert_sans in puck-mcp.yaml
  disk,        \* the four files
  proc,        \* the processes
  made,        \* CAs and key pairs generated, and rotations run, so far
  mishaps      \* what went wrong outside one process's control

serverVars == <<config, disk, proc, made>>

Process == Daemon \cup Rotation
CaFiles == {"ca.pem", "ca-key.pem"}
LeafFiles == {"server.pem", "server-key.pem"}
Files == CaFiles \cup LeafFiles

(* A process that is not running. *)
Ended == [pc |-> "off", sans |-> None, caCert |-> None, caKey |-> None,
          cert |-> None, key |-> None, todo |-> <<>>]

ServerInit ==
  /\ now = 0
  /\ config \in SanList
  /\ disk = [f \in Files |-> None]
  /\ proc = [p \in Process |-> Ended]
  /\ made = [ca |-> 0, pair |-> 0, run |-> 0]
  /\ mishaps = {}

-----------------------------------------------------------------------------
fileExists(f) == disk[f] # None

needsRenewal(cert) == cert.until - now < Window

(* p still has a file of F to write. *)
Writing(p, F) == \E i \in DOMAIN proc[p].todo : proc[p].todo[i].file \in F

Serving(d) == proc[d].pc = "serving"

Mishap(kind, happened) ==
  /\ mishaps' = IF happened THEN mishaps \cup {kind} ELSE mishaps
  /\ Cardinality(mishaps') <= MaxMishaps

Becomes(p, state) == proc' = [proc EXCEPT ![p] = state]

(* Both loaded halves are of one CA: CreateCertificate refuses otherwise. *)
CanSign(p) == proc[p].caCert = proc[p].caKey

StartDaemon(d) ==
  /\ proc[d].pc = "off"
  /\ Becomes(d, [Ended EXCEPT !.pc = "ca", !.sans = config])
  /\ UNCHANGED <<now, config, disk, made, mishaps>>

(* rotate-server-cert rewrites the configuration, then goes on; with the   *)
(* list it already has it says "No changes" and does nothing.              *)
Rotate(r, sans) ==
  /\ proc[r].pc = "off"
  /\ sans # config
  /\ made.run < MaxRuns
  /\ made' = [made EXCEPT !.run = @ + 1]
  /\ config' = sans
  /\ Becomes(r, [Ended EXCEPT !.pc = "ca", !.sans = sans])
  /\ UNCHANGED <<now, disk, mishaps>>

loadCA(p) ==
  /\ proc[p].pc = "ca"
  /\ \A f \in CaFiles : fileExists(f)
  /\ Becomes(p, [proc[p] EXCEPT !.pc = "leaf", !.caCert = disk["ca.pem"],
                                !.caKey = disk["ca-key.pem"]])
  /\ UNCHANGED <<now, config, disk, made, mishaps>>

HalfState == \E f \in CaFiles : fileExists(f) /\ \E g \in CaFiles : ~fileExists(g)

(* One half of the CA is missing: the process gives up. *)
EnsureCARefuses(p) ==
  /\ proc[p].pc = "ca"
  /\ HalfState
  /\ Becomes(p, Ended)
  /\ UNCHANGED <<now, config, disk, made, mishaps>>

(* Two processes that both found no CA each write one of their own. *)
generateCA(p) ==
  /\ proc[p].pc = "ca"
  /\ \A f \in CaFiles : ~fileExists(f)
  /\ made.ca < MaxCa
  /\ made' = [made EXCEPT !.ca = @ + 1]
  /\ Becomes(p, [proc[p] EXCEPT
       !.pc = "write", !.caCert = made'.ca, !.caKey = made'.ca,
       !.todo = << [file |-> "ca.pem", data |-> made'.ca],
                   [file |-> "ca-key.pem", data |-> made'.ca] >>])
  /\ Mishap("ca raced", \E q \in Process \ {p} : Writing(q, CaFiles))
  /\ UNCHANGED <<now, config, disk>>

EnsureCA(p) == loadCA(p) \/ EnsureCARefuses(p) \/ generateCA(p)

tryLoad == \A f \in LeafFiles : fileExists(f)

(* EnsureServerCert keeps what it finds, whoever signed it, whatever names *)
(* it carries, and without comparing the key with the certificate.  The    *)
(* rotation always generates.                                              *)
Keeps(p) == p \in Daemon /\ tryLoad /\ ~needsRenewal(disk["server.pem"])

KeepLeaf(d) ==
  /\ proc[d].pc = "leaf"
  /\ Keeps(d)
  /\ Becomes(d, [proc[d] EXCEPT !.pc = "lock", !.sans = None,
                                !.cert = disk["server.pem"],
                                !.key = disk["server-key.pem"]])
  /\ UNCHANGED <<now, config, disk, made, mishaps>>

\* Mutant of generateServerCert: the leaf is signed as the CA is, by itself.
SelfSignedLeaf(p) ==
  /\ proc[p].pc = "leaf"
  /\ ~Keeps(p)
  /\ CanSign(p)
  /\ made.pair < MaxPairs
  /\ made' = [made EXCEPT !.pair = @ + 1]
  /\ Becomes(p, [proc[p] EXCEPT
       !.pc = "write",
       !.todo = << [file |-> "server.pem",
                    data |-> [pair |-> made'.pair, ca |-> None,
                              sans |-> proc[p].sans, until |-> now + Life]],
                   [file |-> "server-key.pem", data |-> made'.pair] >>])
  /\ Mishap("leaf raced", \E q \in Process \ {p} : Writing(q, LeafFiles))
  /\ UNCHANGED <<now, config, disk>>

generateServerCert(p) ==
  /\ proc[p].pc = "leaf"
  /\ ~Keeps(p)
  /\ CanSign(p)
  /\ made.pair < MaxPairs
  /\ made' = [made EXCEPT !.pair = @ + 1]
  /\ Becomes(p, [proc[p] EXCEPT
       !.pc = "write",
       !.todo = << [file |-> "server.pem",
                    data |-> [pair |-> made'.pair, ca |-> proc[p].caCert,
                              sans |-> proc[p].sans, until |-> now + Life]],
                   [file |-> "server-key.pem", data |-> made'.pair] >>])
  /\ Mishap("leaf raced", \E q \in Process \ {p} : Writing(q, LeafFiles))
  /\ UNCHANGED <<now, config, disk>>

CreateCertificateFails(p) ==
  /\ proc[p].pc = "leaf"
  /\ ~Keeps(p)
  /\ ~CanSign(p)
  /\ Becomes(p, Ended)
  /\ UNCHANGED <<now, config, disk, made, mishaps>>

\* Mutant of Written: returns before the CA's key is written.
WrittenWithoutKey(p, file, files) ==
  CASE file = "server.pem" -> [proc[p] EXCEPT !.todo = Tail(@)]
    [] file \in CaFiles -> [proc[p] EXCEPT !.pc = "leaf"]
    [] file = "server-key.pem" ->
         IF p \in Daemon
         THEN [proc[p] EXCEPT !.pc = "lock", !.todo = <<>>, !.sans = None,
                 !.cert = files["server.pem"], !.key = files["server-key.pem"]]
         ELSE Ended

(* After the CA's key comes the leaf; after the leaf's key the daemon      *)
(* reads both files again and the rotation is done.                        *)
Written(p, file, files) ==
  CASE file \in {"ca.pem", "server.pem"} ->
         [proc[p] EXCEPT !.todo = Tail(@)]
    [] file = "ca-key.pem" ->
         [proc[p] EXCEPT !.pc = "leaf", !.todo = <<>>]
    [] file = "server-key.pem" ->
         IF p \in Daemon
         THEN [proc[p] EXCEPT !.pc = "lock", !.todo = <<>>, !.sans = None,
                 !.cert = files["server.pem"], !.key = files["server-key.pem"]]
         ELSE Ended

(* writePEM, as one step: the temporary file and the rename over the old.  *)
writePEM(p) ==
  LET file == Head(proc[p].todo).file IN
  /\ proc[p].pc = "write"
  /\ disk' = [disk EXCEPT ![file] = Head(proc[p].todo).data]
  /\ Becomes(p, Written(p, file, disk'))
  /\ UNCHANGED <<now, config, made, mishaps>>

InstanceLockFree == \A e \in Daemon : ~Serving(e)

(* AcquireInstanceLock, X509KeyPair, and the listener is up. *)
Serve(d) ==
  /\ proc[d].pc = "lock"
  /\ InstanceLockFree
  /\ proc[d].cert.pair = proc[d].key
  /\ Becomes(d, [proc[d] EXCEPT !.pc = "serving", !.key = None])
  /\ UNCHANGED <<now, config, disk, made, mishaps>>

ServeRefused(d) ==
  /\ proc[d].pc = "lock"
  /\ InstanceLockFree => proc[d].cert.pair # proc[d].key
  /\ Becomes(d, Ended)
  /\ UNCHANGED <<now, config, disk, made, mishaps>>

(* A process is stopped, killed, or leaves after a failed write; between   *)
(* the renames of a leaf's two files that tears the pair.                  *)
Dies(p) ==
  /\ proc[p].pc # "off"
  /\ Becomes(p, Ended)
  /\ Mishap("leaf cut", ~Writing(p, {"server.pem"}) /\ Writing(p, {"server-key.pem"}))
  /\ UNCHANGED <<now, config, disk, made>>

Stopped == \A p \in Process : proc[p].pc = "off"

Remove(files) == disk' = [f \in Files |-> IF f \in files THEN None ELSE disk[f]]

(* The operator loses a half of the CA, or deletes the half that is left,  *)
(* as EnsureCA's message tells them to: the leaf stays.                    *)
LoseCaHalf(f) ==
  /\ Stopped
  /\ made.ca < MaxCa
  /\ f \in CaFiles /\ fileExists(f)
  /\ Remove({f})
  /\ Mishap("leaf outlived its CA", \E l \in LeafFiles : fileExists(l))
  /\ UNCHANGED <<now, config, proc, made>>

(* The runbook for a new CA deletes the four files. *)
RotateCA ==
  /\ Stopped
  /\ made.ca < MaxCa
  /\ \E f \in CaFiles : fileExists(f)
  /\ Remove(Files)
  /\ UNCHANGED <<now, config, proc, made, mishaps>>

ServerNext ==
  \/ \E d \in Daemon : StartDaemon(d) \/ KeepLeaf(d) \/ Serve(d) \/ ServeRefused(d)
  \/ \E r \in Rotation, sans \in SanList : Rotate(r, sans)
  \/ \E p \in Process :
       \/ EnsureCA(p)
       \/ generateServerCert(p) \/ CreateCertificateFails(p)
       \/ writePEM(p) \/ Dies(p)
  \/ \E f \in CaFiles : LoseCaHalf(f)
  \/ RotateCA
==============================================================================
