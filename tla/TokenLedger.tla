------------------------------ MODULE TokenLedger ------------------------------
(***************************************************************************)
(* The bootstrap-token ledger of puck-mcp (mcp/internal/pki/bootstrap.go)  *)
(* and the three that use it: the enrolment handler of the daemon          *)
(* (mcp/internal/server/enroll.go), the generate-bootstrap-token command,  *)
(* and the puck_enroll_instructions tool when it mints a token.  status    *)
(* and doctor only open and read the ledger, as an issuer here may.        *)
(*                                                                         *)
(* The ledger is one file, replaced as a whole by a rename.  Each user has *)
(* a TokenLedger object of its own: its mutex serialises the operations of *)
(* that object, and nothing else.  Between objects, in one process or in   *)
(* several, there is the file lock, which readAll and writeAll take and    *)
(* release separately.  So an operation is a read, a locked write of the   *)
(* temporary file, and a rename, and a crash may come between them.        *)
(*                                                                         *)
(* A record never changes except to become spent, so the file is a         *)
(* function from tokens to what it says of them; hostname and expiry are   *)
(* kept beside it.  Reading may also fail (unreadable file, corrupt line); *)
(* the operation then ends with an error and no change.                    *)
(***************************************************************************)
EXTENDS FiniteSets

CONSTANTS Tokens,     \* bootstrap tokens, fresh random values
          Hosts,      \* hostnames
          Reqs,       \* requests to POST /v1/enroll
          Daemon,     \* the ledger object of the enrolment handler
          Issuers,    \* those of the command line and of the minting tool
          Processes,  \* which objects live in one operating-system process
          NoHost, NoHandle, NoJob, NoToken

Handles == Issuers \union {Daemon}

ASSUME LedgerAssumption ==
  /\ Daemon \notin Issuers
  /\ Processes \subseteq SUBSET Handles
  /\ NoHost \notin Hosts /\ NoHandle \notin Handles /\ NoToken \notin Tokens
  /\ NoJob \notin Tokens \union Reqs /\ Tokens \intersect Reqs = {}

VARIABLES
  ledger,   \* what the file says of each token
  tmp,      \* does the temporary file exist
  flock,    \* the object whose writeAll holds the lock file, or NoHandle
  pc,       \* each object: closed, idle, or inside its critical section
  copy,     \* the records its operation has read, and is going to write
  job,      \* the token it issues or the request it serves
  bound,    \* tokenRecord.Hostname, NoHost until issued
  expired,  \* tokens past tokenRecord.ExpiresAt
  known,    \* tokens whose Issue returned them to the operator
  req,      \* each request: its control state, token and hostname
  lost      \* tokens whose record a write has taken back (history)

fileVars  == <<ledger, tmp, lost>>
lockVars  == <<flock, pc, copy, job>>
tokenVars == <<bound, expired, known>>
vars == <<fileVars, lockVars, tokenVars, req>>

Records == [Tokens -> {"absent", "unspent", "spent"}]
Empty   == [t \in Tokens |-> "absent"]

\* The states of a request that has consumed its token.
Consumed == {"spent", "issued", "failed"}

TypeOK ==
  /\ ledger \in Records
  /\ tmp \in BOOLEAN
  /\ flock \in Handles \union {NoHandle}
  /\ pc   \in [Handles -> {"closed", "idle", "read", "writing"}]
  /\ copy \in [Handles -> Records]
  /\ job  \in [Handles -> Tokens \union Reqs \union {NoJob}]
  /\ bound \in [Tokens -> Hosts \union {NoHost}]
  /\ expired \subseteq Tokens
  /\ known \subseteq Tokens
  /\ lost \subseteq Tokens
  /\ req \in [Reqs -> [pc : {"none", "arrived", "spending", "refused"} \union Consumed,
                       tok : Tokens \union {NoToken}, host : Hosts \union {NoHost}]]
  \* The lock file is held exactly by the object that is writing.
  /\ \A h \in Handles : flock = h <=> pc[h] = "writing"

Init ==
  /\ ledger = Empty /\ tmp = FALSE /\ lost = {}
  /\ flock = NoHandle
  /\ pc   = [h \in Handles |-> "closed"]
  /\ copy = [h \in Handles |-> Empty]
  /\ job  = [h \in Handles |-> NoJob]
  /\ bound = [t \in Tokens |-> NoHost] /\ expired = {} /\ known = {}
  /\ req  = [r \in Reqs |-> [pc |-> "none", tok |-> NoToken, host |-> NoHost]]

-----------------------------------------------------------------------------
(* OpenTokenLedger, at the start of a daemon, a command or a minting call: *)
(* the temporary file is removed, without the lock.                        *)

Open(h) ==
  /\ pc[h] = "closed"
  /\ pc'  = [pc EXCEPT ![h] = "idle"]
  /\ tmp' = FALSE
  /\ UNCHANGED <<ledger, lost, flock, copy, job, tokenVars, req>>

\* The command ends, or the tool call returns.
Close(h) ==
  /\ h \in Issuers /\ pc[h] = "idle"
  /\ pc' = [pc EXCEPT ![h] = "closed"]
  /\ UNCHANGED <<fileVars, flock, copy, job, tokenVars, req>>

-----------------------------------------------------------------------------
(* The read half of an operation.  readAll holds the lock file shared, so  *)
(* it waits for a writer; the object's mutex is held from here to the end. *)

Reads(h, j, records) ==
  /\ pc[h] = "idle" /\ flock = NoHandle
  /\ pc'   = [pc EXCEPT ![h] = "read"]
  /\ job'  = [job EXCEPT ![h] = j]
  /\ copy' = [copy EXCEPT ![h] = records]
  /\ UNCHANGED <<fileVars, flock>>

\* Issue: a fresh token, bound to the hostname, is appended to what was read.
IssueRead(h, t, host) ==
  /\ h \in Issuers /\ bound[t] = NoHost
  /\ bound' = [bound EXCEPT ![t] = host]
  /\ Reads(h, t, [ledger EXCEPT ![t] = "unspent"])
  /\ UNCHANGED <<expired, known, req>>

\* A request with a well-formed token and a valid CSR reaches the handler.
Arrive(r, t, host) ==
  /\ req[r].pc = "none" /\ pc[Daemon] # "closed" /\ bound[t] # NoHost
  /\ req' = [req EXCEPT ![r] = [pc |-> "arrived", tok |-> t, host |-> host]]
  /\ UNCHANGED <<fileVars, lockVars, tokenVars>>

\* Mutant of Acceptable: spent_at is not looked at.
AcceptableAlthoughSpent(t, host) ==
  ledger[t] # "absent" /\ t \notin expired /\ bound[t] = host

Acceptable(t, host) == ledger[t] = "unspent" /\ t \notin expired /\ bound[t] = host

\* ValidateAndSpend up to writeAll.
Validate(r) ==
  /\ req[r].pc = "arrived"
  /\ Acceptable(req[r].tok, req[r].host)
  /\ req' = [req EXCEPT ![r].pc = "spending"]
  /\ Reads(Daemon, r, [ledger EXCEPT ![req[r].tok] = "spent"])
  /\ UNCHANGED tokenVars

\* The ledger rejects the token, or cannot be read.
Refuse(r, readable) ==
  /\ req[r].pc = "arrived" /\ pc[Daemon] = "idle"
  /\ readable => flock = NoHandle /\ ~Acceptable(req[r].tok, req[r].host)
  /\ req' = [req EXCEPT ![r].pc = "refused"]
  /\ UNCHANGED <<fileVars, lockVars, tokenVars>>

-----------------------------------------------------------------------------
(* writeAll: under the exclusive lock the temporary file is written and    *)
(* synced, then renamed over the ledger.                                   *)

Lock(h) ==
  /\ pc[h] = "read" /\ flock = NoHandle
  /\ flock' = h
  /\ pc'  = [pc EXCEPT ![h] = "writing"]
  /\ tmp' = TRUE
  /\ UNCHANGED <<ledger, lost, copy, job, tokenVars, req>>

\* The operation ends: locks are released, and its caller goes on as given.
Ends(h, reqPc) ==
  /\ pc'   = [pc EXCEPT ![h] = "idle"]
  /\ job'  = [job EXCEPT ![h] = NoJob]
  /\ copy' = [copy EXCEPT ![h] = Empty]
  /\ req'  = IF job[h] \in Reqs THEN [req EXCEPT ![job[h]].pc = reqPc] ELSE req

\* Mutant of Fails: the lock file stays locked on the error path.
FailsLocked(h) ==
  /\ pc[h] \in {"read", "writing"}
  /\ Ends(h, "refused")
  /\ UNCHANGED <<fileVars, flock, tokenVars>>

\* Mutant of Fails: ValidateAndSpend drops the error of writeAll.
FailsUnnoticed(h) ==
  /\ pc[h] \in {"read", "writing"}
  /\ flock' = IF flock = h THEN NoHandle ELSE flock
  /\ Ends(h, "spent")
  /\ UNCHANGED <<fileVars, tokenVars>>

\* Locking, writing, syncing or renaming fails; the rename does when another
\* object's Open has removed the temporary file.
Fails(h) ==
  /\ pc[h] \in {"read", "writing"}
  /\ flock' = IF flock = h THEN NoHandle ELSE flock
  /\ Ends(h, "refused")
  /\ UNCHANGED <<fileVars, tokenVars>>

\* What a write takes back: a token that was spent, or was there at all.
TakenBack(h) ==
  {t \in Tokens : \/ ledger[t] = "spent" /\ copy[h][t] # "spent"
                  \/ ledger[t] # "absent" /\ copy[h][t] = "absent"}

\* Mutant of Rename: an error after the rename is reported as a refusal.
RenameThenRefuse(h) ==
  /\ pc[h] = "writing" /\ tmp
  /\ ledger' = copy[h]
  /\ lost'   = lost \union TakenBack(h)
  /\ tmp'    = FALSE
  /\ flock'  = NoHandle
  /\ known'  = IF job[h] \in Tokens THEN known \union {job[h]} ELSE known
  /\ Ends(h, "refused")
  /\ UNCHANGED <<bound, expired>>

Rename(h) ==
  /\ pc[h] = "writing" /\ tmp
  /\ ledger' = copy[h]
  /\ lost'   = lost \union TakenBack(h)
  /\ tmp'    = FALSE
  /\ flock'  = NoHandle
  /\ known'  = IF job[h] \in Tokens THEN known \union {job[h]} ELSE known
  /\ Ends(h, "spent")
  /\ UNCHANGED <<bound, expired>>

-----------------------------------------------------------------------------
(* The handler, with the token spent on disk: SignAgentCert succeeds, or   *)
(* fails and the token is gone; both are audited.                          *)

Sign(r) ==
  /\ req[r].pc = "spent"
  /\ \E ok \in BOOLEAN :
       req' = [req EXCEPT ![r].pc = IF ok THEN "issued" ELSE "failed"]
  /\ UNCHANGED <<fileVars, lockVars, tokenVars>>

\* Time passes.
Expire(t) ==
  /\ bound[t] # NoHost
  /\ expired' = expired \union {t}
  /\ UNCHANGED <<fileVars, lockVars, bound, known, req>>

\* A process dies, or is stopped: its objects and locks go, its files stay.
Cut(pcNow) == IF pcNow \in {"arrived", "spending"} THEN "refused"
              ELSE IF pcNow = "spent" THEN "failed" ELSE pcNow

Crash(p) ==
  /\ pc'    = [h \in Handles |-> IF h \in p THEN "closed" ELSE pc[h]]
  /\ job'   = [h \in Handles |-> IF h \in p THEN NoJob ELSE job[h]]
  /\ copy'  = [h \in Handles |-> IF h \in p THEN Empty ELSE copy[h]]
  /\ flock' = IF flock \in p THEN NoHandle ELSE flock
  /\ req'   = IF Daemon \in p
                THEN [r \in Reqs |-> [req[r] EXCEPT !.pc = Cut(req[r].pc)]] ELSE req
  /\ UNCHANGED <<fileVars, tokenVars>>

-----------------------------------------------------------------------------
Operation(h) == Lock(h) \/ Fails(h) \/ Rename(h)
Enrolment(r) == Validate(r) \/ (\E readable \in BOOLEAN : Refuse(r, readable)) \/ Sign(r)

Next ==
  \/ \E h \in Handles : Open(h) \/ Close(h) \/ Operation(h)
  \/ \E h \in Handles, t \in Tokens, host \in Hosts : IssueRead(h, t, host)
  \/ \E r \in Reqs, t \in Tokens, host \in Hosts : Arrive(r, t, host)
  \/ \E r \in Reqs : Enrolment(r)
  \/ \E t \in Tokens : Expire(t)
  \/ \E p \in Processes : Crash(p)

Spec == Init /\ [][Next]_vars

\* Goroutines and commands run on, and an operation that has the lock ends.
\* No error is assumed that would cut short a wait for the mutex or the lock.
FairSpec ==
  /\ Spec
  /\ \A h \in Handles : WF_vars(Lock(h))
                       /\ WF_vars(pc[h] = "writing" /\ (Fails(h) \/ Rename(h)))
  /\ \A r \in Reqs : WF_vars(Validate(r) \/ Refuse(r, TRUE)) /\ WF_vars(Sign(r))

-----------------------------------------------------------------------------
(* Safety.                                                                 *)

\* Every token that was consumed was consumed for the hostname it is bound to
\* (enrolment is refused before the token is touched otherwise).
SpentForBoundHost ==
  \A r \in Reqs : req[r].pc \in Consumed => bound[req[r].tok] = req[r].host

\* A token is consumed by one request, unless a write by another ledger object
\* took its record back: within one object "only the first caller succeeds".
SpentOnceUnlessTakenBack ==
  \A r, s \in Reqs :
    req[r].pc \in Consumed /\ req[s].pc \in Consumed /\ req[r].tok = req[s].tok
      => r = s \/ req[r].tok \in lost

\* "On success, the token is already marked spent on disk before this returns";
\* a token returned to the operator is in the ledger.  Neither is forgotten by a
\* failed write or a crash, only by a write from a stale copy.
LedgerRemembers ==
  /\ \A r \in Reqs : req[r].pc \in Consumed =>
       ledger[req[r].tok] = "spent" \/ req[r].tok \in lost
  /\ \A t \in known : ledger[t] # "absent" \/ t \in lost

\* Some request has consumed the token.
SpentFor(t) == \E r \in Reqs : req[r].tok = t /\ req[r].pc \in Consumed

\* A token is never spent for nobody: an enrolment that is refused, or stopped at any
\* step before its rename, leaves its token usable.  (One stopped after it has consumed
\* the token, with or without a certificate.)
NoPhantomSpend == \A t \in Tokens : ledger[t] = "spent" => SpentFor(t)

\* "With ValidateAndSpend, only the first caller succeeds; the second receives
\* ErrTokenSpent": one token never gives two certificates.
TokenUsedOnce ==
  \A r, s \in Reqs :
    req[r].pc = "issued" /\ req[s].pc = "issued" /\ req[r].tok = req[s].tok => r = s

-----------------------------------------------------------------------------
(* The inductive strengthening behind the safety properties.               *)

\* The mutex: the daemon's operation serves the one request that is spending,
\* its copy has that request's token spent, and otherwise a copy says spent of
\* consumed tokens only.
OperationInv ==
  \A h \in Handles :
    /\ pc[h] \in {"read", "writing"} <=> job[h] # NoJob
    /\ job[h] \in Tokens => copy[h][job[h]] # "absent"
    /\ job[h] \in Reqs => /\ h = Daemon /\ req[job[h]].pc = "spending"
                         /\ copy[h][req[job[h]].tok] = "spent"
    /\ \A t \in Tokens : copy[h][t] = "spent" =>
         SpentFor(t) \/ (job[h] \in Reqs /\ req[job[h]].tok = t)

\* Of the requests for one token only one gets past the check, unless a write
\* took the record back.
Claims(r, t) == req[r].tok = t /\ req[r].pc \in Consumed \union {"spending"}

RequestInv ==
  \A r \in Reqs :
    /\ req[r].pc # "none" => req[r].tok \in Tokens /\ req[r].host \in Hosts
    /\ req[r].pc = "spending" => job[Daemon] = r
    /\ \A t \in Tokens : Claims(r, t) =>
         /\ bound[t] = req[r].host
         /\ \A s \in Reqs : Claims(s, t) => s = r \/ t \in lost

LedgerInv == OperationInv /\ RequestInv /\ LedgerRemembers /\ NoPhantomSpend

-----------------------------------------------------------------------------
(* Liveness.                                                               *)

\* Every enrolment request is answered, or cut off with its process: mutex and
\* file lock never block each other, on error paths and after crashes included.
EnrolmentEnds ==
  \A r \in Reqs : req[r].pc = "arrived" ~> req[r].pc \in {"refused", "issued", "failed"}
=============================================================================
