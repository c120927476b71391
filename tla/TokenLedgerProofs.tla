--------------------------- MODULE TokenLedgerProofs ---------------------------
(***************************************************************************)
(* Proofs about the bootstrap-token ledger, for any number of tokens,      *)
(* hostnames, requests, ledger objects and processes.  The argument has    *)
(* two parts: the types, with the lock file held exactly by the object     *)
(* that is writing; and LedgerInv, in which the mutex of the daemon's      *)
(* object ties its copy of the records to the one request it serves.       *)
(***************************************************************************)
EXTENDS TokenLedger, TLAPS

-----------------------------------------------------------------------------
(* Types.                                                                  *)

USE DEF Handles, Records, Empty, Consumed

LEMMA InitType == Init => TypeOK
  <1> SUFFICES ASSUME Init PROVE TypeOK
    OBVIOUS
  <1>1. \A h \in Handles : flock = h <=> pc[h] = "writing"
    BY LedgerAssumption DEF Init
  <1>2. QED
    BY <1>1 DEF Init, TypeOK

LEMMA ReadsType ==
  ASSUME TypeOK, NEW h \in Handles, NEW j \in Tokens \union Reqs, NEW records \in Records,
         Reads(h, j, records)
  PROVE  /\ pc' \in [Handles -> {"closed", "idle", "read", "writing"}]
         /\ job' \in [Handles -> Tokens \union Reqs \union {NoJob}]
         /\ copy' \in [Handles -> Records]
         /\ \A g \in Handles : flock' = g <=> pc'[g] = "writing"
         /\ ledger' = ledger /\ tmp' = tmp /\ lost' = lost /\ flock' = flock
  BY LedgerAssumption DEF TypeOK, Reads, fileVars

LEMMA EndsType ==
  ASSUME TypeOK, NEW h \in Handles, NEW p \in {"refused", "spent"}, Ends(h, p),
         flock' = IF flock = h THEN NoHandle ELSE flock
  PROVE  /\ pc' \in [Handles -> {"closed", "idle", "read", "writing"}]
         /\ job' \in [Handles -> Tokens \union Reqs \union {NoJob}]
         /\ copy' \in [Handles -> Records]
         /\ req' \in [Reqs -> [pc : {"none", "arrived", "spending", "refused"} \union Consumed,
                               tok : Tokens \union {NoToken}, host : Hosts \union {NoHost}]]
         /\ flock' \in Handles \union {NoHandle}
         /\ \A g \in Handles : flock' = g <=> pc'[g] = "writing"
  <1>1. req' \in [Reqs -> [pc : {"none", "arrived", "spending", "refused"} \union Consumed,
                           tok : Tokens \union {NoToken}, host : Hosts \union {NoHost}]]
    BY SMTT(20) DEF TypeOK, Ends
  <1>2. \A g \in Handles : flock' = g <=> pc'[g] = "writing"
    BY LedgerAssumption DEF TypeOK, Ends
  <1>3. QED
    BY <1>1, <1>2 DEF TypeOK, Ends

LEMMA NextType == TypeOK /\ [Next]_vars => TypeOK'
  <1> SUFFICES ASSUME TypeOK, [Next]_vars PROVE TypeOK'
    OBVIOUS
  <1>1. CASE UNCHANGED vars
    BY <1>1 DEF TypeOK, vars, fileVars, lockVars, tokenVars
  <1>2. ASSUME NEW h \in Handles, Open(h) PROVE TypeOK'
    BY <1>2 DEF TypeOK, Open, tokenVars
  <1>3. ASSUME NEW h \in Handles, Close(h) PROVE TypeOK'
    BY <1>3 DEF TypeOK, Close, fileVars, tokenVars
  <1>4. ASSUME NEW h \in Handles, Lock(h) PROVE TypeOK'
    <2>1. \A g \in Handles : flock' = g <=> pc'[g] = "writing"
      BY <1>4, LedgerAssumption DEF TypeOK, Lock
    <2>2. QED
      BY <1>4, <2>1 DEF TypeOK, Lock, tokenVars
  <1>5. ASSUME NEW h \in Handles, Fails(h) PROVE TypeOK'
    <2>1. Ends(h, "refused") /\ flock' = IF flock = h THEN NoHandle ELSE flock
      BY <1>5 DEF Fails
    <2>2. QED
      BY <1>5, <2>1, EndsType DEF TypeOK, Fails, fileVars, tokenVars
  <1>6. ASSUME NEW h \in Handles, Rename(h) PROVE TypeOK'
    <2>1. Ends(h, "spent") /\ flock' = IF flock = h THEN NoHandle ELSE flock
      BY <1>6 DEF Rename, TypeOK
    <2>2. known' \subseteq Tokens /\ lost' \subseteq Tokens /\ ledger' \in Records
      BY <1>6 DEF TypeOK, Rename, TakenBack
    <2>3. QED
      BY <1>6, <2>1, <2>2, EndsType DEF TypeOK, Rename
  <1>7. ASSUME NEW h \in Handles, NEW t \in Tokens, NEW host \in Hosts, IssueRead(h, t, host)
        PROVE TypeOK'
    <2>1. [ledger EXCEPT ![t] = "unspent"] \in Records
      BY DEF TypeOK
    <2>2. Reads(h, t, [ledger EXCEPT ![t] = "unspent"])
      BY <1>7 DEF IssueRead
    <2>3. QED
      BY <1>7, <2>1, <2>2, ReadsType DEF TypeOK, IssueRead
  <1>8. ASSUME NEW r \in Reqs, NEW t \in Tokens, NEW host \in Hosts, Arrive(r, t, host)
        PROVE TypeOK'
    BY <1>8 DEF TypeOK, Arrive, fileVars, lockVars, tokenVars
  <1>9. ASSUME NEW r \in Reqs, Validate(r) PROVE TypeOK'
    <2>1. Daemon \in Handles /\ [ledger EXCEPT ![req[r].tok] = "spent"] \in Records
      BY DEF TypeOK
    <2>2. Reads(Daemon, r, [ledger EXCEPT ![req[r].tok] = "spent"])
      BY <1>9 DEF Validate
    <2>3. req' \in [Reqs -> [pc : {"none", "arrived", "spending", "refused"} \union Consumed,
                             tok : Tokens \union {NoToken}, host : Hosts \union {NoHost}]]
      BY <1>9 DEF TypeOK, Validate
    <2>4. QED
      BY <1>9, <2>1, <2>2, <2>3, ReadsType DEF TypeOK, Validate, tokenVars
  <1>10. ASSUME NEW r \in Reqs, NEW b \in BOOLEAN, Refuse(r, b) PROVE TypeOK'
    BY <1>10 DEF TypeOK, Refuse, fileVars, lockVars, tokenVars
  <1>11. ASSUME NEW r \in Reqs, Sign(r) PROVE TypeOK'
    BY <1>11 DEF TypeOK, Sign, fileVars, lockVars, tokenVars
  <1>12. ASSUME NEW t \in Tokens, Expire(t) PROVE TypeOK'
    BY <1>12 DEF TypeOK, Expire, fileVars, lockVars
  <1>13. ASSUME NEW p \in Processes, Crash(p) PROVE TypeOK'
    <2>1. req' \in [Reqs -> [pc : {"none", "arrived", "spending", "refused"} \union Consumed,
                             tok : Tokens \union {NoToken}, host : Hosts \union {NoHost}]]
      <3>1. CASE Daemon \in p
        <4>1. ASSUME NEW r \in Reqs
              PROVE  [req[r] EXCEPT !.pc = Cut(req[r].pc)]
                       \in [pc : {"none", "arrived", "spending", "refused"} \union Consumed,
                           tok : Tokens \union {NoToken}, host : Hosts \union {NoHost}]
          BY DEF TypeOK, Cut
        <4>2. QED
          BY <1>13, <3>1, <4>1 DEF Crash
      <3>2. CASE Daemon \notin p
        BY <1>13, <3>2 DEF TypeOK, Crash
      <3>3. QED
        BY <3>1, <3>2
    <2>2. \A g \in Handles : flock' = g <=> pc'[g] = "writing"
      BY <1>13, LedgerAssumption DEF TypeOK, Crash
    <2>3. QED
      BY <1>13, <2>1, <2>2 DEF TypeOK, Crash, fileVars, tokenVars
  <1>14. QED
    BY <1>1, <1>2, <1>3, <1>4, <1>5, <1>6, <1>7, <1>8, <1>9, <1>10, <1>11, <1>12, <1>13
       DEF Next, Operation, Enrolment

\* Every reachable state is well typed, and the lock file of the ledger is held
\* exactly by the object inside writeAll: error paths and crashes release it.
THEOREM TypeCorrect == Spec => []TypeOK
  BY InitType, NextType, PTL DEF Spec

-----------------------------------------------------------------------------
(* The ledger and the requests.                                            *)

LEMMA InitLedger == Init => LedgerInv
  BY LedgerAssumption DEF Init, LedgerInv, OperationInv, RequestInv, LedgerRemembers,
     NoPhantomSpend, SpentFor, Claims

\* A step that leaves the requests, the ledger and the copies alone.
LEMMA QuietStep ==
  ASSUME TypeOK, LedgerInv, UNCHANGED <<ledger, lost, copy, job, bound, known, req>>,
         \A h \in Handles : pc'[h] \in {"read", "writing"} <=> pc[h] \in {"read", "writing"}
  PROVE  LedgerInv'
  <1>1. OperationInv'
    BY DEF LedgerInv, OperationInv, SpentFor
  <1>2. RequestInv'
    BY DEF LedgerInv, RequestInv, Claims
  <1>3. LedgerRemembers' /\ NoPhantomSpend'
    BY DEF LedgerInv, LedgerRemembers, NoPhantomSpend, SpentFor
  <1>4. QED
    BY <1>1, <1>2, <1>3 DEF LedgerInv

LEMMA IssueLedger ==
  ASSUME TypeOK, LedgerInv, NEW h \in Handles, NEW t \in Tokens, NEW host \in Hosts,
         IssueRead(h, t, host)
  PROVE  LedgerInv'
  <1>1. OperationInv'
    <2> SUFFICES ASSUME NEW g \in Handles
        PROVE /\ pc'[g] \in {"read", "writing"} <=> job'[g] # NoJob
              /\ job'[g] \in Tokens => copy'[g][job'[g]] # "absent"
              /\ job'[g] \in Reqs => /\ g = Daemon /\ req'[job'[g]].pc = "spending"
                                    /\ copy'[g][req'[job'[g]].tok] = "spent"
              /\ \A u \in Tokens : copy'[g][u] = "spent" =>
                   SpentFor(u)' \/ (job'[g] \in Reqs /\ req'[job'[g]].tok = u)
      BY DEF OperationInv
    <2>1. req' = req /\ \A u \in Tokens : SpentFor(u)' <=> SpentFor(u)
      BY DEF IssueRead, SpentFor
    <2>2. CASE g = h
      BY <2>1, <2>2, LedgerAssumption
         DEF TypeOK, LedgerInv, NoPhantomSpend, IssueRead, Reads
    <2>3. CASE g # h
      BY <2>1, <2>3 DEF TypeOK, LedgerInv, OperationInv, IssueRead, Reads
    <2>4. QED
      BY <2>2, <2>3
  <1>2. RequestInv'
    <2>1. \A r \in Reqs : req[r].pc = "spending" => job'[Daemon] = r
      BY LedgerAssumption DEF TypeOK, LedgerInv, OperationInv, RequestInv, IssueRead, Reads
    <2>2. \A r \in Reqs, u \in Tokens : Claims(r, u) => bound'[u] = req[r].host
      BY LedgerAssumption DEF TypeOK, LedgerInv, RequestInv, IssueRead, Claims
    <2>3. QED
      BY <2>1, <2>2 DEF LedgerInv, RequestInv, Claims, IssueRead, Reads, fileVars
  <1>3. LedgerRemembers' /\ NoPhantomSpend'
    BY DEF LedgerInv, LedgerRemembers, NoPhantomSpend, SpentFor, IssueRead, Reads, fileVars
  <1>4. QED
    BY <1>1, <1>2, <1>3 DEF LedgerInv

LEMMA ArriveLedger ==
  ASSUME TypeOK, LedgerInv, NEW r \in Reqs, NEW t \in Tokens, NEW host \in Hosts,
         Arrive(r, t, host)
  PROVE  LedgerInv'
  <1>1. /\ \A s \in Reqs : s # r => req'[s] = req[s]
        /\ req'[r] = [pc |-> "arrived", tok |-> t, host |-> host]
        /\ req[r].pc = "none"
        /\ UNCHANGED <<ledger, lost, pc, job, copy, bound, known>>
    BY DEF TypeOK, Arrive, fileVars, lockVars, tokenVars
  <1>2. \A s \in Reqs, u \in Tokens : Claims(s, u)' <=> Claims(s, u)
    BY <1>1 DEF Claims
  <1>3. \A u \in Tokens : SpentFor(u)' <=> SpentFor(u)
    BY <1>1 DEF SpentFor
  <1>4. OperationInv'
    BY <1>1, <1>3 DEF LedgerInv, OperationInv
  <1>5. RequestInv'
    BY <1>1, <1>2 DEF LedgerInv, RequestInv, Claims
  <1>6. LedgerRemembers' /\ NoPhantomSpend'
    BY <1>1, <1>3 DEF LedgerInv, LedgerRemembers, NoPhantomSpend
  <1>7. QED
    BY <1>4, <1>5, <1>6 DEF LedgerInv

LEMMA ValidateLedger ==
  ASSUME TypeOK, LedgerInv, NEW r \in Reqs, Validate(r)
  PROVE  LedgerInv'
  <1> DEFINE tok == req[r].tok
  <1>1. /\ \A s \in Reqs : /\ req'[s].tok = req[s].tok /\ req'[s].host = req[s].host
                           /\ s # r => req'[s].pc = req[s].pc
        /\ req'[r].pc = "spending"
        /\ req[r].pc = "arrived" /\ tok \in Tokens
        /\ ledger[tok] = "unspent" /\ bound[tok] = req[r].host
        /\ UNCHANGED <<ledger, lost, bound, known>>
    BY DEF TypeOK, Validate, Acceptable, Reads, fileVars, tokenVars, LedgerInv, RequestInv
  <1>2. /\ pc[Daemon] = "idle" /\ pc'[Daemon] = "read" /\ job'[Daemon] = r
        /\ copy'[Daemon] = [ledger EXCEPT ![tok] = "spent"]
        /\ job[Daemon] = NoJob
        /\ \A g \in Handles : g # Daemon =>
             pc'[g] = pc[g] /\ job'[g] = job[g] /\ copy'[g] = copy[g]
    BY DEF TypeOK, Validate, Reads, LedgerInv, OperationInv
  <1>3. \A u \in Tokens : SpentFor(u)' <=> SpentFor(u)
    BY <1>1 DEF SpentFor
  <1>4. OperationInv'
    <2> SUFFICES ASSUME NEW g \in Handles
        PROVE /\ pc'[g] \in {"read", "writing"} <=> job'[g] # NoJob
              /\ job'[g] \in Tokens => copy'[g][job'[g]] # "absent"
              /\ job'[g] \in Reqs => /\ g = Daemon /\ req'[job'[g]].pc = "spending"
                                    /\ copy'[g][req'[job'[g]].tok] = "spent"
              /\ \A u \in Tokens : copy'[g][u] = "spent" =>
                   SpentFor(u)' \/ (job'[g] \in Reqs /\ req'[job'[g]].tok = u)
      BY DEF OperationInv
    <2>1. CASE g = Daemon
      <3>1. r # NoJob /\ r \notin Tokens
        BY LedgerAssumption
      <3>2. copy'[Daemon][tok] = "spent"
        BY <1>1, <1>2 DEF TypeOK
      <3>3. \A u \in Tokens : copy'[Daemon][u] = "spent" => u = tok \/ ledger[u] = "spent"
        BY <1>1, <1>2 DEF TypeOK
      <3>4. \A u \in Tokens : copy'[Daemon][u] = "spent" => u = tok \/ SpentFor(u)'
        BY <1>3, <3>3 DEF LedgerInv, NoPhantomSpend
      <3>5. QED
        BY <1>1, <1>2, <2>1, <3>1, <3>2, <3>4
    <2>2. CASE g # Daemon
      BY <1>1, <1>2, <1>3, <2>2 DEF LedgerInv, OperationInv
    <2>3. QED
      BY <2>1, <2>2
  <1>5. RequestInv'
    <2>1. \A s \in Reqs : s # r => req[s].pc # "spending"
      BY <1>2, LedgerAssumption DEF LedgerInv, RequestInv
    <2>2. \A s \in Reqs : s # r /\ Claims(s, tok) => tok \in lost
      BY <1>1, <2>1 DEF LedgerInv, LedgerRemembers, Claims
    <2>3. \A s \in Reqs, u \in Tokens : Claims(s, u)' <=> Claims(s, u) \/ (s = r /\ u = tok)
      BY <1>1 DEF Claims
    <2>4. QED
      <3>1. ASSUME NEW s \in Reqs
            PROVE  /\ req'[s].pc # "none" => req'[s].tok \in Tokens /\ req'[s].host \in Hosts
                   /\ req'[s].pc = "spending" => job'[Daemon] = s
        BY <1>1, <1>2, <2>1 DEF LedgerInv, RequestInv
      <3>2. ASSUME NEW s \in Reqs, NEW u \in Tokens, Claims(s, u)'
            PROVE  /\ bound'[u] = req'[s].host
                   /\ \A q \in Reqs : Claims(q, u)' => q = s \/ u \in lost'
        BY <1>1, <2>2, <2>3, <3>2 DEF LedgerInv, RequestInv
      <3>3. QED
        BY <3>1, <3>2 DEF RequestInv
  <1>6. LedgerRemembers' /\ NoPhantomSpend'
    BY <1>1, <1>3 DEF LedgerInv, LedgerRemembers, NoPhantomSpend
  <1>7. QED
    BY <1>4, <1>5, <1>6 DEF LedgerInv

\* A request that is not spending moves on without the ledger: it is refused
\* before its token is touched, or its certificate is signed or fails.
LEMMA RequestStep ==
  ASSUME TypeOK, LedgerInv, NEW r \in Reqs, NEW next \in {"refused", "issued", "failed"},
         \/ req[r].pc = "arrived" /\ next = "refused"
         \/ req[r].pc = "spent" /\ next # "refused",
         req' = [req EXCEPT ![r].pc = next],
         UNCHANGED <<fileVars, lockVars, tokenVars>>
  PROVE  LedgerInv'
  <1>1. /\ \A s \in Reqs : /\ req'[s].tok = req[s].tok /\ req'[s].host = req[s].host
                           /\ s # r => req'[s].pc = req[s].pc
        /\ req'[r].pc = next
        /\ UNCHANGED <<ledger, lost, pc, job, copy, bound, known>>
    BY DEF TypeOK, fileVars, lockVars, tokenVars
  <1>2. \A s \in Reqs, u \in Tokens : Claims(s, u)' <=> Claims(s, u)
    BY <1>1 DEF Claims
  <1>3. \A u \in Tokens : SpentFor(u)' <=> SpentFor(u)
    BY <1>1 DEF SpentFor
  <1>4. OperationInv'
    BY <1>1, <1>3 DEF LedgerInv, OperationInv
  <1>5. RequestInv'
    BY <1>1, <1>2 DEF LedgerInv, RequestInv
  <1>6. LedgerRemembers' /\ NoPhantomSpend'
    BY <1>1, <1>3 DEF LedgerInv, LedgerRemembers, NoPhantomSpend
  <1>7. QED
    BY <1>4, <1>5, <1>6 DEF LedgerInv

\* What the end of an operation does to the object and to the request it served.
LEMMA EndsFacts ==
  ASSUME TypeOK, LedgerInv, NEW h \in Handles, NEW p \in {"refused", "spent"}, Ends(h, p)
  PROVE  /\ pc'[h] = "idle" /\ job'[h] = NoJob /\ copy'[h] = Empty
         /\ \A g \in Handles : g # h =>
              pc'[g] = pc[g] /\ job'[g] = job[g] /\ copy'[g] = copy[g]
         /\ \A s \in Reqs : /\ req'[s].tok = req[s].tok /\ req'[s].host = req[s].host
                            /\ s # job[h] => req'[s].pc = req[s].pc
                            /\ s = job[h] => /\ req'[s].pc = p /\ req[s].pc = "spending"
                                             /\ h = Daemon
                                             /\ copy[h][req[s].tok] = "spent"
         /\ \A u \in Tokens : SpentFor(u) => SpentFor(u)'
  <1>1. /\ pc'[h] = "idle" /\ job'[h] = NoJob /\ copy'[h] = Empty
        /\ \A g \in Handles : g # h =>
             pc'[g] = pc[g] /\ job'[g] = job[g] /\ copy'[g] = copy[g]
    BY DEF TypeOK, Ends
  <1>2. \A s \in Reqs : /\ req'[s].tok = req[s].tok /\ req'[s].host = req[s].host
                       /\ req'[s].pc = IF s = job[h] THEN p ELSE req[s].pc
    <2>1. CASE job[h] \in Reqs
      BY <2>1 DEF TypeOK, Ends
    <2>2. CASE job[h] \notin Reqs
      BY <2>2 DEF TypeOK, Ends
    <2>3. QED
      BY <2>1, <2>2
  <1>3. \A s \in Reqs : s = job[h] => /\ req[s].pc = "spending" /\ h = Daemon
                                     /\ copy[h][req[s].tok] = "spent"
    BY DEF LedgerInv, OperationInv
  <1>4. ASSUME NEW u \in Tokens, SpentFor(u) PROVE SpentFor(u)'
    <2>1. PICK s \in Reqs : req[s].tok = u /\ req[s].pc \in Consumed
      BY <1>4 DEF SpentFor
    <2>2. s # job[h]
      BY <1>3, <2>1
    <2>3. req'[s].tok = u /\ req'[s].pc \in Consumed
      BY <1>2, <2>1, <2>2
    <2>4. QED
      BY <2>3 DEF SpentFor
  <1>5. \A s \in Reqs : s = job[h] => /\ req'[s].pc = p /\ req[s].pc = "spending"
                                     /\ h = Daemon
                                     /\ copy[h][req[s].tok] = "spent"
    BY <1>2, <1>3
  <1>6. QED
    BY <1>1, <1>2, <1>4, <1>5

\* The part of the invariant about objects and requests, whichever way the
\* operation ends.
LEMMA EndsInv ==
  ASSUME TypeOK, LedgerInv, NEW h \in Handles, NEW p \in {"refused", "spent"}, Ends(h, p),
         bound' = bound, lost \subseteq lost'
  PROVE  OperationInv' /\ RequestInv'
  <1>1. OperationInv'
    <2> SUFFICES ASSUME NEW g \in Handles
        PROVE /\ pc'[g] \in {"read", "writing"} <=> job'[g] # NoJob
              /\ job'[g] \in Tokens => copy'[g][job'[g]] # "absent"
              /\ job'[g] \in Reqs => /\ g = Daemon /\ req'[job'[g]].pc = "spending"
                                    /\ copy'[g][req'[job'[g]].tok] = "spent"
              /\ \A u \in Tokens : copy'[g][u] = "spent" =>
                   SpentFor(u)' \/ (job'[g] \in Reqs /\ req'[job'[g]].tok = u)
      BY DEF OperationInv
    <2>1. CASE g = h
      BY <2>1, EndsFacts, LedgerAssumption
    <2>2. CASE g # h
      <3>1. job'[g] \in Reqs => job'[g] # job[h]
        BY <2>2, EndsFacts DEF LedgerInv, OperationInv
      <3>2. QED
        BY <2>2, <3>1, EndsFacts DEF LedgerInv, OperationInv
    <2>3. QED
      BY <2>1, <2>2
  <1>2. RequestInv'
    <2>1. \A s \in Reqs, u \in Tokens : Claims(s, u)' => Claims(s, u)
      BY EndsFacts DEF Claims
    <2>2. \A s \in Reqs : req'[s].pc = "spending" => job'[Daemon] = s
      BY EndsFacts DEF LedgerInv, RequestInv
    <2>3. \A s \in Reqs : req'[s].pc # "none" => req[s].pc # "none"
      BY EndsFacts
    <2>4. QED
      BY <2>1, <2>2, <2>3, EndsFacts DEF LedgerInv, RequestInv
  <1>3. QED
    BY <1>1, <1>2

LEMMA FailsLedger ==
  ASSUME TypeOK, LedgerInv, NEW h \in Handles, Fails(h)
  PROVE  LedgerInv'
  <1>1. Ends(h, "refused") /\ UNCHANGED <<ledger, lost, bound, known>>
    BY DEF Fails, fileVars, tokenVars
  <1>2. LedgerRemembers' /\ NoPhantomSpend'
    BY <1>1, EndsFacts DEF LedgerInv, LedgerRemembers, NoPhantomSpend
  <1>3. QED
    BY <1>1, <1>2, EndsInv DEF LedgerInv

LEMMA RenameLedger ==
  ASSUME TypeOK, LedgerInv, NEW h \in Handles, Rename(h)
  PROVE  LedgerInv'
  <1>1. /\ Ends(h, "spent") /\ bound' = bound
        /\ ledger' = copy[h] /\ lost' = lost \union TakenBack(h)
        /\ known' = IF job[h] \in Tokens THEN known \union {job[h]} ELSE known
    BY DEF Rename
  <1>2. LedgerRemembers'
    <2>1. ASSUME NEW s \in Reqs, req'[s].pc \in Consumed
          PROVE  ledger'[req'[s].tok] = "spent" \/ req'[s].tok \in lost'
      <3>1. CASE s = job[h]
        BY <1>1, <2>1, <3>1, EndsFacts
      <3>2. CASE s # job[h]
        <4>1. req'[s].pc = req[s].pc /\ req'[s].tok = req[s].tok /\ req[s].tok \in Tokens
          BY <1>1, <2>1, <3>2, EndsFacts DEF LedgerInv, RequestInv
        <4>2. ledger[req[s].tok] = "spent" \/ req[s].tok \in lost
          BY <2>1, <4>1 DEF LedgerInv, LedgerRemembers
        <4>3. QED
          BY <1>1, <4>1, <4>2 DEF TakenBack
      <3>3. QED
        BY <3>1, <3>2
    <2>2. ASSUME NEW t \in known' PROVE ledger'[t] # "absent" \/ t \in lost'
      <3>1. t \in Tokens
        BY <1>1 DEF TypeOK
      <3>2. CASE t = job[h]
        BY <1>1, <3>1, <3>2 DEF LedgerInv, OperationInv
      <3>3. CASE t \in known
        BY <1>1, <3>1, <3>3 DEF LedgerInv, LedgerRemembers, TakenBack
      <3>4. QED
        BY <1>1, <3>2, <3>3
    <2>3. QED
      BY <2>1, <2>2 DEF LedgerRemembers
  <1>3. NoPhantomSpend'
    <2>1. ASSUME NEW t \in Tokens, ledger'[t] = "spent" PROVE SpentFor(t)'
      <3>1. SpentFor(t) \/ (job[h] \in Reqs /\ req[job[h]].tok = t)
        BY <1>1, <2>1 DEF LedgerInv, OperationInv
      <3>2. CASE SpentFor(t)
        BY <1>1, <3>2, EndsFacts
      <3>3. CASE job[h] \in Reqs /\ req[job[h]].tok = t
        BY <1>1, <3>3, EndsFacts DEF SpentFor
      <3>4. QED
        BY <3>1, <3>2, <3>3
    <2>2. QED
      BY <2>1 DEF NoPhantomSpend
  <1>4. OperationInv' /\ RequestInv'
    BY <1>1, EndsInv
  <1>5. QED
    BY <1>2, <1>3, <1>4 DEF LedgerInv

LEMMA CrashLedger ==
  ASSUME TypeOK, LedgerInv, NEW p \in Processes, Crash(p)
  PROVE  LedgerInv'
  <1>1. UNCHANGED <<ledger, lost, bound, known>>
    BY DEF Crash, fileVars, tokenVars
  <1>2. \A h \in Handles :
          /\ h \in p => pc'[h] = "closed" /\ job'[h] = NoJob /\ copy'[h] = Empty
          /\ h \notin p => pc'[h] = pc[h] /\ job'[h] = job[h] /\ copy'[h] = copy[h]
    BY DEF Crash
  <1>3. \A s \in Reqs :
          /\ req'[s].tok = req[s].tok /\ req'[s].host = req[s].host
          /\ req'[s].pc \in Consumed <=> req[s].pc \in Consumed
          /\ req'[s].pc = "none" <=> req[s].pc = "none"
          /\ Daemon \notin p => req'[s] = req[s]
          /\ req'[s].pc = "spending" => req[s].pc = "spending" /\ Daemon \notin p
    <2>1. CASE Daemon \in p
      <3>1. ASSUME NEW s \in Reqs
            PROVE  /\ req'[s].tok = req[s].tok /\ req'[s].host = req[s].host
                   /\ req'[s].pc = Cut(req[s].pc)
        BY <2>1 DEF TypeOK, Crash
      <3>2. QED
        BY <2>1, <3>1 DEF Cut
    <2>2. CASE Daemon \notin p
      BY <2>2 DEF Crash
    <2>3. QED
      BY <2>1, <2>2
  <1>4. \A u \in Tokens : SpentFor(u)' <=> SpentFor(u)
    BY <1>3 DEF SpentFor
  <1>5. OperationInv'
    <2> SUFFICES ASSUME NEW g \in Handles
        PROVE /\ pc'[g] \in {"read", "writing"} <=> job'[g] # NoJob
              /\ job'[g] \in Tokens => copy'[g][job'[g]] # "absent"
              /\ job'[g] \in Reqs => /\ g = Daemon /\ req'[job'[g]].pc = "spending"
                                    /\ copy'[g][req'[job'[g]].tok] = "spent"
              /\ \A u \in Tokens : copy'[g][u] = "spent" =>
                   SpentFor(u)' \/ (job'[g] \in Reqs /\ req'[job'[g]].tok = u)
      BY DEF OperationInv
    <2>1. CASE g \in p
      BY <1>2, <2>1, LedgerAssumption
    <2>2. CASE g \notin p
      BY <1>2, <1>3, <1>4, <2>2 DEF LedgerInv, OperationInv
    <2>3. QED
      BY <2>1, <2>2
  <1>6. RequestInv'
    <2>1. \A s \in Reqs, u \in Tokens : Claims(s, u)' => Claims(s, u)
      BY <1>3 DEF Claims
    <2>2. \A s \in Reqs : req'[s].pc = "spending" => job'[Daemon] = s
      BY <1>2, <1>3 DEF LedgerInv, RequestInv
    <2>3. QED
      BY <1>1, <1>3, <2>1, <2>2 DEF LedgerInv, RequestInv
  <1>7. LedgerRemembers' /\ NoPhantomSpend'
    BY <1>1, <1>3, <1>4 DEF LedgerInv, LedgerRemembers, NoPhantomSpend
  <1>8. QED
    BY <1>5, <1>6, <1>7 DEF LedgerInv

LEMMA NextLedger == TypeOK /\ LedgerInv /\ [Next]_vars => LedgerInv'
  <1> SUFFICES ASSUME TypeOK, LedgerInv, [Next]_vars PROVE LedgerInv'
    OBVIOUS
  <1>1. CASE UNCHANGED vars
    BY <1>1, QuietStep DEF vars, fileVars, lockVars, tokenVars
  <1>2. ASSUME NEW h \in Handles, Open(h) \/ Close(h) \/ Lock(h) PROVE LedgerInv'
    <2>1. UNCHANGED <<ledger, lost, copy, job, bound, known, req>>
      BY <1>2 DEF Open, Close, Lock, fileVars, tokenVars
    <2>2. \A g \in Handles : pc'[g] \in {"read", "writing"} <=> pc[g] \in {"read", "writing"}
      BY <1>2 DEF TypeOK, Open, Close, Lock
    <2>3. QED
      BY <2>1, <2>2, QuietStep
  <1>3. ASSUME NEW h \in Handles, Fails(h) \/ Rename(h) PROVE LedgerInv'
    BY <1>3, FailsLedger, RenameLedger
  <1>4. ASSUME NEW h \in Handles, NEW t \in Tokens, NEW host \in Hosts, IssueRead(h, t, host)
        PROVE LedgerInv'
    BY <1>4, IssueLedger
  <1>5. ASSUME NEW r \in Reqs, NEW t \in Tokens, NEW host \in Hosts, Arrive(r, t, host)
        PROVE LedgerInv'
    BY <1>5, ArriveLedger
  <1>6. ASSUME NEW r \in Reqs, Validate(r) PROVE LedgerInv'
    BY <1>6, ValidateLedger
  <1>7. ASSUME NEW r \in Reqs, NEW b \in BOOLEAN, Refuse(r, b) PROVE LedgerInv'
    BY <1>7, RequestStep DEF Refuse
  <1>8. ASSUME NEW r \in Reqs, Sign(r) PROVE LedgerInv'
    <2>1. PICK ok \in BOOLEAN :
            req' = [req EXCEPT ![r].pc = IF ok THEN "issued" ELSE "failed"]
      BY <1>8 DEF Sign
    <2>2. CASE ok
      BY <1>8, <2>1, <2>2, RequestStep DEF Sign
    <2>3. CASE ~ok
      BY <1>8, <2>1, <2>3, RequestStep DEF Sign
    <2>4. QED
      BY <2>2, <2>3
  <1>9. ASSUME NEW t \in Tokens, Expire(t) PROVE LedgerInv'
    <2>1. UNCHANGED <<ledger, lost, copy, job, bound, known, req, pc>>
      BY <1>9 DEF Expire, fileVars, lockVars
    <2>2. QED
      BY <2>1, QuietStep
  <1>10. ASSUME NEW p \in Processes, Crash(p) PROVE LedgerInv'
    BY <1>10, CrashLedger
  <1>11. QED
    BY <1>1, <1>2, <1>3, <1>4, <1>5, <1>6, <1>7, <1>8, <1>9, <1>10
       DEF Next, Operation, Enrolment

\* The inductive invariant: the daemon's mutex ties the one request that is
\* spending to its copy of the records, and the ledger to those that have spent.
THEOREM LedgerInvariant == Spec => []LedgerInv
  <1>1. Init => LedgerInv
    BY InitLedger
  <1>2. TypeOK /\ TypeOK' /\ LedgerInv /\ [Next]_vars => LedgerInv'
    BY NextLedger
  <1>3. QED
    BY <1>1, <1>2, TypeCorrect, PTL DEF Spec

\* A consumed token and a token given to the operator stay in the ledger through
\* failed writes and crashes; only a write from a stale copy takes them back.
THEOREM RemembersCorrect == Spec => []LedgerRemembers
  <1>1. LedgerInv => LedgerRemembers
    BY DEF LedgerInv
  <1>2. QED
    BY <1>1, LedgerInvariant, PTL

\* No token is spent on disk unless some request has consumed it, whatever step
\* of the write was interrupted.
THEOREM PhantomCorrect == Spec => []NoPhantomSpend
  <1>1. LedgerInv => NoPhantomSpend
    BY DEF LedgerInv
  <1>2. QED
    BY <1>1, LedgerInvariant, PTL

\* A token is only ever consumed for the hostname it was issued for.
THEOREM BoundHostCorrect == Spec => []SpentForBoundHost
  <1>1. LedgerInv => SpentForBoundHost
    BY DEF LedgerInv, RequestInv, Claims, SpentForBoundHost
  <1>2. QED
    BY <1>1, LedgerInvariant, PTL

\* One token is consumed by one request, unless a write by another ledger object
\* took its record back.
THEOREM SpentOnceCorrect == Spec => []SpentOnceUnlessTakenBack
  <1>1. LedgerInv => SpentOnceUnlessTakenBack
    BY DEF LedgerInv, RequestInv, Claims, SpentOnceUnlessTakenBack
  <1>2. QED
    BY <1>1, LedgerInvariant, PTL
=============================================================================
