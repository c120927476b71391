-------------------------- MODULE CertificatesProofs --------------------------
(***************************************************************************)
(* Proofs about the server's certificate files and an agent's, for any     *)
(* number of processes and rotations, any lifetimes and SAN lists, and a   *)
(* crash or an overlap at any moment.                                      *)
(***************************************************************************)
EXTENDS Certificates, TLAPS

-----------------------------------------------------------------------------
(* The inductive strengthenings of the server's files.                     *)

(* What is left to write: of a new CA or a new leaf, both files or the key.*)
CaTodo(c) == << [file |-> "ca.pem", data |-> c], [file |-> "ca-key.pem", data |-> c] >>
CaKeyTodo(c) == << [file |-> "ca-key.pem", data |-> c] >>
LeafTodo(leaf) ==
  << [file |-> "server.pem", data |-> leaf], [file |-> "server-key.pem", data |-> leaf.pair] >>
LeafKeyTodo(n) == << [file |-> "server-key.pem", data |-> n] >>

(* The file a process writes next. *)
AtFile(p, f) == proc[p].todo # <<>> /\ Head(proc[p].todo).file = f
CaWhole(p) == AtFile(p, "ca.pem")
CaHalf(p) == AtFile(p, "ca-key.pem")
LeafWhole(p) == AtFile(p, "server.pem")
LeafHalf(p) == AtFile(p, "server-key.pem")

PastCa(p) ==
  proc[p].pc \in {"leaf", "lock", "serving"} \/ LeafWhole(p) \/ LeafHalf(p)

ProcessInv(p) ==
  LET q == proc[p] IN
  /\ q = [x \in DOMAIN Ended |-> q[x]]
  /\ q.pc \in {"off", "ca", "leaf", "write", "lock", "serving"}
  /\ q.pc = "write" => CaWhole(p) \/ CaHalf(p) \/ LeafWhole(p) \/ LeafHalf(p)
  /\ q.pc # "write" => q.todo = <<>>
  /\ q.pc \in {"ca", "leaf", "write"} => q.sans \in SanList
  /\ q.pc \in {"leaf", "write", "lock", "serving"} => q.caCert \in Nat /\ q.caKey \in Nat
  /\ CaWhole(p) => q.todo = CaTodo(q.caCert) /\ q.caCert = q.caKey
  /\ CaHalf(p) => q.todo = CaKeyTodo(q.caCert) /\ q.caCert = q.caKey
  /\ LeafWhole(p) => LET leaf == Head(q.todo).data IN
       leaf \in Leaf /\ leaf.ca = q.caCert /\ q.todo = LeafTodo(leaf)
  /\ LeafHalf(p) =>
       /\ q.todo = LeafKeyTodo(Head(q.todo).data) /\ Head(q.todo).data \in Nat
       /\ disk["server.pem"] \in Leaf
  /\ q.pc \in {"lock", "serving"} => q.cert \in Leaf

ServerTypes ==
  /\ now \in 0 .. MaxNow
  /\ config \in SanList
  /\ made \in [ca : 0 .. MaxCa, pair : 0 .. MaxPairs, run : 0 .. MaxRuns]
  /\ disk = [f \in Files |-> disk[f]]
  /\ \A f \in CaFiles : disk[f] \in {None} \cup Nat
  /\ disk["server.pem"] \in {None} \cup Leaf
  /\ disk["server-key.pem"] \in {None} \cup Nat
  /\ proc = [p \in Process |-> proc[p]]
  /\ \A p \in Process : ProcessInv(p)

(* Unless two processes generated the first CA together, whoever is past   *)
(* it holds the CA that is on the disk.                                    *)
CaInv == "ca raced" \notin mishaps =>
  /\ \A p, q \in Process : (CaWhole(p) \/ CaHalf(p)) /\ (CaWhole(q) \/ CaHalf(q)) => p = q
  /\ \A p \in Process :
       /\ CaWhole(p) => disk["ca.pem"] = None /\ disk["ca-key.pem"] = None
       /\ CaHalf(p) => disk["ca.pem"] = proc[p].caCert /\ disk["ca-key.pem"] = None
       /\ PastCa(p) => /\ proc[p].caCert = disk["ca.pem"]
                       /\ proc[p].caKey = disk["ca.pem"]
                       /\ disk["ca-key.pem"] = disk["ca.pem"]
  /\ (\A f \in CaFiles : fileExists(f)) => disk["ca-key.pem"] = disk["ca.pem"]

(* Unless a leaf's writer was cut or overtaken, its two files fit but for  *)
(* the moment between their renames.                                       *)
LeafInv == mishaps \cap {"leaf cut", "leaf raced"} = {} =>
  /\ \A p, q \in Process :
       (LeafWhole(p) \/ LeafHalf(p)) /\ (LeafWhole(q) \/ LeafHalf(q)) => p = q
  /\ \A p \in Process : LeafHalf(p) => Head(proc[p].todo).data = disk["server.pem"].pair
  /\ (\A p \in Process : ~LeafHalf(p)) /\ tryLoad =>
       disk["server.pem"].pair = disk["server-key.pem"]

(* Unless the leaf was kept when its CA went, it is signed by the CA that  *)
(* is there, and so is the one a process serves with.                      *)
OriginInv == mishaps \cap {"leaf outlived its CA", "ca raced"} = {} =>
  /\ disk["server.pem"] # None => disk["server.pem"].ca = disk["ca.pem"]
  /\ \A p \in Process :
       proc[p].pc \in {"lock", "serving"} => proc[p].cert.ca = proc[p].caCert

-----------------------------------------------------------------------------
(* The inductive strengthenings of the agent's.                            *)

ClientInv(c) ==
  /\ Persisting(c) => /\ c.new.cert \in Cert
                      /\ c.new = [cert |-> c.new.cert, key |-> c.new.cert.pair,
                                  ca |-> c.new.cert.ca]
  /\ ~Persisting(c) => c.new = NoNew

AgentTypes ==
  /\ adisk = [x \in DOMAIN NoMaterial |-> adisk[x]]
  /\ adisk.cert \in {None} \cup Cert
  /\ pairs \in 0 .. MaxAgentPairs
  /\ agent = [x \in DOMAIN AgentOff |-> agent[x]]
  /\ agent.pc \in {"off", "top", "stream", "cert", "key", "ca"}
  /\ agent.pc # "off" => agent.id \in Cert
  /\ agent.watched \in Nat /\ agent.since \in Nat /\ agent.failed \in BOOLEAN
  /\ enroll = [x \in DOMAIN EnrollOff |-> enroll[x]]
  /\ enroll.pc \in {"off", "post", "cert", "key", "ca", "skipped"}
  /\ ClientInv(agent) /\ ClientInv(enroll)

(* While no renewal has failed: a stream began before the window opened,   *)
(* and time passes nowhere else.                                           *)
ClockInv ==
  agent.pc # "off" /\ ~agent.failed =>
    /\ agent.watched = agent.id.until
    /\ agent.pc = "stream" => agent.watched - agent.since >= Window
    /\ now < agent.watched \/ agent.watched - agent.since >= Window

(* Unless a writer of the agent's files was cut, or an enrolment ran       *)
(* beside the agent, they fit but for the time between two writes, and the *)
(* certificate is the one the agent presents until it replaces it.         *)
MaterialInv == ~Went({"agent cut", "enrolled beside the agent"}) =>
  /\ agent.pc # "off" => enroll.pc \in {"off", "skipped"}
  /\ agent.pc \in {"top", "stream", "cert"} =>
       adisk.cert = agent.id /\ agent.watched = agent.id.until
  /\ agent.pc \in {"key", "ca"} => agent.watched = agent.id.until
  /\ Persisting(agent) => agent.new.ca = adisk.ca
  /\ enroll.pc \in {"post", "cert"} => adisk.cert = None
  /\ \A c \in {agent, enroll} :
       /\ c.pc \in {"key", "ca"} => adisk.cert = c.new.cert
       /\ c.pc = "ca" => adisk.key = c.new.key
  /\ {agent.pc, enroll.pc} \cap {"key", "ca"} = {} /\ adisk.cert # None /\ adisk.key # None =>
       /\ adisk.cert.pair = adisk.key
       /\ adisk.ca # None => adisk.cert.ca = adisk.ca

-----------------------------------------------------------------------------
(* The server's files.                                                     *)

ServerInv == ServerTypes /\ CaInv /\ LeafInv /\ OriginInv

LEMMA Tuples ==
  ASSUME NEW a, NEW b
  PROVE  /\ <<a, b>> # <<>> /\ Head(<<a, b>>) = a /\ Tail(<<a, b>>) = <<b>>
         /\ <<b>> # <<>> /\ Head(<<b>>) = b /\ Tail(<<b>>) = <<>>
  OBVIOUS

\* What the shape of todo says of the files still to be written.
LEMMA Writes ==
  ASSUME NEW p \in Process, ProcessInv(p)
  PROVE  /\ Writing(p, CaFiles) <=> CaWhole(p) \/ CaHalf(p)
         /\ Writing(p, LeafFiles) <=> LeafWhole(p) \/ LeafHalf(p)
         /\ Writing(p, {"server.pem"}) <=> LeafWhole(p)
         /\ Writing(p, {"server-key.pem"}) <=> LeafWhole(p) \/ LeafHalf(p)
  <1> DEFINE t == proc[p].todo
  <1>1. CASE t = <<>>
    BY <1>1 DEF Writing, CaWhole, CaHalf, LeafWhole, LeafHalf, AtFile
  <1>2. ASSUME NEW c, t = CaTodo(c)
        PROVE  /\ Writing(p, CaFiles) /\ CaWhole(p)
               /\ ~Writing(p, LeafFiles) /\ ~LeafWhole(p) /\ ~LeafHalf(p)
               /\ ~Writing(p, {"server.pem"}) /\ ~Writing(p, {"server-key.pem"})
    BY <1>2 DEF CaTodo, Writing, CaFiles, LeafFiles, CaWhole, LeafWhole, LeafHalf, AtFile
  <1>3. ASSUME NEW c, t = CaKeyTodo(c)
        PROVE  /\ Writing(p, CaFiles) /\ CaHalf(p)
               /\ ~Writing(p, LeafFiles) /\ ~LeafWhole(p) /\ ~LeafHalf(p)
               /\ ~Writing(p, {"server.pem"}) /\ ~Writing(p, {"server-key.pem"})
    BY <1>3 DEF CaKeyTodo, Writing, CaFiles, LeafFiles, CaHalf, LeafWhole, LeafHalf, AtFile
  <1>4. ASSUME NEW leaf, t = LeafTodo(leaf)
        PROVE  /\ ~Writing(p, CaFiles) /\ ~CaWhole(p) /\ ~CaHalf(p)
               /\ Writing(p, LeafFiles) /\ LeafWhole(p)
               /\ Writing(p, {"server.pem"}) /\ Writing(p, {"server-key.pem"})
    BY <1>4 DEF LeafTodo, Writing, CaFiles, LeafFiles, CaWhole, CaHalf, LeafWhole, AtFile
  <1>5. ASSUME NEW n, t = LeafKeyTodo(n)
        PROVE  /\ ~Writing(p, CaFiles) /\ ~CaWhole(p) /\ ~CaHalf(p)
               /\ Writing(p, LeafFiles) /\ ~LeafWhole(p) /\ LeafHalf(p)
               /\ ~Writing(p, {"server.pem"}) /\ Writing(p, {"server-key.pem"})
    BY <1>5 DEF LeafKeyTodo, Writing, CaFiles, LeafFiles, CaWhole, CaHalf, LeafWhole,
                LeafHalf, AtFile
  <1>6. \/ t = <<>>
        \/ \E c : t = CaTodo(c) \/ t = CaKeyTodo(c) \/ t = LeafTodo(c) \/ t = LeafKeyTodo(c)
    BY DEF ProcessInv
  <1>7. QED
    BY <1>1, <1>2, <1>3, <1>4, <1>5, <1>6

\* A process is in one phase at a time.
LEMMA Phases ==
  ASSUME NEW p \in Process, ProcessInv(p)
  PROVE  /\ proc[p].pc # "write" =>
              ~CaWhole(p) /\ ~CaHalf(p) /\ ~LeafWhole(p) /\ ~LeafHalf(p)
         /\ proc[p].pc = "write" => proc[p].todo # <<>>
         /\ CaWhole(p) => ~CaHalf(p) /\ ~LeafWhole(p) /\ ~LeafHalf(p) /\ ~PastCa(p)
         /\ CaHalf(p) => ~LeafWhole(p) /\ ~LeafHalf(p) /\ ~PastCa(p)
         /\ LeafWhole(p) => ~LeafHalf(p)
         /\ CaWhole(p) \/ CaHalf(p) \/ LeafWhole(p) \/ LeafHalf(p) => proc[p].pc = "write"
  BY DEF ProcessInv, PastCa, CaWhole, CaHalf, LeafWhole, LeafHalf, AtFile

LEMMA Others ==
  ASSUME ServerTypes, NEW p \in Process, NEW s, Becomes(p, s)
  PROVE  /\ proc' = [q \in Process |-> proc'[q]]
         /\ proc'[p] = s
         /\ \A q \in Process \ {p} : proc'[q] = proc[q]
  BY DEF ServerTypes, Becomes

LEMMA InitServer == Init => ServerInv
  <1> SUFFICES ASSUME Init PROVE ServerInv
    OBVIOUS
  <1>1. now = 0 /\ config \in SanList /\ disk = [f \in Files |-> None]
        /\ proc = [p \in Process |-> Ended] /\ made = [ca |-> 0, pair |-> 0, run |-> 0]
        /\ mishaps = {}
    BY DEF Init, ServerInit
  <1>2. \A p \in Process : /\ ProcessInv(p) /\ ~CaWhole(p) /\ ~CaHalf(p)
                           /\ ~LeafWhole(p) /\ ~LeafHalf(p) /\ ~PastCa(p)
    BY <1>1 DEF ProcessInv, Ended, CaWhole, CaHalf, LeafWhole, LeafHalf, AtFile, PastCa
  <1>3. \A f \in Files : disk[f] = None
    BY <1>1
  <1>4. ServerTypes
    BY <1>1, <1>2, <1>3, BoundsAssumption DEF ServerTypes, Files, CaFiles, LeafFiles
  <1>5. CaInv
    BY <1>2, <1>3 DEF CaInv, fileExists, Files, CaFiles
  <1>6. LeafInv
    BY <1>2, <1>3 DEF LeafInv, tryLoad, fileExists, Files, LeafFiles
  <1>7. OriginInv
    BY <1>1, <1>3 DEF OriginInv, Ended, Files, LeafFiles
  <1>8. QED
    BY <1>4, <1>5, <1>6, <1>7 DEF ServerInv

\* A process q that did not move is in the phase it was in.
LEMMA Unmoved ==
  ASSUME NEW q, proc'[q] = proc[q]
  PROVE  /\ CaWhole(q)' <=> CaWhole(q)
         /\ CaHalf(q)' <=> CaHalf(q)
         /\ LeafWhole(q)' <=> LeafWhole(q)
         /\ LeafHalf(q)' <=> LeafHalf(q)
         /\ PastCa(q)' <=> PastCa(q)
         /\ (disk["server.pem"] \in Leaf => disk'["server.pem"] \in Leaf) /\ ProcessInv(q)
              => ProcessInv(q)'
  <1>1. /\ CaWhole(q)' <=> CaWhole(q)
        /\ CaHalf(q)' <=> CaHalf(q)
        /\ LeafWhole(q)' <=> LeafWhole(q)
        /\ LeafHalf(q)' <=> LeafHalf(q)
    BY DEF CaWhole, CaHalf, LeafWhole, LeafHalf, AtFile
  <1>2. PastCa(q)' <=> PastCa(q)
    BY <1>1 DEF PastCa
  <1>3. ASSUME disk["server.pem"] \in Leaf => disk'["server.pem"] \in Leaf, ProcessInv(q)
        PROVE  ProcessInv(q)'
    BY <1>1, <1>3 DEF ProcessInv
  <1>4. QED
    BY <1>1, <1>2, <1>3

\* A state of a process that is not writing, with all it has loaded.
Idle(s) ==
  /\ s = [x \in DOMAIN Ended |-> s[x]]
  /\ s.todo = <<>>
  /\ s.pc \in {"off", "ca", "leaf", "lock", "serving"}
  /\ s.pc \in {"ca", "leaf"} => s.sans \in SanList
  /\ s.pc \in {"leaf", "lock", "serving"} => s.caCert \in Nat /\ s.caKey \in Nat
  /\ s.pc \in {"lock", "serving"} => s.cert \in Leaf

\* The CA and the leaf a process goes on with are what CaInv and OriginInv ask for.
Fits(s) ==
  /\ "ca raced" \notin mishaps /\ s.pc \in {"leaf", "lock", "serving"} =>
       /\ s.caCert = disk["ca.pem"] /\ s.caKey = disk["ca.pem"]
       /\ disk["ca-key.pem"] = disk["ca.pem"]
  /\ mishaps \cap {"leaf outlived its CA", "ca raced"} = {} /\ s.pc \in {"lock", "serving"} =>
       s.cert.ca = s.caCert

\* A step after which one process is not writing, the files being as they were.
LEMMA Settles ==
  ASSUME ServerInv, NEW p \in Process, NEW s, Becomes(p, s), Idle(s), Fits(s),
         UNCHANGED <<now, disk>>, config' \in SanList, mishaps \subseteq mishaps',
         made' \in [ca : 0 .. MaxCa, pair : 0 .. MaxPairs, run : 0 .. MaxRuns],
         LeafHalf(p) => "leaf cut" \in mishaps'
  PROVE  ServerInv'
  <1>1. /\ proc' = [q \in Process |-> proc'[q]]
        /\ proc'[p] = s
        /\ \A q \in Process \ {p} : proc'[q] = proc[q]
    BY Others DEF ServerInv
  <1>2. /\ ~CaWhole(p)' /\ ~CaHalf(p)' /\ ~LeafWhole(p)' /\ ~LeafHalf(p)'
        /\ PastCa(p)' <=> s.pc \in {"leaf", "lock", "serving"}
    <2>1. proc'[p].todo = <<>>
      BY <1>1 DEF Idle
    <2>2. ~CaWhole(p)' /\ ~CaHalf(p)' /\ ~LeafWhole(p)' /\ ~LeafHalf(p)'
      BY <2>1 DEF CaWhole, CaHalf, LeafWhole, LeafHalf, AtFile
    <2>3. QED
      BY <1>1, <2>2 DEF PastCa
  <1>3. ProcessInv(p)'
    BY <1>1, <1>2 DEF ProcessInv, Idle
  <1>4. \A q \in Process \ {p} :
          /\ CaWhole(q)' <=> CaWhole(q)
          /\ CaHalf(q)' <=> CaHalf(q)
          /\ LeafWhole(q)' <=> LeafWhole(q)
          /\ LeafHalf(q)' <=> LeafHalf(q)
          /\ PastCa(q)' <=> PastCa(q)
          /\ ProcessInv(q)'
    BY <1>1, Unmoved DEF ServerInv, ServerTypes
  <1>5. ServerTypes'
    BY <1>1, <1>3, <1>4 DEF ServerInv, ServerTypes
  <1>6. CaInv'
    BY <1>1, <1>2, <1>4, ZenonT(30) DEF ServerInv, CaInv, Fits, fileExists
  <1>7. LeafInv'
    <2> SUFFICES ASSUME mishaps' \cap {"leaf cut", "leaf raced"} = {} PROVE LeafInv'
      BY DEF LeafInv
    <2>1. ~LeafHalf(p) /\ mishaps \cap {"leaf cut", "leaf raced"} = {}
      OBVIOUS
    <2>2. \A q, r \in Process :
            (LeafWhole(q)' \/ LeafHalf(q)') /\ (LeafWhole(r)' \/ LeafHalf(r)') => q = r
      BY <1>2, <1>4, <2>1 DEF ServerInv, LeafInv
    <2>3. \A q \in Process : LeafHalf(q)' => Head(proc'[q].todo).data = disk["server.pem"].pair
      BY <1>1, <1>2, <1>4, <2>1 DEF ServerInv, LeafInv
    <2>4. (\A q \in Process : ~LeafHalf(q)') => \A q \in Process : ~LeafHalf(q)
      BY <1>4, <2>1
    <2>5. (\A q \in Process : ~LeafHalf(q)') /\ tryLoad =>
            disk["server.pem"].pair = disk["server-key.pem"]
      BY <2>1, <2>4 DEF ServerInv, LeafInv
    <2>6. QED
      BY <2>2, <2>3, <2>5 DEF LeafInv, tryLoad, fileExists
  <1>8. OriginInv'
    BY <1>1 DEF ServerInv, OriginInv, Fits
  <1>9. QED
    BY <1>5, <1>6, <1>7, <1>8 DEF ServerInv

LEMMA MishapsGrow ==
  ASSUME NEW kind, NEW happened, Mishap(kind, happened)
  PROVE  mishaps \subseteq mishaps' /\ (happened => kind \in mishaps')
  BY DEF Mishap

LEMMA Fields == DOMAIN Ended = {"pc", "sans", "caCert", "caKey", "cert", "key", "todo"}
  BY DEF Ended

LEMMA IdleEnded == Idle(Ended) /\ Fits(Ended)
  BY DEF Idle, Fits, Ended

\* Where a process is not writing, what it may go on with.
LEMMA Holds ==
  ASSUME ServerInv, NEW p \in Process, proc[p].pc # "write"
  PROVE  Idle(proc[p]) /\ Fits(proc[p]) /\ ~LeafHalf(p)
  <1>1. ProcessInv(p)
    BY DEF ServerInv, ServerTypes
  <1>2. Idle(proc[p]) /\ ~LeafHalf(p)
    BY <1>1, Phases DEF ProcessInv, Idle
  <1>3. Fits(proc[p])
    BY DEF ServerInv, CaInv, OriginInv, PastCa, Fits
  <1>4. QED
    BY <1>2, <1>3

LEMMA QuietSteps ==
  ASSUME ServerInv,
         \/ \E d \in Daemon : StartDaemon(d) \/ KeepLeaf(d) \/ Serve(d) \/ ServeRefused(d)
         \/ \E r \in Rotation, sans \in SanList : Rotate(r, sans)
         \/ \E p \in Process :
              loadCA(p) \/ EnsureCARefuses(p) \/ CreateCertificateFails(p) \/ Dies(p)
  PROVE  ServerInv'
  <1>t. /\ config \in SanList
        /\ made \in [ca : 0 .. MaxCa, pair : 0 .. MaxPairs, run : 0 .. MaxRuns]
        /\ \A p \in Process : ProcessInv(p)
    BY DEF ServerInv, ServerTypes
  <1>d. Daemon \subseteq Process /\ Rotation \subseteq Process
    BY DEF Process
  <1>1. ASSUME NEW d \in Daemon, StartDaemon(d) PROVE ServerInv'
    <2> DEFINE s == [Ended EXCEPT !.pc = "ca", !.sans = config]
    <2>1. Idle(s) /\ Fits(s)
      BY <1>t DEF Idle, Fits, Ended
    <2>2. ~LeafHalf(d)
      BY <1>1, <1>d, Holds DEF StartDaemon
    <2>3. QED
      BY <1>1, <1>d, <1>t, <2>1, <2>2, Settles DEF StartDaemon
  <1>2. ASSUME NEW d \in Daemon, KeepLeaf(d) PROVE ServerInv'
    <2> DEFINE s == [proc[d] EXCEPT !.pc = "lock", !.sans = None, !.cert = disk["server.pem"],
                                    !.key = disk["server-key.pem"]]
    <2>1. Idle(proc[d]) /\ Fits(proc[d]) /\ ~LeafHalf(d) /\ proc[d].pc = "leaf"
      BY <1>2, <1>d, Holds DEF KeepLeaf
    <2>2. disk["server.pem"] \in Leaf /\ disk["server.pem"] # None
      BY <1>2 DEF KeepLeaf, Keeps, tryLoad, fileExists, LeafFiles, ServerInv, ServerTypes
    <2>3. /\ s = [x \in DOMAIN Ended |-> s[x]] /\ s.todo = <<>>
          /\ s.pc = "lock" /\ s.cert = disk["server.pem"]
          /\ s.caCert = proc[d].caCert /\ s.caKey = proc[d].caKey
      BY <2>1, Fields DEF Idle
    <2> HIDE DEF s
    <2>4. Idle(s)
      BY <2>1, <2>2, <2>3 DEF Idle
    <2>6. Fits(s)
      BY <2>1, <2>2, <2>3 DEF Fits, ServerInv, OriginInv
    <2> USE DEF s
    <2>5. QED
      BY <1>2, <1>d, <1>t, <2>1, <2>4, <2>6, Settles DEF KeepLeaf
  <1>3. ASSUME NEW d \in Daemon, Serve(d) PROVE ServerInv'
    <2> DEFINE s == [proc[d] EXCEPT !.pc = "serving", !.key = None]
    <2>1. Idle(proc[d]) /\ Fits(proc[d]) /\ ~LeafHalf(d) /\ proc[d].pc = "lock"
      BY <1>3, <1>d, Holds DEF Serve
    <2>2. /\ s = [x \in DOMAIN Ended |-> s[x]] /\ s.todo = <<>>
          /\ s.pc = "serving" /\ s.cert = proc[d].cert
          /\ s.caCert = proc[d].caCert /\ s.caKey = proc[d].caKey
      BY <2>1, Fields DEF Idle
    <2> HIDE DEF s
    <2>3. Idle(s) /\ Fits(s)
      BY <2>1, <2>2 DEF Idle, Fits
    <2> USE DEF s
    <2>4. QED
      BY <1>3, <1>d, <1>t, <2>1, <2>3, Settles DEF Serve
  <1>4. ASSUME NEW d \in Daemon, ServeRefused(d) PROVE ServerInv'
    <2>1. ~LeafHalf(d)
      BY <1>4, <1>d, Holds DEF ServeRefused
    <2>2. QED
      BY <1>4, <1>d, <1>t, <2>1, IdleEnded, Settles DEF ServeRefused
  <1>5. ASSUME NEW r \in Rotation, NEW sans \in SanList, Rotate(r, sans) PROVE ServerInv'
    <2> DEFINE s == [Ended EXCEPT !.pc = "ca", !.sans = sans]
    <2>1. Idle(s) /\ Fits(s)
      BY DEF Idle, Fits, Ended
    <2>2. ~LeafHalf(r)
      BY <1>5, <1>d, Holds DEF Rotate
    <2>3. made' \in [ca : 0 .. MaxCa, pair : 0 .. MaxPairs, run : 0 .. MaxRuns]
      <3>1. made.run + 1 \in 0 .. MaxRuns
        <4>1. made.run \in 0 .. MaxRuns /\ made.run < MaxRuns /\ MaxRuns \in Nat
          BY <1>5, <1>t, BoundsAssumption DEF Rotate
        <4>2. QED
          BY <4>1
      <3>2. QED
        BY <1>5, <1>t, <3>1 DEF Rotate
    <2>4. QED
      BY <1>5, <1>d, <2>1, <2>2, <2>3, Settles DEF Rotate
  <1>6. ASSUME NEW p \in Process, loadCA(p) PROVE ServerInv'
    <2> DEFINE s == [proc[p] EXCEPT !.pc = "leaf", !.caCert = disk["ca.pem"],
                                    !.caKey = disk["ca-key.pem"]]
    <2>1. Idle(proc[p]) /\ ~LeafHalf(p) /\ proc[p].pc = "ca"
      BY <1>6, Holds DEF loadCA
    <2>2. /\ disk["ca.pem"] \in Nat /\ disk["ca-key.pem"] \in Nat
          /\ "ca raced" \notin mishaps => disk["ca-key.pem"] = disk["ca.pem"]
      BY <1>6 DEF loadCA, fileExists, CaFiles, ServerInv, ServerTypes, CaInv
    <2>3. /\ s = [x \in DOMAIN Ended |-> s[x]] /\ s.todo = <<>>
          /\ s.pc = "leaf" /\ s.sans = proc[p].sans
          /\ s.caCert = disk["ca.pem"] /\ s.caKey = disk["ca-key.pem"]
      BY <2>1, Fields DEF Idle
    <2> HIDE DEF s
    <2>4. Idle(s) /\ Fits(s)
      BY <2>1, <2>2, <2>3 DEF Idle, Fits
    <2> USE DEF s
    <2>5. QED
      BY <1>6, <1>t, <2>1, <2>4, Settles DEF loadCA
  <1>7. ASSUME NEW p \in Process, EnsureCARefuses(p) PROVE ServerInv'
    <2>1. ~LeafHalf(p)
      BY <1>7, Holds DEF EnsureCARefuses
    <2>2. QED
      BY <1>7, <1>t, <2>1, IdleEnded, Settles DEF EnsureCARefuses
  <1>8. ASSUME NEW p \in Process, CreateCertificateFails(p) PROVE ServerInv'
    <2>1. ~LeafHalf(p)
      BY <1>8, Holds DEF CreateCertificateFails
    <2>2. QED
      BY <1>8, <1>t, <2>1, IdleEnded, Settles DEF CreateCertificateFails
  <1>9. ASSUME NEW p \in Process, Dies(p) PROVE ServerInv'
    <2>1. LeafHalf(p) => ~Writing(p, {"server.pem"}) /\ Writing(p, {"server-key.pem"})
      BY <1>t, Writes, Phases
    <2>2. mishaps \subseteq mishaps' /\ (LeafHalf(p) => "leaf cut" \in mishaps')
      BY <1>9, <2>1, MishapsGrow DEF Dies
    <2>3. QED
      BY <1>9, <1>t, <2>2, IdleEnded, Settles DEF Dies
  <1>10. QED
    BY <1>1, <1>2, <1>3, <1>4, <1>5, <1>6, <1>7, <1>8, <1>9

\* What there is to write, file by file.
LEMMA Shapes ==
  ASSUME NEW c
  PROVE  /\ CaTodo(c) # <<>> /\ Head(CaTodo(c)) = [file |-> "ca.pem", data |-> c]
         /\ Tail(CaTodo(c)) = CaKeyTodo(c)
         /\ CaKeyTodo(c) # <<>> /\ Head(CaKeyTodo(c)) = [file |-> "ca-key.pem", data |-> c]
         /\ LeafTodo(c) # <<>> /\ Head(LeafTodo(c)) = [file |-> "server.pem", data |-> c]
         /\ Tail(LeafTodo(c)) = LeafKeyTodo(c.pair)
         /\ LeafKeyTodo(c) # <<>>
         /\ Head(LeafKeyTodo(c)) = [file |-> "server-key.pem", data |-> c]
  BY DEF CaTodo, CaKeyTodo, LeafTodo, LeafKeyTodo

\* What a step that only process p and the disk take part in leaves to show.
LEMMA Stays ==
  ASSUME ServerTypes, NEW p \in Process, NEW s, Becomes(p, s),
         disk["server.pem"] \in Leaf => disk'["server.pem"] \in Leaf
  PROVE  /\ proc' = [q \in Process |-> proc'[q]] /\ proc'[p] = s
         /\ \A q \in Process \ {p} :
              /\ proc'[q] = proc[q]
              /\ CaWhole(q)' <=> CaWhole(q)
              /\ CaHalf(q)' <=> CaHalf(q)
              /\ LeafWhole(q)' <=> LeafWhole(q)
              /\ LeafHalf(q)' <=> LeafHalf(q)
              /\ PastCa(q)' <=> PastCa(q)
              /\ ProcessInv(q)'
  BY Others, Unmoved DEF ServerTypes

LEMMA GenerateCA ==
  ASSUME ServerInv, NEW p \in Process, generateCA(p)
  PROVE  ServerInv'
  <1> DEFINE c == made.ca + 1
             s == [proc[p] EXCEPT !.pc = "write", !.caCert = c, !.caKey = c, !.todo = CaTodo(c)]
  <1>t. /\ ServerTypes /\ made \in [ca : 0 .. MaxCa, pair : 0 .. MaxPairs, run : 0 .. MaxRuns]
        /\ \A q \in Process : ProcessInv(q)
    BY DEF ServerInv, ServerTypes
  <1>1. /\ proc[p].pc = "ca" /\ made.ca < MaxCa /\ made' = [made EXCEPT !.ca = c]
        /\ made'.ca = c /\ UNCHANGED <<now, config, disk>>
        /\ disk["ca.pem"] = None /\ disk["ca-key.pem"] = None
        /\ Mishap("ca raced", \E q \in Process \ {p} : Writing(q, CaFiles))
    BY <1>t DEF generateCA, fileExists, CaFiles
  <1>2. Becomes(p, s)
    BY <1>1 DEF generateCA, CaTodo
  <1>3. c \in Nat /\ c \in 0 .. MaxCa
    <2>1. made.ca \in 0 .. MaxCa /\ MaxCa \in Nat /\ made.ca < MaxCa
      BY <1>t, <1>1, BoundsAssumption
    <2>2. QED
      BY <2>1
  <1>4. /\ s = [x \in DOMAIN Ended |-> s[x]] /\ s.todo = CaTodo(c) /\ s.pc = "write"
        /\ s.sans = proc[p].sans /\ s.caCert = c /\ s.caKey = c
    BY <1>t, Fields DEF ProcessInv
  <1>5. /\ proc' = [q \in Process |-> proc'[q]] /\ proc'[p] = s
        /\ \A q \in Process \ {p} :
             /\ proc'[q] = proc[q]
             /\ CaWhole(q)' <=> CaWhole(q)
             /\ CaHalf(q)' <=> CaHalf(q)
             /\ LeafWhole(q)' <=> LeafWhole(q)
             /\ LeafHalf(q)' <=> LeafHalf(q)
             /\ PastCa(q)' <=> PastCa(q)
             /\ ProcessInv(q)'
    BY <1>t, <1>1, <1>2, Stays
  <1> HIDE DEF s, c
  <1>6. CaWhole(p)' /\ ~CaHalf(p)' /\ ~LeafWhole(p)' /\ ~LeafHalf(p)' /\ ~PastCa(p)'
    <2>1. proc'[p].pc = "write" /\ proc'[p].todo = CaTodo(c)
      BY <1>4, <1>5
    <2>2. CaTodo(c) # <<>> /\ Head(CaTodo(c)) = [file |-> "ca.pem", data |-> c]
      BY Shapes
    <2>3. proc'[p].todo # <<>> /\ Head(proc'[p].todo).file = "ca.pem"
      BY <2>1, <2>2
    <2>4. QED
      BY <2>1, <2>3 DEF CaWhole, CaHalf, LeafWhole, LeafHalf, AtFile, PastCa
  <1>7. ~CaWhole(p) /\ ~CaHalf(p) /\ ~LeafWhole(p) /\ ~LeafHalf(p)
    BY <1>t, <1>1, Phases
  <1>8. ProcessInv(p)'
    <2>1. proc[p].sans \in SanList /\ s.todo # <<>>
      BY <1>t, <1>1, <1>4, Shapes DEF ProcessInv
    <2>2. QED
      BY <1>3, <1>4, <1>5, <1>6, <2>1 DEF ProcessInv
  <1>9. ServerTypes'
    <2>1. made' \in [ca : 0 .. MaxCa, pair : 0 .. MaxPairs, run : 0 .. MaxRuns]
      BY <1>t, <1>1, <1>3
    <2>2. QED
      BY <1>t, <1>1, <1>5, <1>8, <2>1 DEF ServerTypes
  <1>10. CaInv'
    <2> SUFFICES ASSUME "ca raced" \notin mishaps' PROVE CaInv'
      BY DEF CaInv
    <2>1. "ca raced" \notin mishaps /\ \A q \in Process \ {p} : ~Writing(q, CaFiles)
      BY <1>1, MishapsGrow
    <2>2. \A q \in Process \ {p} : ~CaWhole(q) /\ ~CaHalf(q)
      BY <1>t, <2>1, Writes
    <2>3. \A q \in Process : ~PastCa(q)
      <3>1. ASSUME NEW q \in Process, PastCa(q) PROVE FALSE
        <4>1. proc[q].caCert \in Nat
          BY <1>t, <3>1, Phases DEF ProcessInv, PastCa
        <4>2. proc[q].caCert = None
          BY <1>1, <2>1, <3>1 DEF ServerInv, CaInv
        <4>3. QED
          BY <4>1, <4>2, NoneAssumption
      <3>2. QED
        BY <3>1
    <2>4. \A q \in Process : CaWhole(q)' \/ CaHalf(q)' => q = p
      BY <1>5, <2>2
    <2>5. \A q \in Process : ~PastCa(q)'
      BY <1>5, <1>6, <2>3
    <2>6. QED
      BY <1>1, <1>6, <2>4, <2>5 DEF CaInv, fileExists, CaFiles
  <1>11. LeafInv'
    <2> SUFFICES ASSUME mishaps' \cap {"leaf cut", "leaf raced"} = {} PROVE LeafInv'
      BY DEF LeafInv
    <2>1. mishaps \cap {"leaf cut", "leaf raced"} = {}
      BY <1>1, MishapsGrow
    <2>2. \A q \in Process : /\ LeafWhole(q)' <=> LeafWhole(q)
                             /\ LeafHalf(q)' <=> LeafHalf(q)
      BY <1>5, <1>6, <1>7
    <2>3. \A q \in Process : LeafHalf(q)' => proc'[q] = proc[q]
      BY <1>5, <1>6
    <2>a. /\ \A q, r \in Process :
               (LeafWhole(q) \/ LeafHalf(q)) /\ (LeafWhole(r) \/ LeafHalf(r)) => q = r
          /\ \A q \in Process :
               LeafHalf(q) => Head(proc[q].todo).data = disk["server.pem"].pair
      BY <2>1 DEF ServerInv, LeafInv
    <2>4. \A q, r \in Process :
            (LeafWhole(q)' \/ LeafHalf(q)') /\ (LeafWhole(r)' \/ LeafHalf(r)') => q = r
      BY <2>2, <2>a
    <2>5. \A q \in Process : LeafHalf(q)' => Head(proc'[q].todo).data = disk["server.pem"].pair
      <3>1. ASSUME NEW q \in Process, LeafHalf(q)'
            PROVE  Head(proc'[q].todo).data = disk["server.pem"].pair
        <4>1. LeafHalf(q) /\ proc'[q] = proc[q]
          BY <2>2, <2>3, <3>1
        <4>2. Head(proc[q].todo).data = disk["server.pem"].pair
          BY <2>a, <4>1
        <4>3. QED
          BY <4>1, <4>2
      <3>2. QED
        BY <3>1
    <2>6. (\A q \in Process : ~LeafHalf(q)') /\ tryLoad =>
            disk["server.pem"].pair = disk["server-key.pem"]
      BY <2>1, <2>2 DEF ServerInv, LeafInv
    <2>7. QED
      BY <1>1, <2>4, <2>5, <2>6 DEF LeafInv, tryLoad, fileExists
  <1>12. OriginInv'
    <2>1. mishaps \subseteq mishaps'
      BY <1>1, MishapsGrow
    <2>2. QED
      BY <1>1, <1>4, <1>5, <2>1, ZenonT(30) DEF ServerInv, OriginInv
  <1>13. QED
    BY <1>9, <1>10, <1>11, <1>12 DEF ServerInv

LEMMA GenerateServerCert ==
  ASSUME ServerInv, NEW p \in Process, generateServerCert(p)
  PROVE  ServerInv'
  <1> DEFINE n == made.pair + 1
             leaf == [pair |-> n, ca |-> proc[p].caCert, sans |-> proc[p].sans,
                      until |-> now + Life]
             s == [proc[p] EXCEPT !.pc = "write", !.todo = LeafTodo(leaf)]
  <1>t. /\ ServerTypes /\ made \in [ca : 0 .. MaxCa, pair : 0 .. MaxPairs, run : 0 .. MaxRuns]
        /\ \A q \in Process : ProcessInv(q)
    BY DEF ServerInv, ServerTypes
  <1>1. /\ proc[p].pc = "leaf" /\ made.pair < MaxPairs /\ made' = [made EXCEPT !.pair = n]
        /\ made'.pair = n /\ UNCHANGED <<now, config, disk>>
        /\ Mishap("leaf raced", \E q \in Process \ {p} : Writing(q, LeafFiles))
    BY <1>t DEF generateServerCert
  <1>2. Becomes(p, s)
    BY <1>1 DEF generateServerCert, LeafTodo
  <1>3. n \in Nat /\ n \in 0 .. MaxPairs
    <2>1. made.pair \in 0 .. MaxPairs /\ MaxPairs \in Nat /\ made.pair < MaxPairs
      BY <1>t, <1>1, BoundsAssumption
    <2>2. QED
      BY <2>1
  <1>4. /\ s = [x \in DOMAIN Ended |-> s[x]] /\ s.todo = LeafTodo(leaf) /\ s.pc = "write"
        /\ s.sans = proc[p].sans /\ s.caCert = proc[p].caCert /\ s.caKey = proc[p].caKey
    BY <1>t, Fields DEF ProcessInv
  <1>5. /\ proc[p].sans \in SanList /\ proc[p].caCert \in Nat /\ proc[p].caKey \in Nat
        /\ leaf \in Leaf /\ leaf.ca = proc[p].caCert
    <2>1. proc[p].sans \in SanList /\ proc[p].caCert \in Nat /\ proc[p].caKey \in Nat
      BY <1>t, <1>1 DEF ProcessInv
    <2>2. now + Life \in Nat
      BY <1>t, LifeAssumption DEF ServerTypes
    <2>3. QED
      BY <1>3, <2>1, <2>2 DEF Leaf
  <1>6. /\ proc' = [q \in Process |-> proc'[q]] /\ proc'[p] = s
        /\ \A q \in Process \ {p} :
             /\ proc'[q] = proc[q]
             /\ CaWhole(q)' <=> CaWhole(q)
             /\ CaHalf(q)' <=> CaHalf(q)
             /\ LeafWhole(q)' <=> LeafWhole(q)
             /\ LeafHalf(q)' <=> LeafHalf(q)
             /\ PastCa(q)' <=> PastCa(q)
             /\ ProcessInv(q)'
    BY <1>t, <1>1, <1>2, Stays
  <1> HIDE DEF s, leaf, n
  <1>s. s.todo # <<>> /\ Head(s.todo) = [file |-> "server.pem", data |-> leaf]
    <2>1. LeafTodo(leaf) # <<>> /\ Head(LeafTodo(leaf)) = [file |-> "server.pem", data |-> leaf]
      BY Shapes
    <2>2. QED
      BY <1>4, <2>1
  <1>7. ~CaWhole(p)' /\ ~CaHalf(p)' /\ LeafWhole(p)' /\ ~LeafHalf(p)' /\ PastCa(p)'
    <2>1. proc'[p].todo # <<>> /\ Head(proc'[p].todo).file = "server.pem"
      BY <1>6, <1>s
    <2>2. QED
      BY <2>1 DEF CaWhole, CaHalf, LeafWhole, LeafHalf, AtFile, PastCa
  <1>8. ~CaWhole(p) /\ ~CaHalf(p) /\ ~LeafWhole(p) /\ ~LeafHalf(p) /\ PastCa(p)
    BY <1>t, <1>1, Phases DEF PastCa
  <1>9. ProcessInv(p)'
    <2>1. s.todo # <<>> /\ Head(s.todo).data = leaf
      BY <1>s
    <2>2. QED
      BY <1>4, <1>5, <1>6, <1>7, <2>1 DEF ProcessInv
  <1>10. ServerTypes'
    <2>1. made' \in [ca : 0 .. MaxCa, pair : 0 .. MaxPairs, run : 0 .. MaxRuns]
      BY <1>t, <1>1, <1>3
    <2>2. QED
      BY <1>t, <1>1, <1>6, <1>9, <2>1 DEF ServerTypes
  <1>m. mishaps \subseteq mishaps'
    BY <1>1, MishapsGrow
  <1>11. CaInv'
    <2>1. \A q \in Process : /\ CaWhole(q)' <=> CaWhole(q)
                             /\ CaHalf(q)' <=> CaHalf(q)
                             /\ PastCa(q)' <=> PastCa(q)
                             /\ proc'[q].caCert = proc[q].caCert
                             /\ proc'[q].caKey = proc[q].caKey
      <3>1. /\ CaWhole(p)' <=> CaWhole(p)
            /\ CaHalf(p)' <=> CaHalf(p)
            /\ PastCa(p)' <=> PastCa(p)
            /\ proc'[p].caCert = proc[p].caCert
            /\ proc'[p].caKey = proc[p].caKey
        BY <1>4, <1>6, <1>7, <1>8
      <3>2. QED
        BY <1>6, <3>1
    <2>2. disk' = disk
      BY <1>1
    <2>3. CaInv
      BY DEF ServerInv
    <2>4. QED
      BY <1>m, <2>1, <2>2, <2>3 DEF CaInv, fileExists
  <1>12. LeafInv'
    <2> SUFFICES ASSUME mishaps' \cap {"leaf cut", "leaf raced"} = {} PROVE LeafInv'
      BY DEF LeafInv
    <2>1. /\ mishaps \cap {"leaf cut", "leaf raced"} = {}
          /\ \A q \in Process \ {p} : ~Writing(q, LeafFiles)
      BY <1>1, MishapsGrow
    <2>2. \A q \in Process \ {p} : ~LeafWhole(q) /\ ~LeafHalf(q)
      BY <1>t, <2>1, Writes
    <2>3. \A q \in Process : ~LeafHalf(q)' /\ ~LeafHalf(q) /\ (LeafWhole(q)' => q = p)
      BY <1>6, <1>7, <1>8, <2>2
    <2>4. QED
      BY <1>1, <2>1, <2>3 DEF ServerInv, LeafInv, tryLoad, fileExists
  <1>13. OriginInv'
    BY <1>1, <1>4, <1>6, <1>m, ZenonT(30) DEF ServerInv, OriginInv
  <1>14. QED
    BY <1>10, <1>11, <1>12, <1>13 DEF ServerInv

\* A step that leaves the leaf's files and their writers alone.
LEMMA LeafKept ==
  ASSUME LeafInv, mishaps \subseteq mishaps',
         disk'["server.pem"] = disk["server.pem"],
         disk'["server-key.pem"] = disk["server-key.pem"],
         NEW p \in Process, ~LeafWhole(p), ~LeafHalf(p), ~LeafWhole(p)', ~LeafHalf(p)',
         \A q \in Process \ {p} : /\ proc'[q] = proc[q]
                                  /\ LeafWhole(q)' <=> LeafWhole(q)
                                  /\ LeafHalf(q)' <=> LeafHalf(q)
  PROVE  LeafInv'
  <1> SUFFICES ASSUME mishaps' \cap {"leaf cut", "leaf raced"} = {} PROVE LeafInv'
    BY DEF LeafInv
  <1>1. mishaps \cap {"leaf cut", "leaf raced"} = {}
    OBVIOUS
  <1>2. \A q \in Process : (LeafWhole(q)' <=> LeafWhole(q)) /\ (LeafHalf(q)' <=> LeafHalf(q))
    OBVIOUS
  <1>3. /\ \A q, r \in Process :
             (LeafWhole(q) \/ LeafHalf(q)) /\ (LeafWhole(r) \/ LeafHalf(r)) => q = r
        /\ \A q \in Process : LeafHalf(q) => Head(proc[q].todo).data = disk["server.pem"].pair
        /\ (\A q \in Process : ~LeafHalf(q)) /\ tryLoad =>
             disk["server.pem"].pair = disk["server-key.pem"]
    BY <1>1 DEF LeafInv
  <1>4. \A q, r \in Process :
          (LeafWhole(q)' \/ LeafHalf(q)') /\ (LeafWhole(r)' \/ LeafHalf(r)') => q = r
    BY <1>2, <1>3
  <1>5. \A q \in Process : LeafHalf(q)' => Head(proc'[q].todo).data = disk'["server.pem"].pair
    <2>1. ASSUME NEW q \in Process, LeafHalf(q)'
          PROVE  Head(proc'[q].todo).data = disk'["server.pem"].pair
      <3>1. LeafHalf(q) /\ proc'[q] = proc[q]
        BY <2>1
      <3>2. Head(proc[q].todo).data = disk["server.pem"].pair
        BY <1>3, <3>1
      <3>3. QED
        BY <3>1, <3>2
    <2>2. QED
      BY <2>1
  <1>6. (\A q \in Process : ~LeafHalf(q)') /\ tryLoad' =>
          disk'["server.pem"].pair = disk'["server-key.pem"]
    <2>1. tryLoad' <=> tryLoad
      BY DEF tryLoad, fileExists, LeafFiles
    <2>2. QED
      BY <1>2, <1>3, <2>1
  <1>7. QED
    BY <1>4, <1>5, <1>6 DEF LeafInv

\* With a half of the CA still to come, nobody is past it.
LEMMA NobodyPast ==
  ASSUME ServerInv, "ca raced" \notin mishaps, disk["ca-key.pem"] = None,
         NEW q \in Process
  PROVE  ~PastCa(q)
  <1>1. ASSUME PastCa(q) PROVE FALSE
    <2>1. ProcessInv(q)
      BY DEF ServerInv, ServerTypes
    <2>2. proc[q].caCert \in Nat
      BY <1>1, <2>1, Phases DEF ProcessInv, PastCa
    <2>3. proc[q].caCert = None
      <3>1. \A r \in Process : PastCa(r) => /\ proc[r].caCert = disk["ca.pem"]
                                           /\ disk["ca-key.pem"] = disk["ca.pem"]
        BY DEF ServerInv, CaInv
      <3>2. QED
        BY <1>1, <3>1
    <2>4. QED
      BY <2>2, <2>3, NoneAssumption
  <1>2. QED
    BY <1>1

LEMMA WriteCaCert ==
  ASSUME ServerInv, NEW p \in Process, writePEM(p), CaWhole(p)
  PROVE  ServerInv'
  <1> DEFINE c == proc[p].caCert
             s == [proc[p] EXCEPT !.todo = CaKeyTodo(c)]
  <1>t. ServerTypes /\ \A q \in Process : ProcessInv(q)
    BY DEF ServerInv, ServerTypes
  <1>1. /\ proc[p].todo = CaTodo(c) /\ c \in Nat /\ proc[p].caKey = c
        /\ proc[p].pc = "write" /\ proc[p].sans \in SanList
    BY <1>t, Phases DEF ProcessInv
  <1>2. /\ Head(proc[p].todo) = [file |-> "ca.pem", data |-> c]
        /\ Tail(proc[p].todo) = CaKeyTodo(c)
    <2>1. Head(CaTodo(c)) = [file |-> "ca.pem", data |-> c] /\ Tail(CaTodo(c)) = CaKeyTodo(c)
      BY Shapes
    <2>2. QED
      BY <1>1, <2>1
  <1>3. /\ disk' = [disk EXCEPT !["ca.pem"] = c] /\ Becomes(p, s)
        /\ UNCHANGED <<now, config, made, mishaps>>
    <2>1. Written(p, "ca.pem", disk') = s
      BY <1>2 DEF Written, CaFiles
    <2>2. Head(proc[p].todo).file = "ca.pem" /\ Head(proc[p].todo).data = c
      BY <1>2
    <2>3. QED
      BY <2>1, <2>2 DEF writePEM
  <1>4. /\ disk' = [f \in Files |-> disk'[f]] /\ disk'["ca.pem"] = c
        /\ disk'["ca-key.pem"] = disk["ca-key.pem"]
        /\ disk'["server.pem"] = disk["server.pem"]
        /\ disk'["server-key.pem"] = disk["server-key.pem"]
    BY <1>t, <1>3 DEF ServerTypes, Files, CaFiles, LeafFiles
  <1>5. /\ s = [x \in DOMAIN Ended |-> s[x]] /\ s.todo = CaKeyTodo(c) /\ s.pc = "write"
        /\ s.sans = proc[p].sans /\ s.caCert = c /\ s.caKey = c
    BY <1>t, <1>1, Fields DEF ProcessInv
  <1>6. /\ proc' = [q \in Process |-> proc'[q]] /\ proc'[p] = s
        /\ \A q \in Process \ {p} :
             /\ proc'[q] = proc[q]
             /\ CaWhole(q)' <=> CaWhole(q)
             /\ CaHalf(q)' <=> CaHalf(q)
             /\ LeafWhole(q)' <=> LeafWhole(q)
             /\ LeafHalf(q)' <=> LeafHalf(q)
             /\ PastCa(q)' <=> PastCa(q)
             /\ ProcessInv(q)'
    BY <1>t, <1>3, <1>4, Stays
  <1>7. ~CaHalf(p) /\ ~LeafWhole(p) /\ ~LeafHalf(p) /\ ~PastCa(p)
    BY <1>t, Phases
  <1> HIDE DEF s, c
  <1>8. s.todo # <<>> /\ Head(s.todo) = [file |-> "ca-key.pem", data |-> c]
    <2>1. CaKeyTodo(c) # <<>> /\ Head(CaKeyTodo(c)) = [file |-> "ca-key.pem", data |-> c]
      BY Shapes
    <2>2. QED
      BY <1>5, <2>1
  <1>9. ~CaWhole(p)' /\ CaHalf(p)' /\ ~LeafWhole(p)' /\ ~LeafHalf(p)' /\ ~PastCa(p)'
    <2>1. /\ proc'[p].todo # <<>> /\ Head(proc'[p].todo).file = "ca-key.pem"
          /\ proc'[p].pc = "write"
      BY <1>5, <1>6, <1>8
    <2>2. QED
      BY <2>1 DEF CaWhole, CaHalf, LeafWhole, LeafHalf, AtFile, PastCa
  <1>10. ServerTypes'
    <2>1. ProcessInv(p)'
      BY <1>1, <1>5, <1>6, <1>8, <1>9 DEF ProcessInv, c
    <2>2. /\ \A f \in CaFiles : disk'[f] \in {None} \cup Nat
          /\ disk'["server.pem"] \in {None} \cup Leaf
          /\ disk'["server-key.pem"] \in {None} \cup Nat
      BY <1>t, <1>1, <1>4 DEF ServerTypes, CaFiles, c
    <2>3. QED
      BY <1>t, <1>3, <1>4, <1>6, <2>1, <2>2 DEF ServerTypes
  <1>11. "ca raced" \notin mishaps =>
           /\ disk["ca.pem"] = None /\ disk["ca-key.pem"] = None
           /\ \A q \in Process \ {p} : ~CaWhole(q) /\ ~CaHalf(q)
           /\ \A q \in Process : ~PastCa(q)
    <2>1. "ca raced" \notin mishaps =>
            /\ disk["ca.pem"] = None /\ disk["ca-key.pem"] = None
            /\ \A q \in Process \ {p} : ~CaWhole(q) /\ ~CaHalf(q)
      BY DEF ServerInv, CaInv
    <2>2. QED
      BY <2>1, NobodyPast
  <1>12. CaInv'
    <2> SUFFICES ASSUME "ca raced" \notin mishaps' PROVE CaInv'
      BY DEF CaInv
    <2>1. "ca raced" \notin mishaps
      BY <1>3
    <2>2. \A q \in Process : /\ ~CaWhole(q)' /\ ~PastCa(q)'
                             /\ CaHalf(q)' => q = p
      BY <1>6, <1>9, <1>11, <2>1
    <2>3. disk'["ca-key.pem"] = None /\ disk'["ca.pem"] = proc'[p].caCert
      BY <1>4, <1>5, <1>6, <1>11, <2>1
    <2>4. QED
      BY <2>2, <2>3 DEF CaInv, fileExists, CaFiles
  <1>13. LeafInv'
    BY <1>3, <1>4, <1>6, <1>7, <1>9, LeafKept DEF ServerInv
  <1>14. OriginInv'
    <2> SUFFICES ASSUME mishaps' \cap {"leaf outlived its CA", "ca raced"} = {}
                 PROVE  OriginInv'
      BY DEF OriginInv
    <2>1. mishaps \cap {"leaf outlived its CA", "ca raced"} = {} /\ "ca raced" \notin mishaps
      BY <1>3
    <2>2. disk["server.pem"] = None
      <3>1. CASE disk["server.pem"] # None
        <4>1. disk["server.pem"].ca = None
          BY <1>11, <2>1, <3>1 DEF ServerInv, OriginInv
        <4>2. disk["server.pem"].ca \in Nat
          BY <1>t, <3>1 DEF ServerTypes, Leaf
        <4>3. QED
          BY <4>1, <4>2, NoneAssumption
      <3>2. QED
        BY <3>1
    <2>3. \A q \in Process : proc'[q].pc \in {"lock", "serving"} =>
            proc'[q].cert.ca = proc'[q].caCert
      BY <1>5, <1>6, <2>1 DEF ServerInv, OriginInv
    <2>4. QED
      BY <1>4, <2>2, <2>3 DEF OriginInv
  <1>15. QED
    BY <1>10, <1>12, <1>13, <1>14 DEF ServerInv

LEMMA WriteCaKey ==
  ASSUME ServerInv, NEW p \in Process, writePEM(p), CaHalf(p)
  PROVE  ServerInv'
  <1> DEFINE c == proc[p].caCert
             s == [proc[p] EXCEPT !.pc = "leaf", !.todo = <<>>]
  <1>t. ServerTypes /\ \A q \in Process : ProcessInv(q)
    BY DEF ServerInv, ServerTypes
  <1>1. /\ proc[p].todo = CaKeyTodo(c) /\ c \in Nat /\ proc[p].caKey = c
        /\ proc[p].pc = "write" /\ proc[p].sans \in SanList
    BY <1>t, Phases DEF ProcessInv
  <1>2. Head(proc[p].todo) = [file |-> "ca-key.pem", data |-> c]
    <2>1. Head(CaKeyTodo(c)) = [file |-> "ca-key.pem", data |-> c]
      BY Shapes
    <2>2. QED
      BY <1>1, <2>1
  <1>3. /\ disk' = [disk EXCEPT !["ca-key.pem"] = c] /\ Becomes(p, s)
        /\ UNCHANGED <<now, config, made, mishaps>>
    <2>1. Written(p, "ca-key.pem", disk') = s
      BY <1>2 DEF Written, CaFiles
    <2>2. Head(proc[p].todo).file = "ca-key.pem" /\ Head(proc[p].todo).data = c
      BY <1>2
    <2>3. QED
      BY <2>1, <2>2 DEF writePEM
  <1>4. /\ disk' = [f \in Files |-> disk'[f]] /\ disk'["ca-key.pem"] = c
        /\ disk'["ca.pem"] = disk["ca.pem"]
        /\ disk'["server.pem"] = disk["server.pem"]
        /\ disk'["server-key.pem"] = disk["server-key.pem"]
    BY <1>t, <1>3 DEF ServerTypes, Files, CaFiles, LeafFiles
  <1>5. /\ s = [x \in DOMAIN Ended |-> s[x]] /\ s.todo = <<>> /\ s.pc = "leaf"
        /\ s.sans = proc[p].sans /\ s.caCert = c /\ s.caKey = c
    BY <1>t, <1>1, Fields DEF ProcessInv
  <1>6. /\ proc' = [q \in Process |-> proc'[q]] /\ proc'[p] = s
        /\ \A q \in Process \ {p} :
             /\ proc'[q] = proc[q]
             /\ CaWhole(q)' <=> CaWhole(q)
             /\ CaHalf(q)' <=> CaHalf(q)
             /\ LeafWhole(q)' <=> LeafWhole(q)
             /\ LeafHalf(q)' <=> LeafHalf(q)
             /\ PastCa(q)' <=> PastCa(q)
             /\ ProcessInv(q)'
    BY <1>t, <1>3, <1>4, Stays
  <1>7. ~CaWhole(p) /\ ~LeafWhole(p) /\ ~LeafHalf(p) /\ ~PastCa(p)
    BY <1>t, Phases
  <1> HIDE DEF s, c
  <1>8. ~CaWhole(p)' /\ ~CaHalf(p)' /\ ~LeafWhole(p)' /\ ~LeafHalf(p)' /\ PastCa(p)'
    BY <1>5, <1>6 DEF CaWhole, CaHalf, LeafWhole, LeafHalf, AtFile, PastCa
  <1>9. ServerTypes'
    <2>1. ProcessInv(p)'
      BY <1>1, <1>5, <1>6, <1>8 DEF ProcessInv, c
    <2>2. /\ \A f \in CaFiles : disk'[f] \in {None} \cup Nat
          /\ disk'["server.pem"] \in {None} \cup Leaf
          /\ disk'["server-key.pem"] \in {None} \cup Nat
      BY <1>t, <1>1, <1>4 DEF ServerTypes, CaFiles, c
    <2>3. QED
      BY <1>t, <1>3, <1>4, <1>6, <2>1, <2>2 DEF ServerTypes
  <1>10. CaInv'
    <2> SUFFICES ASSUME "ca raced" \notin mishaps' PROVE CaInv'
      BY DEF CaInv
    <2>1. "ca raced" \notin mishaps
      BY <1>3
    <2>2. /\ disk["ca.pem"] = c /\ disk["ca-key.pem"] = None
          /\ \A q \in Process \ {p} : ~CaWhole(q) /\ ~CaHalf(q)
      BY <2>1 DEF ServerInv, CaInv, c
    <2>3. \A q \in Process : ~PastCa(q)
      BY <2>1, <2>2, NobodyPast
    <2>4. \A q \in Process : ~CaWhole(q)' /\ ~CaHalf(q)' /\ (PastCa(q)' => q = p)
      BY <1>6, <1>8, <2>2, <2>3
    <2>5. disk'["ca-key.pem"] = c /\ disk'["ca.pem"] = c
      BY <1>4, <2>2
    <2>6. QED
      BY <1>5, <1>6, <2>4, <2>5 DEF CaInv, fileExists
  <1>11. LeafInv'
    BY <1>3, <1>4, <1>6, <1>7, <1>8, LeafKept DEF ServerInv
  <1>12. OriginInv'
    BY <1>3, <1>4, <1>5, <1>6 DEF ServerInv, OriginInv
  <1>13. QED
    BY <1>9, <1>10, <1>11, <1>12 DEF ServerInv

LEMMA WriteLeaf ==
  ASSUME ServerInv, NEW p \in Process, writePEM(p), LeafWhole(p)
  PROVE  ServerInv'
  <1> DEFINE leaf == Head(proc[p].todo).data
             s == [proc[p] EXCEPT !.todo = LeafKeyTodo(leaf.pair)]
  <1>t. ServerTypes /\ \A q \in Process : ProcessInv(q)
    BY DEF ServerInv, ServerTypes
  <1>1. /\ proc[p].todo = LeafTodo(leaf) /\ leaf \in Leaf /\ leaf.ca = proc[p].caCert
        /\ proc[p].pc = "write" /\ proc[p].sans \in SanList
        /\ proc[p].caCert \in Nat /\ proc[p].caKey \in Nat
    BY <1>t, Phases DEF ProcessInv
  <1>2. /\ Head(proc[p].todo) = [file |-> "server.pem", data |-> leaf]
        /\ Tail(proc[p].todo) = LeafKeyTodo(leaf.pair)
    <2>1. /\ Head(LeafTodo(leaf)) = [file |-> "server.pem", data |-> leaf]
          /\ Tail(LeafTodo(leaf)) = LeafKeyTodo(leaf.pair)
      BY Shapes
    <2>2. QED
      BY <1>1, <2>1
  <1>3. /\ disk' = [disk EXCEPT !["server.pem"] = leaf] /\ Becomes(p, s)
        /\ UNCHANGED <<now, config, made, mishaps>>
    <2>1. Written(p, "server.pem", disk') = s
      BY <1>2 DEF Written, CaFiles
    <2>2. Head(proc[p].todo).file = "server.pem"
      BY <1>2
    <2>3. QED
      BY <2>1, <2>2 DEF writePEM
  <1>4. /\ disk' = [f \in Files |-> disk'[f]] /\ disk'["server.pem"] = leaf
        /\ disk'["ca.pem"] = disk["ca.pem"]
        /\ disk'["ca-key.pem"] = disk["ca-key.pem"]
        /\ disk'["server-key.pem"] = disk["server-key.pem"]
    BY <1>t, <1>3 DEF ServerTypes, Files, CaFiles, LeafFiles
  <1>5. /\ s = [x \in DOMAIN Ended |-> s[x]] /\ s.todo = LeafKeyTodo(leaf.pair)
        /\ s.pc = "write" /\ s.sans = proc[p].sans
        /\ s.caCert = proc[p].caCert /\ s.caKey = proc[p].caKey
    BY <1>t, <1>1, Fields DEF ProcessInv
  <1>6. /\ proc' = [q \in Process |-> proc'[q]] /\ proc'[p] = s
        /\ \A q \in Process \ {p} :
             /\ proc'[q] = proc[q]
             /\ CaWhole(q)' <=> CaWhole(q)
             /\ CaHalf(q)' <=> CaHalf(q)
             /\ LeafWhole(q)' <=> LeafWhole(q)
             /\ LeafHalf(q)' <=> LeafHalf(q)
             /\ PastCa(q)' <=> PastCa(q)
             /\ ProcessInv(q)'
    BY <1>t, <1>1, <1>3, <1>4, Stays
  <1>7. ~CaWhole(p) /\ ~CaHalf(p) /\ ~LeafHalf(p) /\ PastCa(p)
    BY <1>t, Phases DEF PastCa
  <1>n. leaf.pair \in Nat
    BY <1>1 DEF Leaf
  <1> HIDE DEF s, leaf
  <1>8. s.todo # <<>> /\ Head(s.todo) = [file |-> "server-key.pem", data |-> leaf.pair]
    <2>1. /\ LeafKeyTodo(leaf.pair) # <<>>
          /\ Head(LeafKeyTodo(leaf.pair)) = [file |-> "server-key.pem", data |-> leaf.pair]
      BY Shapes
    <2>2. QED
      BY <1>5, <2>1
  <1>9. /\ ~CaWhole(p)' /\ ~CaHalf(p)' /\ ~LeafWhole(p)' /\ LeafHalf(p)' /\ PastCa(p)'
        /\ Head(proc'[p].todo).data = leaf.pair
    <2>1. /\ proc'[p].todo # <<>> /\ Head(proc'[p].todo).file = "server-key.pem"
          /\ Head(proc'[p].todo).data = leaf.pair
      BY <1>6, <1>8
    <2>2. QED
      BY <2>1 DEF CaWhole, CaHalf, LeafWhole, LeafHalf, AtFile, PastCa
  <1>10. ServerTypes'
    <2>1. ProcessInv(p)'
      BY <1>1, <1>n, <1>4, <1>5, <1>6, <1>9 DEF ProcessInv
    <2>2. /\ \A f \in CaFiles : disk'[f] \in {None} \cup Nat
          /\ disk'["server.pem"] \in {None} \cup Leaf
          /\ disk'["server-key.pem"] \in {None} \cup Nat
      BY <1>t, <1>1, <1>4 DEF ServerTypes, CaFiles
    <2>3. QED
      BY <1>t, <1>3, <1>4, <1>6, <2>1, <2>2 DEF ServerTypes
  <1>11. \A q \in Process : /\ CaWhole(q)' <=> CaWhole(q)
                            /\ CaHalf(q)' <=> CaHalf(q)
                            /\ PastCa(q)' <=> PastCa(q)
                            /\ proc'[q].caCert = proc[q].caCert
                            /\ proc'[q].caKey = proc[q].caKey
    <2>1. /\ CaWhole(p)' <=> CaWhole(p)
          /\ CaHalf(p)' <=> CaHalf(p)
          /\ PastCa(p)' <=> PastCa(p)
          /\ proc'[p].caCert = proc[p].caCert
          /\ proc'[p].caKey = proc[p].caKey
      BY <1>5, <1>6, <1>7, <1>9
    <2>2. QED
      BY <1>6, <2>1
  <1>12. CaInv'
    BY <1>3, <1>4, <1>11 DEF ServerInv, CaInv, fileExists, CaFiles
  <1>13. LeafInv'
    <2> SUFFICES ASSUME mishaps' \cap {"leaf cut", "leaf raced"} = {} PROVE LeafInv'
      BY DEF LeafInv
    <2>1. \A q \in Process \ {p} : ~LeafWhole(q) /\ ~LeafHalf(q)
      BY <1>3 DEF ServerInv, LeafInv
    <2>2. \A q \in Process : ~LeafWhole(q)' /\ (LeafHalf(q)' <=> q = p)
      BY <1>6, <1>9, <2>1
    <2>3. QED
      BY <1>4, <1>9, <2>2 DEF LeafInv
  <1>14. OriginInv'
    <2> SUFFICES ASSUME mishaps' \cap {"leaf outlived its CA", "ca raced"} = {}
                 PROVE  OriginInv'
      BY DEF OriginInv
    <2>1. mishaps \cap {"leaf outlived its CA", "ca raced"} = {} /\ "ca raced" \notin mishaps
      BY <1>3
    <2>2. proc[p].caCert = disk["ca.pem"]
      BY <1>7, <2>1 DEF ServerInv, CaInv
    <2>3. \A q \in Process : proc'[q].pc \in {"lock", "serving"} =>
            proc'[q].cert.ca = proc'[q].caCert
      BY <1>5, <1>6, <2>1 DEF ServerInv, OriginInv
    <2>4. QED
      BY <1>1, <1>4, <2>2, <2>3 DEF OriginInv
  <1>15. QED
    BY <1>10, <1>12, <1>13, <1>14 DEF ServerInv

LEMMA WriteLeafKey ==
  ASSUME ServerInv, NEW p \in Process, writePEM(p), LeafHalf(p)
  PROVE  ServerInv'
  <1> DEFINE n == Head(proc[p].todo).data
             s == Written(p, "server-key.pem", disk')
  <1>t. ServerTypes /\ \A q \in Process : ProcessInv(q)
    BY DEF ServerInv, ServerTypes
  <1>1. /\ proc[p].todo = LeafKeyTodo(n) /\ n \in Nat /\ disk["server.pem"] \in Leaf
        /\ proc[p].pc = "write" /\ proc[p].caCert \in Nat /\ proc[p].caKey \in Nat
    BY <1>t, Phases DEF ProcessInv
  <1>2. Head(proc[p].todo) = [file |-> "server-key.pem", data |-> n]
    <2>1. Head(LeafKeyTodo(n)) = [file |-> "server-key.pem", data |-> n]
      BY Shapes
    <2>2. QED
      BY <1>1, <2>1
  <1>3. /\ disk' = [disk EXCEPT !["server-key.pem"] = n] /\ Becomes(p, s)
        /\ UNCHANGED <<now, config, made, mishaps>>
    <2>1. Head(proc[p].todo).file = "server-key.pem"
      BY <1>2
    <2>2. QED
      BY <2>1 DEF writePEM
  <1>4. /\ disk' = [f \in Files |-> disk'[f]] /\ disk'["server-key.pem"] = n
        /\ disk'["ca.pem"] = disk["ca.pem"]
        /\ disk'["ca-key.pem"] = disk["ca-key.pem"]
        /\ disk'["server.pem"] = disk["server.pem"]
    BY <1>t, <1>3 DEF ServerTypes, Files, CaFiles, LeafFiles
  <1>5. /\ s = [x \in DOMAIN Ended |-> s[x]] /\ s.todo = <<>>
        /\ \/ s.pc = "off"
           \/ /\ s.pc = "lock" /\ s.cert = disk["server.pem"]
              /\ s.caCert = proc[p].caCert /\ s.caKey = proc[p].caKey
    <2>1. CASE p \in Daemon
      <3> DEFINE l == [proc[p] EXCEPT !.pc = "lock", !.todo = <<>>, !.sans = None,
                         !.cert = disk'["server.pem"], !.key = disk'["server-key.pem"]]
      <3>1. s = l
        BY <2>1 DEF Written, CaFiles
      <3>2. /\ l = [x \in DOMAIN Ended |-> l[x]] /\ l.todo = <<>>
            /\ l.pc = "lock" /\ l.cert = disk'["server.pem"]
            /\ l.caCert = proc[p].caCert /\ l.caKey = proc[p].caKey
        BY <1>t, Fields DEF ProcessInv
      <3> HIDE DEF l, s
      <3>3. QED
        BY <1>4, <3>1, <3>2
    <2>2. CASE p \notin Daemon
      <3>1. s = Ended
        BY <2>2 DEF Written, CaFiles
      <3>2. Ended = [x \in DOMAIN Ended |-> Ended[x]] /\ Ended.todo = <<>> /\ Ended.pc = "off"
        BY DEF Ended
      <3> HIDE DEF s
      <3>3. QED
        BY <3>1, <3>2
    <2>3. QED
      BY <2>1, <2>2
  <1>6. /\ proc' = [q \in Process |-> proc'[q]] /\ proc'[p] = s
        /\ \A q \in Process \ {p} :
             /\ proc'[q] = proc[q]
             /\ CaWhole(q)' <=> CaWhole(q)
             /\ CaHalf(q)' <=> CaHalf(q)
             /\ LeafWhole(q)' <=> LeafWhole(q)
             /\ LeafHalf(q)' <=> LeafHalf(q)
             /\ PastCa(q)' <=> PastCa(q)
             /\ ProcessInv(q)'
    BY <1>t, <1>3, <1>4, Stays
  <1>7. ~CaWhole(p) /\ ~CaHalf(p) /\ ~LeafWhole(p) /\ PastCa(p)
    BY <1>t, Phases DEF PastCa
  <1> HIDE DEF s, n
  <1>8. /\ ~CaWhole(p)' /\ ~CaHalf(p)' /\ ~LeafWhole(p)' /\ ~LeafHalf(p)'
        /\ PastCa(p)' => /\ proc'[p].caCert = proc[p].caCert
                         /\ proc'[p].caKey = proc[p].caKey
    BY <1>5, <1>6 DEF CaWhole, CaHalf, LeafWhole, LeafHalf, AtFile, PastCa
  <1>9. ServerTypes'
    <2>1. ProcessInv(p)'
      BY <1>1, <1>5, <1>6, <1>8 DEF ProcessInv
    <2>2. /\ \A f \in CaFiles : disk'[f] \in {None} \cup Nat
          /\ disk'["server.pem"] \in {None} \cup Leaf
          /\ disk'["server-key.pem"] \in {None} \cup Nat
      BY <1>t, <1>1, <1>4 DEF ServerTypes, CaFiles
    <2>3. QED
      BY <1>t, <1>3, <1>4, <1>6, <2>1, <2>2 DEF ServerTypes
  <1>10. CaInv'
    <2> SUFFICES ASSUME "ca raced" \notin mishaps' PROVE CaInv'
      BY DEF CaInv
    <2>1. \A q \in Process :
            /\ CaWhole(q)' => CaWhole(q) /\ proc'[q] = proc[q]
            /\ CaHalf(q)' => CaHalf(q) /\ proc'[q] = proc[q]
            /\ PastCa(q)' => /\ PastCa(q)
                             /\ proc'[q].caCert = proc[q].caCert
                             /\ proc'[q].caKey = proc[q].caKey
      BY <1>6, <1>7, <1>8
    <2>2. QED
      BY <1>3, <1>4, <2>1, ZenonT(30) DEF ServerInv, CaInv, fileExists, CaFiles
  <1>11. LeafInv'
    <2> SUFFICES ASSUME mishaps' \cap {"leaf cut", "leaf raced"} = {} PROVE LeafInv'
      BY DEF LeafInv
    <2>1. /\ \A q \in Process \ {p} : ~LeafWhole(q) /\ ~LeafHalf(q)
          /\ n = disk["server.pem"].pair
      BY <1>3 DEF ServerInv, LeafInv, n
    <2>2. \A q \in Process : ~LeafWhole(q)' /\ ~LeafHalf(q)'
      BY <1>6, <1>8, <2>1
    <2>3. QED
      BY <1>4, <2>1, <2>2 DEF LeafInv
  <1>12. OriginInv'
    <2> SUFFICES ASSUME mishaps' \cap {"leaf outlived its CA", "ca raced"} = {}
                 PROVE  OriginInv'
      BY DEF OriginInv
    <2>1. mishaps \cap {"leaf outlived its CA", "ca raced"} = {} /\ "ca raced" \notin mishaps
      BY <1>3
    <2>2. /\ disk["server.pem"] # None => disk["server.pem"].ca = disk["ca.pem"]
          /\ proc[p].caCert = disk["ca.pem"]
      BY <1>7, <2>1 DEF ServerInv, CaInv, OriginInv
    <2>3. disk["server.pem"] # None
      BY <1>1, NoneAssumption
    <2>4. s.pc \in {"lock", "serving"} => s.cert.ca = s.caCert
      BY <1>5, <2>2, <2>3
    <2>5. \A q \in Process : proc'[q].pc \in {"lock", "serving"} =>
            proc'[q].cert.ca = proc'[q].caCert
      BY <1>6, <2>1, <2>4 DEF ServerInv, OriginInv
    <2>6. QED
      BY <1>4, <2>2, <2>5 DEF OriginInv
  <1>13. QED
    BY <1>9, <1>10, <1>11, <1>12 DEF ServerInv

\* The operator's two ways of deleting files, every process being stopped.
LEMMA FilesDeleted ==
  ASSUME ServerInv, Stopped, NEW gone \in SUBSET Files, Remove(gone),
         UNCHANGED <<now, config, proc, made>>, mishaps \subseteq mishaps',
         gone = Files \/ /\ gone \in {{"ca.pem"}, {"ca-key.pem"}}
                         /\ tryLoad \/ disk["server.pem"] # None =>
                              "leaf outlived its CA" \in mishaps'
  PROVE  ServerInv'
  <1>t. ServerTypes /\ \A q \in Process : ProcessInv(q)
    BY DEF ServerInv, ServerTypes
  <1>1. /\ disk' = [f \in Files |-> disk'[f]]
        /\ \A f \in Files : disk'[f] = IF f \in gone THEN None ELSE disk[f]
    BY DEF Remove
  <1>2. \A q \in Process :
          /\ ~CaWhole(q) /\ ~CaHalf(q) /\ ~LeafWhole(q) /\ ~LeafHalf(q) /\ ~PastCa(q)
          /\ proc[q].pc = "off"
    BY <1>t, Phases DEF Stopped, PastCa
  <1>3. \A q \in Process :
          /\ ~CaWhole(q)' /\ ~CaHalf(q)' /\ ~LeafWhole(q)' /\ ~LeafHalf(q)' /\ ~PastCa(q)'
          /\ proc'[q] = proc[q]
    BY <1>2, Unmoved
  <1>4. ServerTypes'
    <2>1. \A q \in Process : ProcessInv(q)'
      BY <1>t, <1>2, <1>3 DEF ProcessInv
    <2>2. /\ \A f \in CaFiles : disk'[f] \in {None} \cup Nat
          /\ disk'["server.pem"] \in {None} \cup Leaf
          /\ disk'["server-key.pem"] \in {None} \cup Nat
      BY <1>t, <1>1 DEF ServerTypes, Files, CaFiles, LeafFiles
    <2>3. QED
      BY <1>t, <1>1, <2>1, <2>2 DEF ServerTypes
  <1>5. CaInv'
    <2>1. \E f \in CaFiles : disk'[f] = None
      BY <1>1 DEF Files, CaFiles
    <2>2. QED
      BY <1>3, <2>1 DEF CaInv, fileExists
  <1>6. LeafInv'
    <2> SUFFICES ASSUME mishaps' \cap {"leaf cut", "leaf raced"} = {} PROVE LeafInv'
      BY DEF LeafInv
    <2>1. mishaps \cap {"leaf cut", "leaf raced"} = {}
      OBVIOUS
    <2>2. tryLoad => disk["server.pem"].pair = disk["server-key.pem"]
      BY <1>2, <2>1 DEF ServerInv, LeafInv
    <2>3. CASE gone = Files
      <3>1. ~tryLoad'
        BY <1>1, <2>3 DEF tryLoad, fileExists, Files, LeafFiles
      <3>2. QED
        BY <1>3, <3>1 DEF LeafInv
    <2>4. CASE gone # Files
      <3>1. \A f \in LeafFiles : disk'[f] = disk[f]
        BY <1>1, <2>4 DEF Files, LeafFiles
      <3>2. QED
        BY <1>3, <2>2, <3>1 DEF LeafInv, tryLoad, fileExists, LeafFiles
    <2>5. QED
      BY <2>3, <2>4
  <1>7. OriginInv'
    <2> SUFFICES ASSUME mishaps' \cap {"leaf outlived its CA", "ca raced"} = {}
                 PROVE  OriginInv'
      BY DEF OriginInv
    <2>1. disk'["server.pem"] = None
      BY <1>1 DEF Files, LeafFiles
    <2>2. QED
      BY <1>2, <1>3, <2>1 DEF OriginInv
  <1>8. QED
    BY <1>4, <1>5, <1>6, <1>7 DEF ServerInv

LEMMA ServerStep ==
  ASSUME ServerInv, ServerNext
  PROVE  ServerInv'
  <1>1. ASSUME NEW p \in Process, writePEM(p) PROVE ServerInv'
    <2>1. CaWhole(p) \/ CaHalf(p) \/ LeafWhole(p) \/ LeafHalf(p)
      BY <1>1 DEF writePEM, ServerInv, ServerTypes, ProcessInv
    <2>2. QED
      BY <1>1, <2>1, WriteCaCert, WriteCaKey, WriteLeaf, WriteLeafKey
  <1>2. ASSUME NEW f \in CaFiles, LoseCaHalf(f) PROVE ServerInv'
    <2>1. /\ mishaps \subseteq mishaps'
          /\ (\E l \in LeafFiles : fileExists(l)) => "leaf outlived its CA" \in mishaps'
      BY <1>2, MishapsGrow DEF LoseCaHalf
    <2>2. tryLoad \/ disk["server.pem"] # None => \E l \in LeafFiles : fileExists(l)
      BY DEF tryLoad, fileExists, LeafFiles
    <2>3. {f} \in SUBSET Files /\ {f} \in {{"ca.pem"}, {"ca-key.pem"}}
      BY DEF Files, CaFiles
    <2>4. QED
      BY <1>2, <2>1, <2>2, <2>3, FilesDeleted DEF LoseCaHalf
  <1>3. ASSUME RotateCA PROVE ServerInv'
    <2>1. Files \in SUBSET Files
      OBVIOUS
    <2>2. QED
      BY <1>3, <2>1, FilesDeleted DEF RotateCA
  <1>4. ASSUME NEW p \in Process, EnsureCA(p) PROVE ServerInv'
    BY <1>4, QuietSteps, GenerateCA DEF EnsureCA
  <1>5. QED
    BY <1>1, <1>2, <1>3, <1>4, QuietSteps, GenerateServerCert DEF ServerNext

-----------------------------------------------------------------------------
(* The agent's files.                                                      *)

IInv == ServerInv /\ AgentTypes /\ ClockInv /\ MaterialInv

\* All that puck-agent does.
AgentSteps ==
  \/ \E d \in Daemon : EnrollAnswered(d) \/ RenewAnswered(d)
  \/ EnrollSkips \/ EnrollStarts \/ PersistEnrolled \/ EnrollFails
  \/ ServeAgent \/ CertExpired \/ Connect \/ RenewFails
  \/ PersistRenewed \/ PersistFails \/ StreamEnds \/ AgentDies

LEMMA InitAgent == Init => AgentTypes /\ ClockInv /\ MaterialInv
  <1> SUFFICES ASSUME Init PROVE AgentTypes /\ ClockInv /\ MaterialInv
    OBVIOUS
  <1>1. adisk = NoMaterial /\ agent = AgentOff /\ enroll = EnrollOff /\ pairs = 0
    BY DEF Init
  <1>2. AgentTypes
    BY <1>1, PairsAssumption
       DEF AgentTypes, ClientInv, Persisting, AgentOff, EnrollOff, NoMaterial, NoNew
  <1>3. ClockInv
    BY <1>1 DEF ClockInv, AgentOff
  <1>4. MaterialInv
    <2>1. agent.pc = "off" /\ enroll.pc = "off" /\ adisk.cert = None
      BY <1>1 DEF AgentOff, EnrollOff, NoMaterial, NoNew
    <2>2. QED
      BY <2>1 DEF MaterialInv, Persisting
  <1>5. QED
    BY <1>2, <1>3, <1>4

\* The server's steps take no time, an agent's leave the server's files alone.
LEMMA Frames ==
  /\ ServerNext => now' = now /\ mishaps \subseteq mishaps'
  /\ AgentSteps => now' = now /\ UNCHANGED serverVars /\ mishaps \subseteq mishaps'
  <1>1. ASSUME ServerNext PROVE now' = now /\ mishaps \subseteq mishaps'
    BY <1>1, MishapsGrow
       DEF ServerNext, StartDaemon, KeepLeaf, Serve, ServeRefused, Rotate, EnsureCA, loadCA,
           EnsureCARefuses, generateCA, generateServerCert, CreateCertificateFails, writePEM,
           Dies, LoseCaHalf, RotateCA
  <1>2. ASSUME AgentSteps PROVE now' = now /\ UNCHANGED serverVars /\ mishaps \subseteq mishaps'
    BY <1>2, MishapsGrow
       DEF AgentSteps, EnrollAnswered, RenewAnswered, EnrollSkips, EnrollStarts,
           PersistEnrolled, EnrollFails, ServeAgent, CertExpired, Connect, RenewFails,
           PersistRenewed, PersistFails, StreamEnds, AgentDies
  <1>3. QED
    BY <1>1, <1>2

LEMMA ServerKept ==
  ASSUME ServerInv, UNCHANGED serverVars, now' \in 0 .. MaxNow, mishaps \subseteq mishaps'
  PROVE  ServerInv'
  <1>1. /\ config' = config /\ disk' = disk /\ proc' = proc /\ made' = made
    BY DEF serverVars
  <1>2. \A p \in Process :
          /\ CaWhole(p)' <=> CaWhole(p)
          /\ CaHalf(p)' <=> CaHalf(p)
          /\ LeafWhole(p)' <=> LeafWhole(p)
          /\ LeafHalf(p)' <=> LeafHalf(p)
          /\ PastCa(p)' <=> PastCa(p)
          /\ ProcessInv(p) => ProcessInv(p)'
    BY <1>1, Unmoved
  <1>3. ServerTypes'
    BY <1>1, <1>2 DEF ServerInv, ServerTypes
  <1>4. CaInv'
    BY <1>1, <1>2 DEF ServerInv, CaInv, fileExists
  <1>5. LeafInv'
    BY <1>1, <1>2 DEF ServerInv, LeafInv, tryLoad, fileExists
  <1>6. OriginInv'
    BY <1>1 DEF ServerInv, OriginInv
  <1>7. QED
    BY <1>3, <1>4, <1>5, <1>6 DEF ServerInv

\* What the server answers with.
LEMMA Answers ==
  ASSUME ServerInv, NEW d \in Daemon, Serving(d), NEW pair \in Nat
  PROVE  /\ Response(d, pair).cert \in Cert
         /\ Response(d, pair) = [cert |-> Response(d, pair).cert,
                                 key |-> Response(d, pair).cert.pair,
                                 ca |-> Response(d, pair).cert.ca]
         /\ Response(d, pair).ca = proc[d].caCert
  <1>1. proc[d].caCert \in Nat
    BY DEF ServerInv, ServerTypes, ProcessInv, Serving, Process
  <1>2. now + Life \in Nat
    BY LifeAssumption DEF ServerInv, ServerTypes
  <1>3. QED
    BY <1>1, <1>2 DEF Response, SignAgentCert, Cert

LEMMA NewPairs ==
  ASSUME AgentTypes, NewPair
  PROVE  pairs' \in Nat /\ pairs' \in 0 .. MaxAgentPairs
  BY PairsAssumption DEF AgentTypes, NewPair

LEMMA NextFiles ==
  NextFile("cert") = "key" /\ NextFile("key") = "ca" /\ NextFile("ca") = "persisted"
  BY DEF NextFile

LEMMA AgentFields ==
  /\ DOMAIN AgentOff = {"pc", "id", "pin", "watched", "since", "failed", "new"}
  /\ DOMAIN EnrollOff = {"pc", "fp", "new"}
  /\ DOMAIN NoMaterial = {"cert", "key", "ca"}
  BY DEF AgentOff, EnrollOff, NoMaterial, NoNew

\* The state after a failed renewal, field by field.
LEMMA AfterFailed ==
  ASSUME AgentTypes
  PROVE  LET a == AfterFailedRenewal IN
         /\ a = [x \in DOMAIN AgentOff |-> a[x]]
         /\ a.pc = "stream" /\ a.id = agent.id /\ a.since = now
         /\ a.failed = TRUE /\ a.new = NoNew
         /\ a.watched = IF adisk.cert # None THEN adisk.cert.until ELSE agent.watched
         /\ a.watched \in Nat
  <1>1. agent = [x \in DOMAIN AgentOff |-> agent[x]]
    BY DEF AgentTypes
  <1>2. adisk.cert # None => adisk.cert.until \in Nat
    BY DEF AgentTypes, Cert
  <1>3. agent.watched \in Nat
    BY DEF AgentTypes
  <1>4. QED
    BY <1>1, <1>2, <1>3, AgentFields DEF AfterFailedRenewal

\* A process's state is as AgentTypes asks.
AgentFine(a) ==
  /\ a = [x \in DOMAIN AgentOff |-> a[x]]
  /\ a.pc \in {"off", "top", "stream", "cert", "key", "ca"}
  /\ a.pc # "off" => a.id \in Cert
  /\ a.watched \in Nat /\ a.since \in Nat /\ a.failed \in BOOLEAN
  /\ ClientInv(a)

EnrollFine(e) ==
  /\ e = [x \in DOMAIN EnrollOff |-> e[x]]
  /\ e.pc \in {"off", "post", "cert", "key", "ca", "skipped"}
  /\ ClientInv(e)

MaterialFine(m) ==
  /\ m = [x \in DOMAIN NoMaterial |-> m[x]]
  /\ m.cert \in {None} \cup Cert

LEMMA Parts ==
  AgentTypes <=> /\ MaterialFine(adisk) /\ AgentFine(agent) /\ EnrollFine(enroll)
                 /\ pairs \in 0 .. MaxAgentPairs
  BY DEF AgentTypes, AgentFine, EnrollFine, MaterialFine

LEMMA OffFine ==
  AgentFine(AgentOff) /\ EnrollFine(EnrollOff) /\ MaterialFine(NoMaterial)
  BY DEF AgentFine, EnrollFine, MaterialFine, ClientInv, Persisting, AgentOff, EnrollOff,
         NoMaterial, NoNew

LEMMA TypesStep ==
  ASSUME ServerInv, AgentTypes, AgentSteps
  PROVE  AgentTypes'
  <1>t. /\ MaterialFine(adisk) /\ AgentFine(agent) /\ EnrollFine(enroll)
        /\ pairs \in 0 .. MaxAgentPairs
    BY Parts
  <1>n. now \in Nat
    BY DEF ServerInv, ServerTypes
  <1>p. AgentTypes' <=> /\ MaterialFine(adisk') /\ AgentFine(agent') /\ EnrollFine(enroll')
                        /\ pairs' \in 0 .. MaxAgentPairs
    BY Parts DEF AgentTypes, AgentFine, EnrollFine, MaterialFine
  <1>1. ASSUME NEW d \in Daemon, EnrollAnswered(d) PROVE AgentTypes'
    <2>1. EnrollFine(enroll')
      <3>1. CASE enroll' = EnrollOff
        BY <3>1, OffFine
      <3>2. CASE enroll' = [EnrollOff EXCEPT !.pc = "cert", !.new = Response(d, pairs')]
        <4>1. /\ enroll' = [x \in DOMAIN EnrollOff |-> enroll'[x]]
              /\ enroll'.pc = "cert" /\ enroll'.new = Response(d, pairs')
          BY <3>2 DEF EnrollOff
        <4>2. QED
          BY <1>1, <4>1, Answers, NewPairs DEF EnrollAnswered, EnrollFine, ClientInv, Persisting
      <3>3. QED
        BY <1>1, <3>1, <3>2 DEF EnrollAnswered
    <2>2. QED
      BY <1>1, <1>t, <1>p, <2>1, NewPairs DEF EnrollAnswered
  <1>2. ASSUME NEW d \in Daemon, RenewAnswered(d) PROVE AgentTypes'
    <2>1. AgentFine(agent')
      <3>1. /\ agent' = [x \in DOMAIN AgentOff |-> agent'[x]]
            /\ agent'.pc = "cert" /\ agent'.new = Response(d, pairs')
            /\ agent'.id = agent.id /\ agent'.watched = agent.watched
            /\ agent'.since = agent.since /\ agent'.failed = agent.failed
        BY <1>2, <1>t, AgentFields DEF RenewAnswered, AgentFine
      <3>2. agent.id \in Cert /\ Serving(d)
        BY <1>2, <1>t DEF RenewAnswered, RenewalDue, AgentFine, Handshake
      <3>3. /\ agent'.new.cert \in Cert
            /\ agent'.new = [cert |-> agent'.new.cert, key |-> agent'.new.cert.pair,
                             ca |-> agent'.new.cert.ca]
        BY <1>2, <3>1, <3>2, Answers, NewPairs DEF RenewAnswered
      <3>4. QED
        BY <1>t, <3>1, <3>2, <3>3 DEF AgentFine, ClientInv, Persisting
    <2>2. QED
      BY <1>2, <1>t, <1>p, <2>1, NewPairs DEF RenewAnswered
  <1>3. ASSUME EnrollSkips PROVE AgentTypes'
    <2>1. EnrollFine(enroll')
      BY <1>3 DEF EnrollSkips, EnrollFine, ClientInv, Persisting, EnrollOff
    <2>2. QED
      BY <1>3, <1>t, <1>p, <2>1 DEF EnrollSkips
  <1>4. ASSUME EnrollStarts PROVE AgentTypes'
    <2>1. EnrollFine(enroll')
      <3>1. enroll' = EnrollOff \/ enroll' = [EnrollOff EXCEPT !.pc = "post", !.fp = fingerprint]
        BY <1>4 DEF EnrollStarts
      <3>2. EnrollFine([EnrollOff EXCEPT !.pc = "post", !.fp = fingerprint])
        BY DEF EnrollFine, ClientInv, Persisting, EnrollOff
      <3>3. QED
        BY <3>1, <3>2, OffFine
    <2>2. MaterialFine(adisk')
      BY <1>4, <1>t, OffFine, AgentFields, ZenonT(30) DEF EnrollStarts, MaterialFine
    <2>3. QED
      BY <1>4, <1>t, <1>p, <2>1, <2>2 DEF EnrollStarts
  <1>5. ASSUME PersistEnrolled PROVE AgentTypes'
    <2>1. EnrollFine(enroll')
      <3>1. CASE enroll' = EnrollOff
        BY <3>1, OffFine
      <3>2. CASE enroll' = [enroll EXCEPT !.pc = NextFile(@)] /\ NextFile(enroll.pc) # "persisted"
        <4>1. /\ enroll' = [x \in DOMAIN EnrollOff |-> enroll'[x]]
              /\ enroll'.pc \in {"key", "ca"} /\ enroll'.new = enroll.new
          BY <1>5, <1>t, <3>2, AgentFields, NextFiles DEF PersistEnrolled, Persisting, EnrollFine
        <4>2. QED
          BY <1>5, <1>t, <4>1 DEF PersistEnrolled, EnrollFine, ClientInv, Persisting
      <3>3. QED
        BY <1>5, <3>1, <3>2 DEF PersistEnrolled
    <2>2. MaterialFine(adisk')
      BY <1>5, <1>t, AgentFields
         DEF PersistEnrolled, MaterialFine, EnrollFine, ClientInv, Persisting
    <2>3. QED
      BY <1>5, <1>t, <1>p, <2>1, <2>2 DEF PersistEnrolled
  <1>6. ASSUME EnrollFails PROVE AgentTypes'
    BY <1>6, <1>t, <1>p, OffFine DEF EnrollFails
  <1>7. ASSUME ServeAgent PROVE AgentTypes'
    <2>1. /\ agent' = [x \in DOMAIN AgentOff |-> agent'[x]]
          /\ agent'.pc = "top" /\ agent'.new = NoNew /\ agent'.failed = FALSE
          /\ agent'.id = adisk.cert /\ agent'.watched = adisk.cert.until /\ agent'.since = now
      BY <1>7 DEF ServeAgent, AgentOff
    <2>2. adisk.cert \in Cert
      BY <1>7, <1>t DEF ServeAgent, MaterialFine
    <2>3. AgentFine(agent')
      BY <1>n, <2>1, <2>2 DEF AgentFine, ClientInv, Persisting, Cert
    <2>4. QED
      BY <1>7, <1>t, <1>p, <2>3 DEF ServeAgent
  <1>8. ASSUME CertExpired \/ AgentDies PROVE AgentTypes'
    BY <1>8, <1>t, <1>p, OffFine DEF CertExpired, AgentDies
  <1>9. ASSUME Connect \/ StreamEnds PROVE AgentTypes'
    <2>1. /\ agent' = [x \in DOMAIN AgentOff |-> agent'[x]]
          /\ agent'.pc \in {"top", "stream"} /\ agent'.id = agent.id
          /\ agent'.watched = agent.watched /\ agent'.since \in Nat
          /\ agent'.failed = agent.failed /\ agent'.new = agent.new
          /\ agent.pc \in {"top", "stream"}
      BY <1>9, <1>t, <1>n, AgentFields DEF Connect, StreamEnds, AgentFine
    <2>2. AgentFine(agent')
      BY <1>t, <2>1 DEF AgentFine, ClientInv, Persisting
    <2>3. QED
      BY <1>9, <1>t, <1>p, <2>2 DEF Connect, StreamEnds
  <1>10. ASSUME RenewFails \/ PersistFails PROVE AgentTypes'
    <2>1. agent' = AfterFailedRenewal /\ agent.pc # "off"
      BY <1>10 DEF RenewFails, PersistFails, RenewalDue, Persisting
    <2>2. AgentFine(agent')
      BY <1>t, <1>n, <2>1, AfterFailed DEF AgentFine, ClientInv, Persisting
    <2>3. QED
      BY <1>10, <1>t, <1>p, <2>2 DEF RenewFails, PersistFails
  <1>11. ASSUME PersistRenewed PROVE AgentTypes'
    <2>1. AgentFine(agent')
      <3>1. CASE agent' = AgentOff
        BY <3>1, OffFine
      <3>2. CASE agent' = [agent EXCEPT !.pc = NextFile(@)] /\ NextFile(agent.pc) # "persisted"
        <4>1. /\ agent' = [x \in DOMAIN AgentOff |-> agent'[x]]
              /\ agent'.pc \in {"key", "ca"} /\ agent'.new = agent.new /\ agent'.id = agent.id
              /\ agent'.watched = agent.watched /\ agent'.since = agent.since
              /\ agent'.failed = agent.failed
          BY <1>11, <1>t, <3>2, AgentFields, NextFiles DEF PersistRenewed, Persisting, AgentFine
        <4>2. QED
          BY <1>11, <1>t, <4>1 DEF PersistRenewed, AgentFine, ClientInv, Persisting
      <3>3. QED
        BY <1>11, <3>1, <3>2 DEF PersistRenewed
    <2>2. MaterialFine(adisk')
      BY <1>11, <1>t, AgentFields
         DEF PersistRenewed, MaterialFine, AgentFine, ClientInv, Persisting
    <2>3. QED
      BY <1>11, <1>t, <1>p, <2>1, <2>2 DEF PersistRenewed
  <1>12. QED
    BY <1>1, <1>2, <1>3, <1>4, <1>5, <1>6, <1>7, <1>8, <1>9, <1>10, <1>11 DEF AgentSteps

LEMMA ClockStep ==
  ASSUME ServerInv, AgentTypes, ClockInv, AgentSteps
  PROVE  ClockInv'
  <1>t. AgentFine(agent) /\ MaterialFine(adisk)
    BY Parts
  <1>n. now \in Nat /\ now' = now /\ Window \in Nat
    BY Frames, LifeAssumption DEF ServerInv, ServerTypes
  <1> USE DEF ClockInv
  <1>1. CASE agent' = agent
    BY <1>1, <1>n
  <1>2. CASE agent' = AgentOff
    BY <1>2 DEF AgentOff
  <1>3. CASE agent' = AfterFailedRenewal
    BY <1>3, AfterFailed
  <1>4. ASSUME NEW d \in Daemon, RenewAnswered(d) PROVE ClockInv'
    <2>1. /\ agent'.pc = "cert" /\ agent'.id = agent.id /\ agent'.watched = agent.watched
          /\ agent'.since = agent.since /\ agent'.failed = agent.failed /\ agent.pc = "top"
      BY <1>4, <1>t, AgentFields DEF RenewAnswered, RenewalDue, AgentFine
    <2>2. QED
      BY <1>n, <2>1
  <1>5. ASSUME ServeAgent PROVE ClockInv'
    <2>1. /\ agent'.pc = "top" /\ agent'.id = adisk.cert /\ agent'.watched = adisk.cert.until
          /\ agent'.since = now /\ now < adisk.cert.until
      BY <1>5 DEF ServeAgent, AgentOff
    <2>2. QED
      BY <1>n, <2>1
  <1>6. ASSUME Connect PROVE ClockInv'
    <2>1. /\ agent'.pc = "stream" /\ agent'.id = agent.id /\ agent'.watched = agent.watched
          /\ agent'.since = now /\ agent'.failed = agent.failed /\ agent.pc = "top"
          /\ ~(agent.watched - now < Window) /\ agent.watched \in Nat
      BY <1>6, <1>t, AgentFields DEF Connect, should_renew, AgentFine
    <2>2. QED
      BY <1>n, <2>1
  <1>7. ASSUME StreamEnds PROVE ClockInv'
    <2>1. /\ agent'.pc = "top" /\ agent'.id = agent.id /\ agent'.watched = agent.watched
          /\ agent'.since = agent.since /\ agent'.failed = agent.failed /\ agent.pc = "stream"
      BY <1>7, <1>t, AgentFields DEF StreamEnds, AgentFine
    <2>2. QED
      BY <1>n, <2>1
  <1>8. ASSUME PersistRenewed, agent' # AgentOff PROVE ClockInv'
    <2>1. /\ agent'.pc \in {"key", "ca"} /\ agent'.id = agent.id
          /\ agent'.watched = agent.watched /\ agent.pc \in {"cert", "key"}
          /\ agent'.since = agent.since /\ agent'.failed = agent.failed
      BY <1>8, <1>t, AgentFields, NextFiles DEF PersistRenewed, Persisting, AgentFine
    <2>2. QED
      BY <1>n, <2>1
  <1>9. QED
    BY <1>1, <1>2, <1>3, <1>4, <1>5, <1>6, <1>7, <1>8
       DEF AgentSteps, EnrollAnswered, EnrollSkips, EnrollStarts, PersistEnrolled, EnrollFails,
           CertExpired, RenewFails, PersistFails, AgentDies

\* What a client that is persisting has in hand.
LEMMA NewFields ==
  ASSUME NEW c, ClientInv(c), Persisting(c)
  PROVE  c.new.cert \in Cert /\ c.new.key = c.new.cert.pair /\ c.new.ca = c.new.cert.ca
  <1> DEFINE n == c.new
             k == n.cert
  <1>1. n = [cert |-> k, key |-> k.pair, ca |-> k.ca] /\ k \in Cert
    BY DEF ClientInv
  <1> HIDE DEF k
  <1>2. n.key = k.pair /\ n.ca = k.ca
    BY <1>1
  <1>3. QED
    BY <1>1, <1>2 DEF k

LEMMA MaterialStep ==
  ASSUME ServerInv, AgentTypes, MaterialInv, AgentSteps
  PROVE  MaterialInv'
  <1> SUFFICES ASSUME ~Went({"agent cut", "enrolled beside the agent"})' PROVE MaterialInv'
    BY DEF MaterialInv
  <1>t. AgentFine(agent) /\ MaterialFine(adisk) /\ EnrollFine(enroll)
    BY Parts
  <1>w. /\ "agent cut" \notin mishaps' /\ "enrolled beside the agent" \notin mishaps'
        /\ ~Went({"agent cut", "enrolled beside the agent"})
    BY Frames DEF Went
  <1>m. /\ agent.pc # "off" => enroll.pc \in {"off", "skipped"}
        /\ agent.pc \in {"top", "stream", "cert"} =>
             adisk.cert = agent.id /\ agent.watched = agent.id.until
        /\ agent.pc \in {"key", "ca"} => agent.watched = agent.id.until
        /\ Persisting(agent) => agent.new.ca = adisk.ca
        /\ enroll.pc \in {"post", "cert"} => adisk.cert = None
        /\ agent.pc \in {"key", "ca"} => adisk.cert = agent.new.cert
        /\ agent.pc = "ca" => adisk.key = agent.new.key
        /\ enroll.pc \in {"key", "ca"} => adisk.cert = enroll.new.cert
        /\ enroll.pc = "ca" => adisk.key = enroll.new.key
        /\ {agent.pc, enroll.pc} \cap {"key", "ca"} = {} /\ adisk.cert # None /\ adisk.key # None =>
             /\ adisk.cert.pair = adisk.key
             /\ adisk.ca # None => adisk.cert.ca = adisk.ca
    BY <1>w DEF MaterialInv
  <1> USE DEF Persisting
  <1>1. ASSUME NEW d \in Daemon, EnrollAnswered(d) PROVE MaterialInv'
    <2>1. adisk' = adisk /\ agent' = agent /\ enroll.pc = "post" /\ enroll'.pc \in {"off", "cert"}
      BY <1>1 DEF EnrollAnswered, EnrollOff
    <2>2. QED
      BY <1>m, <2>1 DEF MaterialInv
  <1>2. ASSUME NEW d \in Daemon, RenewAnswered(d) PROVE MaterialInv'
    <2>1. /\ agent'.pc = "cert" /\ agent'.new = Response(d, pairs')
          /\ agent'.id = agent.id /\ agent'.watched = agent.watched /\ agent.pc = "top"
          /\ adisk' = adisk /\ enroll' = enroll
      BY <1>2, <1>t, AgentFields DEF RenewAnswered, RenewalDue, AgentFine
    <2>2. agent'.new.ca = adisk.ca
      <3>1. Serving(d) /\ pairs' \in Nat /\ adisk.ca = proc[d].caCert
        BY <1>2, NewPairs DEF RenewAnswered, Handshake
      <3>2. QED
        BY <2>1, <3>1, Answers
    <2>3. QED
      BY <1>m, <2>1, <2>2 DEF MaterialInv
  <1>3. ASSUME EnrollSkips PROVE MaterialInv'
    <2>1. enroll.pc \in {"off", "skipped"} /\ enroll'.pc = "skipped" /\ adisk' = adisk /\ agent' = agent
      BY <1>3 DEF EnrollSkips, EnrollOff
    <2>2. QED
      BY <1>m, <2>1 DEF MaterialInv
  <1>4. ASSUME EnrollStarts PROVE MaterialInv'
    <2>1. enroll'.pc \in {"off", "post"} /\ agent' = agent /\ agent.pc = "off"
      <3>1. enroll' = EnrollOff \/ enroll' = [EnrollOff EXCEPT !.pc = "post", !.fp = fingerprint]
        BY <1>4 DEF EnrollStarts
      <3>2. enroll'.pc \in {"off", "post"}
        <4>1. EnrollOff.pc = "off" /\ [EnrollOff EXCEPT !.pc = "post", !.fp = fingerprint].pc = "post"
          BY DEF EnrollOff
        <4>2. QED
          BY <3>1, <4>1
      <3>3. agent' = agent /\ Mishap("enrolled beside the agent", agent.pc # "off")
        BY <1>4 DEF EnrollStarts, agentVars
      <3>4. agent.pc = "off"
        BY <1>w, <3>3, MishapsGrow
      <3>5. QED
        BY <3>2, <3>3, <3>4
    <2>2. adisk'.cert = None
      <3>1. \/ adisk.cert = None /\ adisk' = adisk
            \/ adisk' = NoMaterial
            \/ adisk' = [adisk EXCEPT !.cert = None]
            \/ adisk' = [adisk EXCEPT !.cert = None, !.key = None]
        BY <1>4 DEF EnrollStarts
      <3>2. QED
        <4>1. /\ NoMaterial.cert = None
              /\ [adisk EXCEPT !.cert = None].cert = None
              /\ [adisk EXCEPT !.cert = None, !.key = None].cert = None
          BY <1>t, AgentFields DEF NoMaterial, NoNew, MaterialFine
        <4>2. QED
          BY <3>1, <4>1
    <2>3. QED
      BY <2>1, <2>2 DEF MaterialInv
  <1>5. ASSUME PersistEnrolled PROVE MaterialInv'
    <2>1. /\ agent' = agent /\ agent.pc = "off" /\ enroll.pc \in {"cert", "key", "ca"}
          /\ enroll.new.key = enroll.new.cert.pair /\ enroll.new.ca = enroll.new.cert.ca
          /\ enroll.new.cert \in Cert
      <3>1. Persisting(enroll) /\ ClientInv(enroll)
        BY <1>5, <1>t DEF PersistEnrolled, EnrollFine
      <3>2. QED
        BY <1>5, <1>m, <3>1, NewFields DEF PersistEnrolled
    <2>2. CASE enroll.pc = "cert"
      <3>1. /\ adisk'.cert = enroll.new.cert /\ enroll'.pc = "key" /\ enroll'.new = enroll.new
        BY <1>5, <1>t, <2>2, AgentFields, NextFiles DEF PersistEnrolled, MaterialFine, EnrollFine
      <3>2. QED
        BY <2>1, <3>1 DEF MaterialInv
    <2>3. CASE enroll.pc = "key"
      <3>1. /\ adisk'.cert = enroll.new.cert /\ adisk'.key = enroll.new.key
            /\ enroll'.pc = "ca" /\ enroll'.new = enroll.new
        BY <1>5, <1>m, <1>t, <2>3, AgentFields, NextFiles
           DEF PersistEnrolled, MaterialFine, EnrollFine
      <3>2. QED
        BY <2>1, <3>1 DEF MaterialInv
    <2>4. CASE enroll.pc = "ca"
      <3>1. /\ adisk'.cert = enroll.new.cert /\ adisk'.key = enroll.new.key
            /\ adisk'.ca = enroll.new.ca /\ enroll'.pc = "off"
        BY <1>5, <1>m, <1>t, <2>4, AgentFields, NextFiles
           DEF PersistEnrolled, MaterialFine, EnrollOff
      <3>2. QED
        BY <2>1, <3>1 DEF MaterialInv
    <2>5. QED
      BY <2>1, <2>2, <2>3, <2>4
  <1>6. ASSUME EnrollFails PROVE MaterialInv'
    <2>1. /\ enroll'.pc = "off" /\ enroll.pc \in {"post", "cert"}
          /\ agent' = agent /\ adisk' = adisk
      BY <1>6, <1>w, MishapsGrow DEF EnrollFails, EnrollOff
    <2>2. QED
      BY <1>m, <2>1 DEF MaterialInv
  <1>7. ASSUME ServeAgent PROVE MaterialInv'
    <2>1. /\ agent'.pc = "top" /\ agent'.id = adisk.cert /\ agent'.watched = adisk.cert.until
          /\ agent.pc = "off" /\ adisk' = adisk /\ enroll' = enroll
          /\ enroll.pc \in {"off", "skipped"}
      BY <1>7, <1>w, MishapsGrow DEF ServeAgent, AgentOff
    <2>2. QED
      BY <1>m, <2>1 DEF MaterialInv
  <1>8. ASSUME CertExpired \/ AgentDies PROVE MaterialInv'
    <2>1. /\ agent'.pc = "off" /\ agent.pc \notin {"off", "key", "ca"}
          /\ adisk' = adisk /\ enroll' = enroll
      <3>1. CASE CertExpired
        BY <3>1 DEF CertExpired, AgentOff
      <3>2. CASE AgentDies
        <4>1. /\ Mishap("agent cut", agent.pc \in {"key", "ca"}) /\ agent.pc # "off"
              /\ agent' = AgentOff /\ adisk' = adisk /\ enroll' = enroll
          BY <3>2 DEF AgentDies
        <4>2. agent.pc \notin {"key", "ca"}
          BY <1>w, <4>1, MishapsGrow
        <4>3. QED
          BY <4>1, <4>2 DEF AgentOff
      <3>3. QED
        BY <1>8, <3>1, <3>2
    <2>2. QED
      BY <1>m, <2>1 DEF MaterialInv
  <1>9. ASSUME Connect \/ StreamEnds PROVE MaterialInv'
    <2>1. /\ agent'.pc \in {"top", "stream"} /\ agent'.id = agent.id
          /\ agent'.watched = agent.watched /\ agent.pc \in {"top", "stream"}
          /\ adisk' = adisk /\ enroll' = enroll
      BY <1>9, <1>t, AgentFields DEF Connect, StreamEnds, AgentFine
    <2>2. QED
      BY <1>m, <2>1 DEF MaterialInv
  <1>10. ASSUME RenewFails \/ PersistFails PROVE MaterialInv'
    <2>1. /\ agent' = AfterFailedRenewal /\ agent.pc \in {"top", "cert"}
          /\ adisk' = adisk /\ enroll' = enroll
      BY <1>10, <1>w, MishapsGrow DEF RenewFails, PersistFails, RenewalDue
    <2>2. /\ agent'.pc = "stream" /\ agent'.id = agent.id
          /\ agent'.watched = IF adisk.cert # None THEN adisk.cert.until ELSE agent.watched
      BY <2>1, AfterFailed
    <2>3. QED
      BY <1>m, <2>1, <2>2 DEF MaterialInv
  <1>11. ASSUME PersistRenewed PROVE MaterialInv'
    <2>1. /\ enroll' = enroll /\ agent.pc \in {"cert", "key", "ca"}
          /\ enroll.pc \in {"off", "skipped"}
          /\ agent.new.key = agent.new.cert.pair /\ agent.new.ca = agent.new.cert.ca
          /\ agent.new.cert \in Cert
      <3>1. Persisting(agent) /\ ClientInv(agent)
        BY <1>11, <1>t DEF PersistRenewed, AgentFine
      <3>2. QED
        BY <1>11, <1>m, <3>1, NewFields DEF PersistRenewed
    <2>2. CASE agent.pc = "cert"
      <3>1. /\ adisk'.cert = agent.new.cert /\ adisk'.ca = adisk.ca
            /\ agent'.pc = "key" /\ agent'.new = agent.new
            /\ agent'.id = agent.id /\ agent'.watched = agent.watched
        BY <1>11, <1>t, <2>2, AgentFields, NextFiles DEF PersistRenewed, MaterialFine, AgentFine
      <3>2. QED
        BY <1>m, <2>1, <2>2, <3>1 DEF MaterialInv
    <2>3. CASE agent.pc = "key"
      <3>1. /\ adisk'.cert = adisk.cert /\ adisk'.key = agent.new.key /\ adisk'.ca = adisk.ca
            /\ agent'.pc = "ca" /\ agent'.new = agent.new
            /\ agent'.id = agent.id /\ agent'.watched = agent.watched
        BY <1>11, <1>t, <2>3, AgentFields, NextFiles DEF PersistRenewed, MaterialFine, AgentFine
      <3>2. QED
        BY <1>m, <2>1, <2>3, <3>1 DEF MaterialInv
    <2>4. CASE agent.pc = "ca"
      <3>1. /\ adisk'.cert = adisk.cert /\ adisk'.key = adisk.key
            /\ adisk'.ca = agent.new.ca /\ agent'.pc = "off"
        BY <1>11, <1>t, <2>4, AgentFields, NextFiles DEF PersistRenewed, MaterialFine, AgentOff
      <3>2. QED
        BY <1>m, <2>1, <2>4, <3>1 DEF MaterialInv
    <2>5. QED
      BY <2>1, <2>2, <2>3, <2>4
  <1>12. QED
    BY <1>1, <1>2, <1>3, <1>4, <1>5, <1>6, <1>7, <1>8, <1>9, <1>10, <1>11 DEF AgentSteps

-----------------------------------------------------------------------------
(* The inductive invariant and what follows from it.                       *)

LEMMA Inductive ==
  /\ Init => IInv
  /\ IInv /\ [Next]_vars => IInv'
  <1>1. Init => IInv
    BY InitServer, InitAgent DEF IInv
  <1>2. ASSUME IInv, AgentSteps PROVE IInv'
    <2>1. UNCHANGED serverVars /\ mishaps \subseteq mishaps' /\ now' \in 0 .. MaxNow
      BY <1>2, Frames DEF IInv, ServerInv, ServerTypes
    <2>2. ServerInv'
      BY <1>2, <2>1, ServerKept DEF IInv
    <2>3. QED
      BY <1>2, <2>2, TypesStep, ClockStep, MaterialStep DEF IInv
  <1>3. ASSUME IInv, UNCHANGED agentVars, now' = now, mishaps \subseteq mishaps', ServerInv'
        PROVE  IInv'
    <2>1. adisk' = adisk /\ agent' = agent /\ enroll' = enroll /\ pairs' = pairs
      BY <1>3 DEF agentVars
    <2>2. AgentTypes'
      BY <1>3, <2>1 DEF IInv, AgentTypes, ClientInv, Persisting
    <2>3. ClockInv'
      BY <1>3, <2>1 DEF IInv, ClockInv
    <2>4. MaterialInv'
      BY <1>3, <2>1 DEF IInv, MaterialInv, Persisting, Went
    <2>5. QED
      BY <1>3, <2>2, <2>3, <2>4 DEF IInv
  <1>4. ASSUME IInv, ServerNext /\ UNCHANGED agentVars PROVE IInv'
    BY <1>3, <1>4, ServerStep, Frames DEF IInv
  <1>5. ASSUME IInv, Tick PROVE IInv'
    <2>1. /\ now' = now + 1 /\ UNCHANGED serverVars /\ mishaps' = mishaps
          /\ adisk' = adisk /\ agent' = agent /\ enroll' = enroll /\ pairs' = pairs
      BY <1>5 DEF Tick, agentVars
    <2>2. now \in Nat /\ now < MaxNow /\ MaxNow \in Nat
      BY <1>5, BoundsAssumption DEF Tick, IInv, ServerInv, ServerTypes
    <2>3. now' \in 0 .. MaxNow
      BY <2>1, <2>2
    <2>4. ServerInv'
      BY <1>5, <2>1, <2>3, ServerKept DEF IInv
    <2>5. AgentTypes'
      BY <1>5, <2>1 DEF IInv, AgentTypes, ClientInv, Persisting
    <2>6. MaterialInv'
      BY <1>5, <2>1 DEF IInv, MaterialInv, Persisting, Went
    <2>7. ClockInv'
      <3>1. agent.pc = "off" \/ agent.pc = "stream"
        BY <1>5 DEF Tick
      <3>2. agent.pc = "stream" /\ ~agent.failed =>
              agent.watched = agent.id.until /\ agent.watched - agent.since >= Window
        BY <1>5 DEF IInv, ClockInv
      <3>3. QED
        BY <2>1, <3>1, <3>2 DEF ClockInv
    <2>8. QED
      BY <2>4, <2>5, <2>6, <2>7 DEF IInv
  <1>6. ASSUME IInv, UNCHANGED vars PROVE IInv'
    <2>1. UNCHANGED serverVars /\ mishaps' = mishaps /\ now' = now /\ UNCHANGED agentVars
      BY <1>6 DEF vars
    <2>2. now' \in 0 .. MaxNow
      BY <1>6, <2>1 DEF IInv, ServerInv, ServerTypes
    <2>3. ServerInv'
      BY <1>6, <2>1, <2>2, ServerKept DEF IInv
    <2>4. QED
      BY <1>3, <1>6, <2>1, <2>3
  <1>7. QED
    BY <1>1, <1>2, <1>4, <1>5, <1>6 DEF Next, AgentSteps

\* Types, and that a process has files left to write exactly while it writes.
THEOREM CertTypeCorrect == Spec => []TypeOK
  <1>1. IInv => TypeOK
    <2> SUFFICES ASSUME IInv PROVE TypeOK
      OBVIOUS
    <2>1. ServerTypes /\ \A p \in Process : ProcessInv(p)
      BY DEF IInv, ServerInv, ServerTypes
    <2>2. /\ now \in 0 .. MaxNow /\ config \in SanList
          /\ made \in [ca : 0 .. MaxCa, pair : 0 .. MaxPairs, run : 0 .. MaxRuns]
      BY <2>1 DEF ServerTypes
    <2>3. DOMAIN disk = Files
      BY <2>1 DEF ServerTypes
    <2>4. \A p \in Process :
            /\ proc[p].pc \in {"off", "ca", "leaf", "write", "lock", "serving"}
            /\ proc[p].pc = "write" <=> proc[p].todo # <<>>
      BY <2>1, Phases DEF ProcessInv
    <2>5. \A c \in {agent, enroll} : Persisting(c) <=> c.new # NoNew
      <3>1. ASSUME NEW c, ClientInv(c) PROVE Persisting(c) <=> c.new # NoNew
        <4>1. CASE Persisting(c)
          <5>1. c.new.cert \in Cert
            BY <3>1, <4>1 DEF ClientInv
          <5>2. NoNew.cert \notin Cert
            BY NoCertAssumption DEF NoNew
          <5>3. QED
            BY <4>1, <5>1, <5>2
        <4>2. CASE ~Persisting(c)
          BY <3>1, <4>2 DEF ClientInv
        <4>3. QED
          BY <4>1, <4>2
      <3>2. QED
        BY <3>1 DEF IInv, AgentTypes
    <2>6. /\ agent.pc \in {"off", "top", "stream", "cert", "key", "ca"}
          /\ enroll.pc \in {"off", "post", "cert", "key", "ca", "skipped"}
          /\ adisk.cert \in {None} \cup Cert
          /\ pairs \in 0 .. MaxAgentPairs
      BY DEF IInv, AgentTypes
    <2>7. QED
      BY <2>2, <2>3, <2>4, <2>5, <2>6 DEF TypeOK
  <1>2. QED
    BY <1>1, Inductive, PTL DEF Spec

\* Neither side is left with a certificate beside another's key, but where a
\* writer was cut between its files or two writers overlapped.
THEOREM TornCorrect == Spec => []TornOnlyByMishap
  <1>1. IInv => TornOnlyByMishap
    <2> SUFFICES ASSUME IInv PROVE TornOnlyByMishap
      OBVIOUS
    <2>1. ASSUME \A p \in Process : ~Writing(p, LeafFiles), tryLoad,
                 ~Went({"leaf cut", "leaf raced"})
          PROVE  disk["server.pem"].pair = disk["server-key.pem"]
      <3>1. \A p \in Process : ~LeafHalf(p)
        BY <2>1, Writes DEF IInv, ServerInv, ServerTypes
      <3>2. QED
        BY <2>1, <3>1 DEF IInv, ServerInv, LeafInv, Went
    <2>2. ASSUME ClientsIdle, adisk.cert # None, adisk.key # None,
                 ~Went({"agent cut", "enrolled beside the agent"})
          PROVE  adisk.cert.pair = adisk.key
      BY <2>2 DEF IInv, MaterialInv, ClientsIdle, Persisting
    <2>3. QED
      BY <2>1, <2>2 DEF TornOnlyByMishap
  <1>2. QED
    BY <1>1, Inductive, PTL DEF Spec

\* A running agent's certificate lapses only after a failed renewal, or in a stream
\* that began before the renewal window did.
THEOREM LapseCorrect == Spec => []LapseHasItsReason
  <1>1. IInv => LapseHasItsReason
    <2> SUFFICES ASSUME IInv, agent.pc # "off", now >= agent.id.until, ~agent.failed
                 PROVE  agent.id.until - agent.since >= Window
      BY DEF LapseHasItsReason
    <2>1. /\ agent.watched = agent.id.until
          /\ now < agent.watched \/ agent.watched - agent.since >= Window
      BY DEF IInv, ClockInv
    <2>2. now \in Nat /\ agent.watched \in Nat
      BY DEF IInv, AgentTypes, ServerInv, ServerTypes
    <2>3. QED
      BY <2>1, <2>2
  <1>2. QED
    BY <1>1, Inductive, PTL DEF Spec

\* The loop goes by the expiry of the certificate it presents, unless a failed
\* renewal read another one from the disk.
THEOREM WatchCorrect == Spec => []WatchesItsOwnCertificate
  <1>1. IInv => WatchesItsOwnCertificate
    <2> SUFFICES ASSUME IInv, agent.pc # "off", agent.watched # agent.id.until
                 PROVE  agent.failed /\ Went({"agent cut", "enrolled beside the agent"})
      BY DEF WatchesItsOwnCertificate
    <2>1. agent.failed
      BY DEF IInv, ClockInv
    <2>2. agent.pc \in {"top", "stream", "cert", "key", "ca"}
      BY DEF IInv, AgentTypes
    <2>3. Went({"agent cut", "enrolled beside the agent"})
      BY <2>2 DEF IInv, MaterialInv
    <2>4. QED
      BY <2>1, <2>3
  <1>2. QED
    BY <1>1, Inductive, PTL DEF Spec

\* An agent whose three files are complete and whose CA is the one the server
\* loaded can connect, be authenticated and renew.
THEOREM ServedCorrect == Spec => []EnrolledAgentIsServed
  <1>1. IInv => EnrolledAgentIsServed
    <2> SUFFICES ASSUME IInv, NEW d \in Daemon, Serving(d), ClientsIdle,
                        ~Went({"leaf outlived its CA", "ca raced", "agent cut",
                               "enrolled beside the agent"}),
                        \A f \in DOMAIN adisk : adisk[f] # None,
                        adisk.ca = proc[d].caCert,
                        now < adisk.cert.until, now < proc[d].cert.until,
                        proc[d].cert.sans \in Covering
                 PROVE  /\ adisk.cert.pair = adisk.key
                        /\ Handshake(d, adisk.cert, adisk.ca)
                        /\ CanSign(d)
      BY DEF EnrolledAgentIsServed
    <2>1. DOMAIN adisk = {"cert", "key", "ca"}
      BY AgentFields DEF IInv, AgentTypes
    <2>2. adisk.cert # None /\ adisk.key # None /\ adisk.ca # None
      BY <2>1
    <2>3. adisk.cert.pair = adisk.key /\ adisk.cert.ca = adisk.ca
      BY <2>2 DEF IInv, MaterialInv, ClientsIdle, Persisting, Went
    <2>4. d \in Process /\ PastCa(d)
      BY DEF Process, PastCa, Serving
    <2>5. proc[d].caCert = proc[d].caKey
      BY <2>4 DEF IInv, ServerInv, CaInv, Went
    <2>6. proc[d].cert.ca = proc[d].caCert
      BY <2>4 DEF IInv, ServerInv, OriginInv, Went, Serving
    <2>7. QED
      BY <2>3, <2>5, <2>6 DEF Handshake, CanSign
  <1>2. QED
    BY <1>1, Inductive, PTL DEF Spec
=============================================================================
