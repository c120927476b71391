---------------------------- MODULE DispatchProofs ----------------------------
(***************************************************************************)
(* Proofs about the dispatch of tool calls, for any number of              *)
(* investigations, calls, hosts and items, any caps and any fan-out limit. *)
(***************************************************************************)
EXTENDS Dispatch, FiniteSetTheorems, SequenceTheorems, TLAPS

LEMMA Bounds ==
  /\ MaxItems \in Nat \ {0} /\ MaxCommands \in Nat /\ MaxBudget \in Nat /\ FanoutLimit \in Nat
  /\ NoHost \notin Hosts /\ NoItem \notin Items
  BY DispatchAssumption DEF DispatchAssumption

LEMMA RequestsAreSequences ==
  \A targets \in Requests :
    targets \in Seq(Targets) /\ Len(targets) \in 1..MaxItems
  <1> SUFFICES ASSUME NEW n \in 1..MaxItems, NEW targets \in [1..n -> Targets]
               PROVE  targets \in Seq(Targets) /\ Len(targets) \in 1..MaxItems
    BY DEF Requests
  <1>1. n \in Nat
    BY Bounds
  <1>2. targets \in Seq(Targets)
    BY <1>1, SeqDef
  <1>3. Len(targets) = n
    BY <1>1, <1>2, LenProperties
  <1>4. QED
    BY <1>2, <1>3

LEMMA ItemParts == \A c \in Items : c[1] \in Calls /\ c[2] \in 1..MaxItems /\ c = <<c[1], c[2]>>
  <1> SUFFICES ASSUME NEW t \in Calls, NEW n \in 1..MaxItems
               PROVE  LET c == <<t, n>> IN c[1] \in Calls /\ c[2] \in 1..MaxItems /\ c = <<c[1], c[2]>>
    BY DEF Items
  <1> QED
    OBVIOUS

-----------------------------------------------------------------------------
(* Types.                                                                  *)

LEMMA InitType == Init => TypeOK
  <1> SUFFICES ASSUME Init PROVE TypeOK
    OBVIOUS
  <1>1. InvTypes
    BY Bounds DEF Init, InvTypes
  <1>2. CallTypes
    <2>1. <<>> \in Seq(Targets) /\ Len(<<>>) = 0
      OBVIOUS
    <2>2. QED
      BY <2>1, Bounds DEF Init, CallTypes, CallStates, Kinds
  <1>3. ItemTypes
    BY DEF Init, ItemTypes
  <1>4. QueueTypes
    BY DEF Init, QueueTypes, Queue!Init
  <1>5. QED
    BY <1>1, <1>2, <1>3, <1>4 DEF TypeOK

LEMMA CostType ==
  ASSUME CallTypes, NEW t \in Calls
  PROVE  Cost(t) \in Nat
  <1>1. call[t].targets \in Seq(Targets)
    BY DEF CallTypes
  <1>2. Len(call[t].targets) \in Nat
    BY <1>1, LenProperties
  <1>3. QED
    BY <1>2 DEF Cost

LEMMA InvKept == InvTypes /\ UNCHANGED <<invVars, logOpen>> => InvTypes'
  BY DEF InvTypes, invVars

LEMMA CallKept == CallTypes /\ UNCHANGED call => CallTypes'
  BY DEF CallTypes

LEMMA ItemKept == ItemTypes /\ UNCHANGED itemVars => ItemTypes'
  BY DEF ItemTypes, itemVars, fileVars

LEMMA QueueKept == QueueTypes /\ UNCHANGED queueVars => QueueTypes'
  BY DEF QueueTypes, queueVars

\* A step that moves one item on.
LEMMA StepType ==
  ASSUME ItemTypes, NEW c \in Items, NEW from,
         NEW to \in InFlight \union Finished,
         Step(c, from, to), UNCHANGED fileVars
  PROVE  ItemTypes'
  BY DEF Step, ItemTypes, fileVars

LEMMA GoToType ==
  ASSUME CallTypes, NEW t \in Calls, NEW pc \in CallStates, GoTo(t, pc)
  PROVE  CallTypes'
  <1> DEFINE Call == [pc : CallStates, kind : Kinds, inv : Invs \union {NoInv},
                      phase : {"pathfinder", "complete"}, targets : Seq(Targets)]
  <1>1. call[t] \in Call /\ [call[t] EXCEPT !.pc = pc] \in Call
        /\ [call[t] EXCEPT !.pc = pc].targets = call[t].targets
    BY DEF CallTypes
  <1>2. call' = [call EXCEPT ![t] = [call[t] EXCEPT !.pc = pc]] /\ call \in [Calls -> Call]
    BY DEF GoTo, CallTypes
  <1> HIDE DEF Call
  <1>3. call' \in [Calls -> Call]
    BY <1>1, <1>2
  <1>4. \A u \in Calls : call'[u].targets = call[u].targets
    BY <1>1, <1>2
  <1>5. QED
    BY <1>3, <1>4 DEF CallTypes, Call

LEMMA TargetType ==
  ASSUME CallTypes, NEW c \in Items, c[2] \in DOMAIN call[c[1]].targets
  PROVE  TargetOf(c).host \in Hosts
  <1>1. call[c[1]].targets \in Seq(Targets)
    BY ItemParts DEF CallTypes
  <1>2. call[c[1]].targets[c[2]] \in Targets
    BY <1>1, ElementOfSeq, LenProperties
  <1>3. QED
    BY <1>2 DEF TargetOf, Targets

\* A started item has a file to write.
LEMMA DestType ==
  ASSUME TypeOK, DispatchInv, NEW c \in Items, itemPc[c] # "todo"
  PROVE  Dest(c) \in Invs \X Hosts
  <1>1. call[c[1]].pc \in Charged /\ c[2] \in DOMAIN call[c[1]].targets /\ c[1] \in Calls
    BY ItemParts DEF DispatchInv, ItemInv
  <1>2. InvOf(c) \in Invs
    BY <1>1 DEF DispatchInv, CallInv, Charged, InvOf
  <1>3. TargetOf(c).host \in Hosts
    BY <1>1, TargetType DEF TypeOK
  <1>4. QED
    BY <1>2, <1>3 DEF Dest

\* The investigations and the calls are well typed whatever the items do.
LEMMA NextRequests == InvTypes /\ CallTypes /\ [Next]_vars => InvTypes' /\ CallTypes'
  <1> SUFFICES ASSUME InvTypes, CallTypes, [Next]_vars PROVE InvTypes' /\ CallTypes'
    OBVIOUS
  <1>1. CASE UNCHANGED <<invVars, logOpen, call>>
    BY <1>1, InvKept, CallKept
  <1>2. ASSUME NEW i \in Invs, Investigate(i) \/ Continue(i) \/ SaveAnalysis(i)
        PROVE  InvTypes' /\ CallTypes'
    <2>1. UNCHANGED call
      BY <1>2 DEF Investigate, CreateCheck, CreateStore, SetupFails, SetupDone, Continue,
                  SaveAnalysis, SaveSetPhase, SaveLogEnd, SaveCloseLog, SaveVars
    <2>2. ASSUME Investigate(i) PROVE InvTypes'
      BY <1>2, <2>2
      DEF Investigate, CreateCheck, CreateStore, SetupFails, SetupDone, InvTypes, logVars
    <2>3. ASSUME Continue(i) PROVE InvTypes'
      BY <1>2, <2>3 DEF Continue, InvTypes, logVars
    <2>4. ASSUME SaveAnalysis(i) PROVE InvTypes'
      BY <1>2, <2>4
      DEF SaveAnalysis, SaveSetPhase, SaveLogEnd, SaveCloseLog, SaveVars, Log, InvTypes, logVars
    <2>5. QED
      BY <1>2, <2>1, <2>2, <2>3, <2>4, CallKept
  <1>3. ASSUME NEW t \in Calls, Begin(t) PROVE InvTypes' /\ CallTypes'
    <2> DEFINE Call == [pc : CallStates, kind : Kinds, inv : Invs \union {NoInv},
                        phase : {"pathfinder", "complete"}, targets : Seq(Targets)]
    <2>1. PICK i \in Invs, kind \in Tools, targets \in Requests :
            call' = [call EXCEPT ![t] = [pc |-> "admitted", kind |-> kind, inv |-> i,
                                         phase |-> phase[i], targets |-> targets]]
      BY <1>3 DEF Begin
    <2>2. targets \in Seq(Targets) /\ Len(targets) <= MaxItems
      BY RequestsAreSequences, Bounds
    <2>3. phase[i] \in {"pathfinder", "complete"} /\ kind \in Kinds
      BY DispatchAssumption DEF InvTypes
    <2>4. [pc |-> "admitted", kind |-> kind, inv |-> i, phase |-> phase[i], targets |-> targets]
            \in Call
      BY <2>2, <2>3 DEF CallStates
    <2>5. call' \in [Calls -> Call]
      BY <2>1, <2>4 DEF CallTypes
    <2>6. \A u \in Calls : Len(call'[u].targets) <= MaxItems
      BY <2>1, <2>2 DEF CallTypes
    <2>7. UNCHANGED <<invVars, logVars>>
      BY <1>3 DEF Begin
    <2>8. QED
      BY <2>5, <2>6, <2>7, InvKept DEF CallTypes, logVars
  <1>4. ASSUME NEW t \in Calls, Reject(t) \/ NoActiveAgents(t) \/ CapReached(t) \/ Return(t)
        PROVE  InvTypes' /\ CallTypes'
    <2>1. (GoTo(t, "refused") \/ GoTo(t, "returned")) /\ UNCHANGED <<invVars, logOpen>>
      BY <1>4 DEF Reject, NoActiveAgents, CapReached, Return, Log, logVars
    <2>2. QED
      BY <2>1, InvKept, GoToType DEF CallStates
  <1>5. ASSUME NEW t \in Calls, Charge(t) PROVE InvTypes' /\ CallTypes'
    <2>1. Cost(t) \in Nat
      BY CostType
    <2>2. CallTypes'
      BY <1>5, GoToType DEF Charge, CallStates
    <2>3. InvTypes'
      BY <1>5, <2>1 DEF Charge, InvTypes, logVars
    <2>4. QED
      BY <2>2, <2>3
  <1>6. ASSUME NEW c \in Items, Work(c) \/ AgentTakes(c) \/ AgentAnswers(c)
        PROVE  UNCHANGED <<invVars, logOpen, call>>
    BY <1>6 DEF Work, ItemReject, ItemStale, ItemAudit, ItemEnqueue, ItemResult, ItemTimeout,
                ItemWrite, ItemOpen, ItemOpenFails, ItemPut, ItemPutFails, ItemAuditResult,
                AgentTakes, AgentAnswers, Log, logVars
  <1>7. QED
    BY <1>1, <1>2, <1>3, <1>4, <1>5, <1>6 DEF Next, Decide, Start, vars, logVars

LEMMA NextType == TypeOK /\ DispatchInv /\ [Next]_vars => TypeOK'
  <1> SUFFICES ASSUME TypeOK, DispatchInv, [Next]_vars PROVE TypeOK'
    OBVIOUS
  <1>a. InvTypes /\ CallTypes /\ ItemTypes /\ QueueTypes
    BY DEF TypeOK
  <1>b. InvTypes' /\ CallTypes'
    BY <1>a, NextRequests
  <1>1. CASE UNCHANGED <<itemVars, queueVars>>
    BY <1>a, <1>b, <1>1, ItemKept, QueueKept DEF TypeOK
  <1>2. ASSUME NEW i \in Invs, Investigate(i) \/ Continue(i) \/ SaveAnalysis(i)
        PROVE  UNCHANGED <<itemVars, queueVars>>
    BY <1>2 DEF Investigate, CreateCheck, CreateStore, SetupFails, SetupDone, Continue,
                SaveAnalysis, SaveSetPhase, SaveLogEnd, SaveCloseLog, SaveVars
  <1>3. ASSUME NEW t \in Calls, Begin(t) \/ Decide(t) \/ Return(t)
        PROVE  UNCHANGED <<itemVars, queueVars>>
    BY <1>3 DEF Begin, Decide, Reject, NoActiveAgents, Charge, CapReached, Return
  <1>4. ASSUME NEW t \in Calls, NEW n \in 1..MaxItems, Start(t, n) PROVE TypeOK'
    <2>1. <<t, n>> \in Items
      BY DEF Items
    <2>2. UNCHANGED <<invVars, logVars, fileVars, call, queueVars>>
          /\ Step(<<t, n>>, "todo", "started")
      BY <1>4 DEF Start
    <2>3. ItemTypes'
      BY <1>a, <2>1, <2>2, StepType DEF InFlight
    <2>4. QED
      BY <1>a, <1>b, <2>2, <2>3, QueueKept DEF TypeOK, logVars
  <1>5. ASSUME NEW c \in Items, ItemReject(c) \/ ItemStale(c) \/ ItemAudit(c) \/ ItemAuditResult(c)
         PROVE  TypeOK'
    <2>1. UNCHANGED <<invVars, logOpen, fileVars, call, queueVars>>
      BY <1>5 DEF ItemReject, ItemStale, ItemAudit, ItemAuditResult, Log, logVars
    <2>2. ItemTypes'
      BY <1>5, <1>a, <2>1, StepType
      DEF ItemReject, ItemStale, ItemAudit, ItemAuditResult, InFlight, Finished
    <2>3. QED
      BY <1>a, <1>b, <2>1, <2>2, QueueKept DEF TypeOK
  <1>6. ASSUME NEW c \in Items, ItemEnqueue(c) PROVE TypeOK'
    <2>1. UNCHANGED <<invVars, logVars, fileVars, call>> /\ Step(c, "audited", "waiting")
      BY <1>6 DEF ItemEnqueue
    <2>2. ItemTypes'
      BY <1>a, <2>1, StepType DEF InFlight
    <2>3. TargetOf(c).host \in Hosts
      BY <1>a, <2>1, TargetType DEF DispatchInv, ItemInv, Step
    <2>4. QueueTypes'
      BY <1>6, <1>a, <2>3 DEF ItemEnqueue, Queue!Assign, QueueTypes
    <2>5. QED
      BY <1>a, <1>b, <2>1, <2>2, <2>4 DEF TypeOK
  <1>7. ASSUME NEW c \in Items, ItemResult(c) \/ ItemTimeout(c) PROVE TypeOK'
    <2>1. UNCHANGED <<invVars, logVars, fileVars, call>>
      BY <1>7 DEF ItemResult, ItemTimeout
    <2>2. ItemTypes'
      BY <1>7, <1>a, <2>1, StepType DEF ItemResult, ItemTimeout, InFlight, Finished
    <2>3. QueueTypes'
      BY <1>7, <1>a DEF ItemResult, ItemTimeout, Queue!Reply, Queue!GiveUp, QueueTypes
    <2>4. QED
      BY <1>a, <1>b, <2>1, <2>2, <2>3 DEF TypeOK
  <1>8. ASSUME NEW c \in Items, ItemWrite(c) PROVE TypeOK'
    <2>1. UNCHANGED <<invVars, logVars, call, queueVars>>
      BY <1>8 DEF ItemWrite, ItemOpen, ItemOpenFails, ItemPut, ItemPutFails
    <2>2. /\ itemPc \in [Items -> {"todo"} \union InFlight \union Finished]
          /\ files \in [Invs \X Hosts -> Items \union {NoItem, Empty, Torn}]
          /\ spoiled \subseteq Invs \X Hosts /\ saved \subseteq Items
      BY <1>a DEF ItemTypes
    <2>3. /\ \/ Step(c, "result", "opened") \/ Step(c, "result", "written")
             \/ Step(c, "opened", "written")
          /\ saved' \subseteq saved \union {c}
          /\ \/ files' = files
             \/ \E x \in Items \union {NoItem, Empty, Torn} : files' = [files EXCEPT ![Dest(c)] = x]
          /\ spoiled' \subseteq spoiled \union {Dest(c)}
      <3>1. Dest(c) \in Invs \X Hosts
        BY <1>8, DestType DEF ItemWrite, ItemOpen, ItemOpenFails, ItemPut, ItemPutFails, Step
      <3>2. CASE ItemOpen(c)
        BY <3>2 DEF ItemOpen
      <3>3. CASE ItemOpenFails(c)
        BY <3>3 DEF ItemOpenFails, fileVars
      <3>4. CASE ItemPut(c)
        BY <3>4 DEF ItemPut
      <3>5. CASE ItemPutFails(c)
        BY <2>2, <3>1, <3>5 DEF ItemPutFails
      <3>6. QED
        BY <1>8, <3>2, <3>3, <3>4, <3>5 DEF ItemWrite
    <2>4. Dest(c) \in Invs \X Hosts
      BY <2>3, DestType DEF Step
    <2>5. itemPc' \in [Items -> {"todo"} \union InFlight \union Finished]
      BY <2>2, <2>3 DEF Step, InFlight
    <2>6. files' \in [Invs \X Hosts -> Items \union {NoItem, Empty, Torn}]
      BY <2>2, <2>3
    <2>7. ItemTypes'
      BY <2>2, <2>3, <2>4, <2>5, <2>6 DEF ItemTypes
    <2>8. QED
      BY <1>a, <1>b, <2>1, <2>7, QueueKept DEF TypeOK
  <1>9. ASSUME NEW c \in Items, AgentTakes(c) \/ AgentAnswers(c) PROVE TypeOK'
    <2>1. UNCHANGED <<invVars, logVars, itemVars, call>>
      BY <1>9 DEF AgentTakes, AgentAnswers
    <2>2. QueueTypes'
      BY <1>9, <1>a DEF AgentTakes, AgentAnswers, Queue!Hand, Queue!Accept, QueueTypes
    <2>3. QED
      BY <1>a, <1>b, <2>1, <2>2, ItemKept DEF TypeOK
  <1>10. QED
    BY <1>1, <1>2, <1>3, <1>4, <1>5, <1>6, <1>7, <1>8, <1>9 DEF Next, Work, vars

-----------------------------------------------------------------------------
(* What every step leaves alone.                                           *)

Live(c) ==
  /\ call'[c[1]].targets = call[c[1]].targets /\ call'[c[1]].inv = call[c[1]].inv
  /\ call'[c[1]].pc \in Charged

\* A call whose items have started keeps its request, its investigation and its
\* charge.
LEMMA CallsSettle ==
  ASSUME TypeOK, DispatchInv, Next, NEW c \in Items, itemPc[c] # "todo"
  PROVE  Live(c)
  <1>a. call[c[1]].pc \in Charged /\ c[1] \in Calls
    BY ItemParts DEF DispatchInv, ItemInv
  <1>b. call \in [Calls -> [pc : CallStates, kind : Kinds, inv : Invs \union {NoInv},
                           phase : {"pathfinder", "complete"}, targets : Seq(Targets)]]
    BY DEF TypeOK, CallTypes
  <1>1. CASE UNCHANGED call
    BY <1>1, <1>a DEF Live
  <1>2. ASSUME NEW t \in Calls, Begin(t) PROVE Live(c)
    <2>1. t # c[1]
      BY <1>2, <1>a DEF Begin, Charged
    <2>2. QED
      BY <1>2, <1>a, <1>b, <2>1 DEF Begin, Live
  <1>3. ASSUME NEW t \in Calls, NEW pc, call[t].pc \notin Charged \/ pc \in Charged, GoTo(t, pc)
        PROVE  Live(c)
    BY <1>3, <1>a, <1>b DEF GoTo, Live
  <1>4. ASSUME NEW t \in Calls, Decide(t) \/ Return(t) PROVE Live(c)
    BY <1>3, <1>4 DEF Decide, Reject, NoActiveAgents, Charge, CapReached, Return, Charged
  <1>5. QED
    BY <1>1, <1>2, <1>4
    DEF Next, Investigate, CreateCheck, CreateStore, SetupFails, SetupDone, Continue,
        SaveAnalysis, SaveSetPhase, SaveLogEnd, SaveCloseLog, SaveVars, Start, Work,
        ItemReject, ItemStale, ItemAudit, ItemEnqueue, ItemResult, ItemTimeout, ItemWrite,
        ItemOpen, ItemOpenFails, ItemPut, ItemPutFails, ItemAuditResult, AgentTakes,
        AgentAnswers

\* The global log, and what it missed, only grow.
LEMMA LogGrows ==
  Next => globalLog \subseteq globalLog' /\ globalMissed \subseteq globalMissed'
  <1> SUFFICES ASSUME Next
               PROVE  globalLog \subseteq globalLog' /\ globalMissed \subseteq globalMissed'
    OBVIOUS
  <1>1. ASSUME NEW open, NEW i, NEW e, LogTo(open, i, e)
        PROVE  globalLog \subseteq globalLog' /\ globalMissed \subseteq globalMissed'
    BY <1>1 DEF LogTo, GlobalWriteFails
  <1>2. CASE UNCHANGED <<globalLog, globalMissed>>
    BY <1>2
  <1>3. QED
    BY <1>1, <1>2
    DEF Next, Investigate, CreateCheck, CreateStore, SetupFails, SetupDone, Continue,
        SaveAnalysis, SaveSetPhase, SaveLogEnd, SaveCloseLog, SaveVars, Begin, Decide, Reject,
        NoActiveAgents, Charge, CapReached, Return, Start, Work, ItemReject, ItemStale,
        ItemAudit, ItemEnqueue, ItemResult, ItemTimeout, ItemWrite, ItemOpen, ItemOpenFails,
        ItemPut, ItemPutFails, ItemAuditResult, AgentTakes, AgentAnswers, Log, logVars

\* An item nothing touches keeps its part of the invariant.
LEMMA ItemUntouched ==
  ASSUME TypeOK, DispatchInv, Next, NEW c \in Items,
         itemPc'[c] = itemPc[c], assigned'[c] = assigned[c], handed'[c] = handed[c],
         accepted'[c] = accepted[c], c \in saved' => c \in saved
  PROVE  ItemInv(c)'
  <1>1. ItemInv(c)
    BY DEF DispatchInv
  <1>2. CASE itemPc[c] = "todo"
    BY <1>1, <1>2 DEF ItemInv, Dispatched
  <1>3. CASE itemPc[c] # "todo"
    <2>1. Live(c) /\ globalLog \subseteq globalLog' /\ globalMissed \subseteq globalMissed'
      BY <1>3, CallsSettle, LogGrows
    <2>2. QED
      BY <1>1, <1>3, <2>1 DEF ItemInv, Live, TargetOf
  <1>4. QED
    BY <1>2, <1>3

LEMMA NextCall ==
  ASSUME CallTypes, Next, NEW u \in Calls, CallInv(u)
  PROVE  CallInv(u)'
  <1>a. CallInv(u)
    OBVIOUS
  <1>b. call \in [Calls -> [pc : CallStates, kind : Kinds, inv : Invs \union {NoInv},
                           phase : {"pathfinder", "complete"}, targets : Seq(Targets)]]
    BY DEF CallTypes
  <1>1. CASE UNCHANGED call
    BY <1>1, <1>a DEF CallInv
  <1>2. ASSUME NEW t \in Calls, Begin(t) PROVE CallInv(u)'
    BY <1>2, <1>a, <1>b DEF Begin, CallInv
  <1>3. ASSUME NEW t \in Calls, NEW pc, call[t].pc # "idle", GoTo(t, pc) PROVE CallInv(u)'
    BY <1>3, <1>a, <1>b DEF GoTo, CallInv
  <1>4. ASSUME NEW t \in Calls, Decide(t) \/ Return(t) PROVE CallInv(u)'
    BY <1>3, <1>4 DEF Decide, Reject, NoActiveAgents, Charge, CapReached, Return
  <1>5. QED
    BY <1>1, <1>2, <1>4
    DEF Next, Investigate, CreateCheck, CreateStore, SetupFails, SetupDone, Continue,
        SaveAnalysis, SaveSetPhase, SaveLogEnd, SaveCloseLog, SaveVars, Start, Work,
        ItemReject, ItemStale, ItemAudit, ItemEnqueue, ItemResult, ItemTimeout, ItemWrite,
        ItemOpen, ItemOpenFails, ItemPut, ItemPutFails, ItemAuditResult, AgentTakes,
        AgentAnswers

-----------------------------------------------------------------------------
(* The invariant of one item.                                              *)

\* The steps that touch no item.
Elsewhere == UNCHANGED <<itemPc, saved, assigned, handed, accepted>>

LEMMA NextItem ==
  ASSUME TypeOK, DispatchInv, Next, NEW d \in Items
  PROVE  ItemInv(d)'
  <1>a. /\ ItemInv(d) /\ (itemPc[d] # "todo" => Live(d))
        /\ globalLog \subseteq globalLog' /\ globalMissed \subseteq globalMissed'
    BY CallsSettle, LogGrows DEF DispatchInv
  <1>b. /\ itemPc \in [Items -> {"todo"} \union InFlight \union Finished]
        /\ assigned \in [Items -> Hosts \union {NoHost}] /\ handed \in [Items -> Nat]
        /\ accepted \in [Items -> Hosts \union {NoHost}]
    BY DEF TypeOK, ItemTypes, QueueTypes
  <1>1. CASE Elsewhere
    BY <1>1, ItemUntouched DEF Elsewhere
  <1>2. ASSUME NEW t \in Calls, NEW n \in 1..MaxItems, Start(t, n) PROVE ItemInv(d)'
    <2>1. CASE d = <<t, n>>
      <3>1. /\ itemPc[d] = "todo" /\ itemPc'[d] = "started"
            /\ UNCHANGED <<saved, call, assigned, handed, accepted>>
            /\ call[d[1]].pc = "dispatching" /\ d[2] \in DOMAIN call[d[1]].targets
        BY <1>2, <1>b, <2>1 DEF Start, Step, queueVars, fileVars
      <3>2. QED
        BY <1>a, <3>1 DEF ItemInv, Dispatched, Charged
    <2>2. CASE d # <<t, n>>
      BY <1>2, <1>b, <2>2, ItemUntouched DEF Start, Step, queueVars, fileVars
    <2>3. QED
      BY <2>1, <2>2
  <1>3. ASSUME NEW c \in Items, ItemReject(c) \/ ItemStale(c) PROVE ItemInv(d)'
    <2>1. CASE d = c
      <3>1. /\ itemPc[d] = "started" /\ itemPc'[d] \in {"rejected", "stale"}
            /\ UNCHANGED <<saved, call, assigned, handed, accepted>>
        BY <1>3, <1>b, <2>1 DEF ItemReject, ItemStale, Step, queueVars, fileVars
      <3>2. QED
        BY <1>a, <3>1 DEF ItemInv, Dispatched
    <2>2. CASE d # c
      BY <1>3, <1>b, <2>2, ItemUntouched DEF ItemReject, ItemStale, Step, queueVars, fileVars
    <2>3. QED
      BY <2>1, <2>2
  <1>4. ASSUME NEW c \in Items, ItemAudit(c) PROVE ItemInv(d)'
    <2>1. CASE d = c
      <3>1. /\ itemPc[d] = "started" /\ itemPc'[d] = "audited" /\ TargetOf(d).ok
            /\ UNCHANGED <<saved, call, assigned, handed, accepted>>
        BY <1>4, <1>b, <2>1 DEF ItemAudit, Step, queueVars, fileVars
      <3>2. <<"command_queued", d>> \in globalLog' \union globalMissed'
        BY <1>4, <2>1 DEF ItemAudit, Log, LogTo, GlobalWriteFails
      <3>3. QED
        BY <1>a, <3>1, <3>2 DEF ItemInv, Dispatched, TargetOf
    <2>2. CASE d # c
      BY <1>4, <1>b, <2>2, ItemUntouched DEF ItemAudit, Step, queueVars, fileVars
    <2>3. QED
      BY <2>1, <2>2
  <1>5. ASSUME NEW c \in Items, ItemEnqueue(c) PROVE ItemInv(d)'
    <2>1. CASE d = c
      <3>1. /\ itemPc[d] = "audited" /\ itemPc'[d] = "waiting" /\ assigned[d] = NoHost
            /\ assigned'[d] = TargetOf(d).host
            /\ UNCHANGED <<saved, call, handed, accepted, globalLog, globalMissed>>
        BY <1>5, <1>b, <2>1 DEF ItemEnqueue, Step, Queue!Assign, logVars, fileVars
      <3>2. ~(handed[d] > 0) /\ accepted[d] = NoHost
        BY <1>a, <3>1 DEF ItemInv
      <3>3. QED
        BY <1>a, <3>1, <3>2 DEF ItemInv, Dispatched, TargetOf
    <2>2. CASE d # c
      BY <1>5, <1>b, <2>2, ItemUntouched DEF ItemEnqueue, Step, Queue!Assign, fileVars
    <2>3. QED
      BY <2>1, <2>2
  <1>6. ASSUME NEW c \in Items, ItemResult(c) \/ ItemTimeout(c) PROVE ItemInv(d)'
    <2>1. CASE d = c
      <3>1. /\ itemPc[d] = "waiting"
            /\ \/ itemPc'[d] = "result" /\ accepted[d] # NoHost
               \/ itemPc'[d] = "timeout"
            /\ UNCHANGED <<saved, call, assigned, handed, accepted, globalLog, globalMissed>>
        BY <1>6, <1>b, <2>1
        DEF ItemResult, ItemTimeout, Step, Queue!Reply, Queue!GiveUp, logVars, fileVars
      <3>2. QED
        BY <1>a, <3>1 DEF ItemInv, Dispatched, TargetOf
    <2>2. CASE d # c
      BY <1>6, <1>b, <2>2, ItemUntouched
      DEF ItemResult, ItemTimeout, Step, Queue!Reply, Queue!GiveUp, fileVars
    <2>3. QED
      BY <2>1, <2>2
  <1>7. ASSUME NEW c \in Items, ItemWrite(c) PROVE ItemInv(d)'
    <2>1. UNCHANGED <<call, assigned, handed, accepted, globalLog, globalMissed>>
      BY <1>7 DEF ItemWrite, ItemOpen, ItemOpenFails, ItemPut, ItemPutFails, queueVars, logVars
    <2>2. CASE d = c
      <3>1. /\ itemPc[d] \in {"result", "opened"} /\ itemPc'[d] \in {"opened", "written"}
            /\ itemPc'[d] = "written" \/ saved' = saved
        BY <1>7, <1>b, <2>2
        DEF ItemWrite, ItemOpen, ItemOpenFails, ItemPut, ItemPutFails, Step, fileVars
      <3>2. QED
        BY <1>a, <2>1, <3>1 DEF ItemInv, Dispatched, TargetOf
    <2>3. CASE d # c
      <3>1. itemPc'[d] = itemPc[d] /\ (d \in saved' => d \in saved)
        BY <1>7, <1>b, <2>3
        DEF ItemWrite, ItemOpen, ItemOpenFails, ItemPut, ItemPutFails, Step, fileVars
      <3>2. QED
        BY <2>1, <3>1, ItemUntouched
    <2>4. QED
      BY <2>2, <2>3
  <1>8. ASSUME NEW c \in Items, ItemAuditResult(c) PROVE ItemInv(d)'
    <2>1. CASE d = c
      <3>1. /\ itemPc[d] = "written" /\ itemPc'[d] = "done"
            /\ UNCHANGED <<saved, call, assigned, handed, accepted>>
        BY <1>8, <1>b, <2>1 DEF ItemAuditResult, Step, queueVars, fileVars
      <3>2. QED
        BY <1>a, <3>1 DEF ItemInv, Dispatched, TargetOf
    <2>2. CASE d # c
      BY <1>8, <1>b, <2>2, ItemUntouched DEF ItemAuditResult, Step, queueVars, fileVars
    <2>3. QED
      BY <2>1, <2>2
  <1>9. ASSUME NEW c \in Items, AgentTakes(c) PROVE ItemInv(d)'
    <2>1. PICK h \in Hosts : Queue!Hand(h, {c})
      BY <1>9 DEF AgentTakes
    <2>2. UNCHANGED <<itemPc, saved, call, globalLog, globalMissed>>
      BY <1>9 DEF AgentTakes, itemVars, fileVars, logVars
    <2>3. CASE d = c
      <3>1. assigned[d] # NoHost /\ UNCHANGED <<assigned, accepted>>
        BY <2>1, <2>3, Bounds DEF Queue!Hand
      <3>2. QED
        BY <1>a, <2>2, <3>1 DEF ItemInv, TargetOf
    <2>4. CASE d # c
      BY <1>b, <2>1, <2>2, <2>4, ItemUntouched DEF Queue!Hand
    <2>5. QED
      BY <2>3, <2>4
  <1>10. ASSUME NEW c \in Items, AgentAnswers(c) PROVE ItemInv(d)'
    <2>1. Queue!Accept(c) /\ UNCHANGED <<itemPc, saved, call, globalLog, globalMissed>>
      BY <1>10 DEF AgentAnswers, itemVars, fileVars, logVars
    <2>2. CASE d = c
      <3>1. assigned[d] # NoHost /\ accepted'[d] = assigned[d] /\ UNCHANGED <<assigned, handed>>
        BY <1>b, <2>1, <2>2 DEF Queue!Accept
      <3>2. QED
        BY <1>a, <2>1, <3>1 DEF ItemInv, TargetOf
    <2>3. CASE d # c
      BY <1>b, <2>1, <2>3, ItemUntouched DEF Queue!Accept
    <2>4. QED
      BY <2>2, <2>3
  <1>11. QED
    BY <1>1, <1>2, <1>3, <1>4, <1>5, <1>6, <1>7, <1>8, <1>9, <1>10
    DEF Next, Elsewhere, Investigate, CreateCheck, CreateStore, SetupFails, SetupDone, Continue,
        SaveAnalysis, SaveSetPhase, SaveLogEnd, SaveCloseLog, SaveVars, Begin, Decide, Reject,
        NoActiveAgents, Charge, CapReached, Return, Work, itemVars, fileVars, queueVars

-----------------------------------------------------------------------------
(* The slots of the fan-out.                                               *)

LEMMA RunningIsFinite ==
  ASSUME CallTypes, NEW t \in Calls
  PROVE  IsFiniteSet(Running(t))
  <1> DEFINE n == Len(call[t].targets)
             F == [k \in 1..n |-> <<t, k>>]
  <1>1. n \in Nat /\ DOMAIN call[t].targets = 1..n
    BY LenProperties DEF CallTypes
  <1>2. IsFiniteSet(1..n)
    <2>1. \A m \in Nat : IsFiniteSet(1..m)
      BY FS_Interval
    <2>2. QED
      BY <1>1, <2>1
  <1>3. Running(t) \subseteq {F[k] : k \in 1..n}
    BY <1>1 DEF Running, ItemsOf
  <1>4. F \in Surjection(1..n, {F[k] : k \in 1..n})
    BY DEF Surjection
  <1>5. IsFiniteSet({F[k] : k \in 1..n})
    BY <1>2, <1>4, FS_Surjection
  <1>6. QED
    BY <1>3, <1>5, FS_Subset

\* Only Start takes a slot.
LEMMA OnlyStartTakesSlots ==
  ASSUME TypeOK, DispatchInv, Next, NEW u \in Calls,
         \A n \in 1..MaxItems : ~Start(u, n)
  PROVE  Running(u)' \subseteq Running(u)
  <1> SUFFICES ASSUME NEW k \in DOMAIN call'[u].targets,
                      itemPc'[<<u, k>>] \in InFlight
               PROVE  k \in DOMAIN call[u].targets /\ itemPc[<<u, k>>] \in InFlight
    BY Zenon DEF Running, ItemsOf
  <1>a. call \in [Calls -> [pc : CallStates, kind : Kinds, inv : Invs \union {NoInv},
                           phase : {"pathfinder", "complete"}, targets : Seq(Targets)]]
        /\ (\A t \in Calls : Len(call[t].targets) <= MaxItems)
        /\ itemPc \in [Items -> {"todo"} \union InFlight \union Finished]
    BY DEF TypeOK, CallTypes, ItemTypes
  <1>b. <<u, k>> \in Items
    <2>1. CallTypes'
      BY NextType DEF TypeOK
    <2>2. Len(call'[u].targets) \in Nat /\ Len(call'[u].targets) <= MaxItems
          /\ DOMAIN call'[u].targets = 1..Len(call'[u].targets)
      BY <2>1, LenProperties DEF CallTypes
    <2>3. k \in 1..MaxItems
      BY <2>2, Bounds
    <2>4. QED
      BY <2>3 DEF Items
  <1>1. itemPc[<<u, k>>] \in InFlight
    <2>1. CASE UNCHANGED itemPc
      BY <2>1
    <2>2. ASSUME NEW c \in Items, NEW from \in InFlight,
                 NEW to, Step(c, from, to)
          PROVE  itemPc[<<u, k>>] \in InFlight
      BY <1>a, <1>b, <2>2 DEF Step, InFlight
    <2>3. ASSUME NEW t \in Calls, NEW n \in 1..MaxItems, Start(t, n)
          PROVE  itemPc[<<u, k>>] \in InFlight
      <3>1. t # u
        BY <2>3
      <3>2. itemPc' = [itemPc EXCEPT ![<<t, n>>] = "started"] /\ <<t, n>> # <<u, k>>
        BY <2>3, <3>1 DEF Start, Step
      <3>3. QED
        BY <1>a, <1>b, <3>2
    <2>4. ASSUME NEW c \in Items, Work(c) PROVE itemPc[<<u, k>>] \in InFlight
      BY <2>2, <2>4
      DEF Work, InFlight, ItemReject, ItemStale, ItemAudit, ItemEnqueue, ItemResult, ItemTimeout,
          ItemWrite, ItemOpen, ItemOpenFails, ItemPut, ItemPutFails, ItemAuditResult
    <2>5. QED
      BY <2>1, <2>3, <2>4
      DEF Next, Investigate, CreateCheck, CreateStore, SetupFails, SetupDone, Continue,
          SaveAnalysis, SaveSetPhase, SaveLogEnd, SaveCloseLog, SaveVars, Begin, Decide, Reject,
          NoActiveAgents, Charge, CapReached, Return, AgentTakes, AgentAnswers, itemVars
  <1>2. QED
    <2>1. itemPc[<<u, k>>] # "todo"
      BY <1>1 DEF InFlight
    <2>2. ItemInv(<<u, k>>) /\ <<u, k>>[2] = k /\ <<u, k>>[1] = u
      BY <1>b DEF DispatchInv
    <2>3. k \in DOMAIN call[u].targets
      BY <2>1, <2>2 DEF ItemInv
    <2>4. QED
      BY <1>1, <2>3

LEMMA NextSlots == TypeOK /\ DispatchInv /\ Next => SlotInv'
  <1> SUFFICES ASSUME TypeOK, DispatchInv, Next, FanoutLimit > 0, NEW u \in Calls
               PROVE  Cardinality(Running(u)') <= FanoutLimit
    BY DEF SlotInv
  <1>a. IsFiniteSet(Running(u)) /\ Cardinality(Running(u)) \in Nat
    BY RunningIsFinite, FS_CardinalityType DEF TypeOK
  <1>b. Cardinality(Running(u)) <= FanoutLimit
    BY DEF DispatchInv, SlotInv
  <1>1. CASE \A n \in 1..MaxItems : ~Start(u, n)
    <2>1. Running(u)' \subseteq Running(u)
      BY <1>1, OnlyStartTakesSlots
    <2>2. Cardinality(Running(u)') <= Cardinality(Running(u)) /\ IsFiniteSet(Running(u)')
      BY <1>a, <2>1, FS_Subset
    <2>3. QED
      BY <1>a, <1>b, <2>2, FS_CardinalityType, Bounds
  <1>2. ASSUME NEW n \in 1..MaxItems, Start(u, n) PROVE Cardinality(Running(u)') <= FanoutLimit
    <2>1. /\ itemPc' = [itemPc EXCEPT ![<<u, n>>] = "started"] /\ call' = call
          /\ Cardinality(Running(u)) < FanoutLimit
      BY <1>2, Bounds DEF Start, Step, Slots
    <2>2. Running(u)' \subseteq Running(u) \union {<<u, n>>}
      BY <2>1 DEF Running, ItemsOf, TypeOK, ItemTypes, Items
    <2>3. IsFiniteSet(Running(u) \union {<<u, n>>})
          /\ Cardinality(Running(u) \union {<<u, n>>}) <= Cardinality(Running(u)) + 1
      BY <1>a, FS_AddElement
    <2>4. Cardinality(Running(u)') <= Cardinality(Running(u) \union {<<u, n>>})
          /\ IsFiniteSet(Running(u)')
      BY <2>2, <2>3, FS_Subset
    <2>5. Cardinality(Running(u)') \in Nat /\ Cardinality(Running(u) \union {<<u, n>>}) \in Nat
      BY <2>3, <2>4, FS_CardinalityType
    <2>6. QED
      BY <1>a, <2>1, <2>3, <2>4, <2>5, Bounds
  <1>3. QED
    BY <1>1, <1>2

-----------------------------------------------------------------------------
(* The result files.                                                       *)

\* An assignment or an accepted result is never replaced.
LEMMA QueueGrows ==
  ASSUME TypeOK, Next, NEW d \in Items
  PROVE  /\ assigned[d] # NoHost => assigned'[d] = assigned[d]
         /\ accepted[d] # NoHost => accepted'[d] = accepted[d]
  <1>a. /\ assigned \in [Items -> Hosts \union {NoHost}]
        /\ accepted \in [Items -> Hosts \union {NoHost}]
    BY DEF TypeOK, QueueTypes
  <1>1. ASSUME NEW c \in Items, ItemEnqueue(c)
        PROVE  /\ assigned[d] # NoHost => assigned'[d] = assigned[d]
               /\ accepted' = accepted
    BY <1>1, <1>a DEF ItemEnqueue, Queue!Assign
  <1>2. ASSUME NEW c \in Items, AgentAnswers(c)
        PROVE  /\ assigned' = assigned
               /\ accepted[d] # NoHost => accepted'[d] = accepted[d]
    BY <1>2, <1>a DEF AgentAnswers, Queue!Accept
  <1>3. ASSUME NEW c \in Items, AgentTakes(c) PROVE UNCHANGED <<assigned, accepted>>
    BY <1>3 DEF AgentTakes, Queue!Hand
  <1>4. ASSUME NEW c \in Items, ItemResult(c) \/ ItemTimeout(c) PROVE UNCHANGED <<assigned, accepted>>
    BY <1>4 DEF ItemResult, ItemTimeout, Queue!Reply, Queue!GiveUp
  <1>5. QED
    BY <1>1, <1>2, <1>3, <1>4
    DEF Next, Investigate, CreateCheck, CreateStore, SetupFails, SetupDone, Continue,
        SaveAnalysis, SaveSetPhase, SaveLogEnd, SaveCloseLog, SaveVars, Begin, Decide, Reject,
        NoActiveAgents, Charge, CapReached, Return, Start, Work, ItemReject, ItemStale,
        ItemAudit, ItemWrite, ItemOpen, ItemOpenFails, ItemPut, ItemPutFails, ItemAuditResult,
        queueVars

\* A started item keeps its file.
LEMMA DestStays ==
  ASSUME TypeOK, DispatchInv, Next, NEW c \in Items, itemPc[c] # "todo"
  PROVE  Dest(c)' = Dest(c)
  BY CallsSettle DEF Live, Dest, InvOf, TargetOf

\* What a file holds stays credited to the file's own investigation and host.
LEMMA GenuineKept ==
  ASSUME TypeOK, DispatchInv, Next, NEW f \in Invs \X Hosts, NEW c \in Items,
         InvOf(c) = f[1], assigned[c] = f[2], accepted[c] = f[2]
  PROVE  InvOf(c)' = f[1] /\ assigned'[c] = f[2] /\ accepted'[c] = f[2]
  <1>1. assigned[c] # NoHost /\ accepted[c] # NoHost
    BY Bounds
  <1>2. itemPc[c] # "todo"
    BY <1>1 DEF DispatchInv, ItemInv, Dispatched
  <1>3. Live(c)
    BY <1>2, CallsSettle
  <1>4. QED
    BY <1>1, <1>3, QueueGrows DEF Live, InvOf

\* A step that opens, writes and closes no file.
LEMMA FilesKept ==
  ASSUME TypeOK, DispatchInv, Next, UNCHANGED fileVars,
         \A d \in Items : itemPc'[d] = "opened" <=> itemPc[d] = "opened"
  PROVE  ResultFilesGenuine' /\ WriterInv'
  <1>a. /\ ResultFilesGenuine /\ WriterInv /\ UNCHANGED <<files, spoiled, saved>>
        /\ saved \subseteq Items
    BY DEF DispatchInv, TypeOK, ItemTypes, fileVars
  <1>1. ASSUME NEW c \in Items, itemPc[c] # "todo"
        PROVE  Dest(c)' = Dest(c) /\ OtherWriters(c)' = OtherWriters(c)
    <2>1. \A d \in Items : itemPc[d] # "todo" => Dest(d)' = Dest(d)
      BY DestStays
    <2>2. QED
      BY <1>1, <2>1 DEF OtherWriters
  <1>2. ASSUME NEW f \in Invs \X Hosts, NEW c \in Items, files'[f] = c
        PROVE  InvOf(c)' = f[1] /\ assigned'[c] = f[2] /\ accepted'[c] = f[2]
    BY <1>2, <1>a, GenuineKept DEF ResultFilesGenuine
  <1>3. ASSUME NEW c \in saved
        PROVE  files'[Dest(c)'] \in saved' \/ Dest(c)' \in spoiled' \/ OtherWriters(c)' # {}
    <2>1. itemPc[c] # "todo" /\ c \in Items
      BY <1>3, <1>a DEF DispatchInv, ItemInv
    <2>2. QED
      BY <1>1, <1>3, <1>a, <2>1 DEF ResultFilesGenuine
  <1>4. ASSUME NEW c \in Items, itemPc'[c] = "opened", Dest(c)' \notin spoiled'
        PROVE  OtherWriters(c)' = {} /\ files'[Dest(c)'] = Empty
    BY <1>1, <1>4, <1>a DEF WriterInv
  <1>5. QED
    BY <1>2, <1>3, <1>4, <1>a DEF ResultFilesGenuine, WriterInv

\* A write leaves every other file, and what is known of it, alone.
LEMMA OtherFilesKept ==
  ASSUME TypeOK, DispatchInv, NEW d \in Items, ItemOpen(d) \/ ItemPut(d) \/ ItemPutFails(d)
  PROVE  /\ Dest(d) \in Invs \X Hosts /\ d \notin saved /\ UNCHANGED <<call, assigned, accepted>>
         /\ \A f \in Invs \X Hosts : f # Dest(d) =>
              files'[f] = files[f] /\ (f \in spoiled' <=> f \in spoiled)
         /\ \A c \in Items : Dest(c) # Dest(d) => OtherWriters(c)' = OtherWriters(c)
  <1>1. d \notin saved /\ Dest(d) \in Invs \X Hosts /\ UNCHANGED <<call, assigned, accepted>>
    BY DestType DEF DispatchInv, ItemInv, ItemOpen, ItemPut, ItemPutFails, Step, queueVars
  <1>2. /\ files \in [Invs \X Hosts -> Items \union {NoItem, Empty, Torn}]
        /\ itemPc \in [Items -> {"todo"} \union InFlight \union Finished]
    BY DEF TypeOK, ItemTypes
  <1>3. \A c \in Items : c # d => itemPc'[c] = itemPc[c]
    BY <1>2 DEF ItemOpen, ItemPut, ItemPutFails, Step
  <1>4. \A c : Dest(c)' = Dest(c)
    BY <1>1 DEF Dest, InvOf, TargetOf
  <1>5. \A c \in Items : Dest(c) # Dest(d) => OtherWriters(c)' = OtherWriters(c)
    BY <1>3, <1>4 DEF OtherWriters
  <1>6. \A f \in Invs \X Hosts : f # Dest(d) =>
          files'[f] = files[f] /\ (f \in spoiled' <=> f \in spoiled)
    BY <1>1, <1>2 DEF ItemOpen, ItemPut, ItemPutFails
  <1>7. QED
    BY <1>1, <1>5, <1>6

\* The three steps of a write that touch its file.
LEMMA WriteKeepsFiles ==
  ASSUME TypeOK, DispatchInv, NEW d \in Items, ItemOpen(d) \/ ItemPut(d) \/ ItemPutFails(d)
  PROVE  ResultFilesGenuine' /\ WriterInv'
  <1> DEFINE f == Dest(d)
  <1>a. /\ f \in Invs \X Hosts /\ d \notin saved /\ UNCHANGED <<call, assigned, accepted>>
        /\ \A g \in Invs \X Hosts : g # f =>
             files'[g] = files[g] /\ (g \in spoiled' <=> g \in spoiled)
        /\ \A c \in Items : Dest(c) # f => OtherWriters(c)' = OtherWriters(c)
    BY OtherFilesKept
  <1>b. /\ files \in [Invs \X Hosts -> Items \union {NoItem, Empty, Torn}]
        /\ itemPc \in [Items -> {"todo"} \union InFlight \union Finished] /\ saved \subseteq Items
        /\ ResultFilesGenuine /\ WriterInv
    BY DEF TypeOK, ItemTypes, DispatchInv
  <1>c. \A c : Dest(c)' = Dest(c) /\ InvOf(c)' = InvOf(c)
    BY <1>a DEF Dest, InvOf, TargetOf
  <1>d. \A c \in Items : c # d => itemPc'[c] = itemPc[c]
    BY <1>b DEF ItemOpen, ItemPut, ItemPutFails, Step
  <1>e. \A c \in Items : itemPc[c] # "todo" => Dest(c) \in Invs \X Hosts
    BY DestType
  <1>g. /\ InvOf(d) = f[1] /\ assigned[d] = f[2] /\ accepted[d] = f[2]
    BY DEF DispatchInv, ItemInv, Dispatched, Dest, ItemOpen, ItemPut, ItemPutFails, Step
  <1>h. /\ Torn \notin Items /\ Empty \notin Items
    BY DispatchAssumption DEF DispatchAssumption
  \* What the files hold.
  <1>1. ASSUME NEW g \in Invs \X Hosts, NEW c \in Items, files'[g] = c
        PROVE  InvOf(c)' = g[1] /\ assigned'[c] = g[2] /\ accepted'[c] = g[2]
    <2>1. CASE g # f
      BY <1>1, <1>a, <1>b, <1>c, <2>1 DEF ResultFilesGenuine
    <2>2. CASE g = f
      <3>1. files'[f] \in {Empty, Torn, d, files[f]}
        BY <1>a, <1>b DEF ItemOpen, ItemPut, ItemPutFails
      <3>2. files'[f] = d \/ files'[f] = files[f]
        BY <1>1, <1>h, <2>2, <3>1
      <3>3. QED
        BY <1>1, <1>a, <1>b, <1>c, <1>g, <2>2, <3>2 DEF ResultFilesGenuine
    <2>3. QED
      BY <2>1, <2>2
  \* The results reported as saved, and the writers, of the other files.
  <1>2. ASSUME NEW c \in saved, Dest(c) # f
        PROVE  files'[Dest(c)'] \in saved' \/ Dest(c)' \in spoiled' \/ OtherWriters(c)' # {}
    <2>1. c \in Items /\ Dest(c) \in Invs \X Hosts
      BY <1>2, <1>b, <1>e DEF DispatchInv, ItemInv
    <2>2. saved \subseteq saved'
      BY DEF ItemOpen, ItemPut, ItemPutFails
    <2>3. QED
      BY <1>2, <1>a, <1>b, <1>c, <2>1, <2>2 DEF ResultFilesGenuine
  <1>3. ASSUME NEW c \in Items, itemPc'[c] = "opened", Dest(c) # f, Dest(c)' \notin spoiled'
        PROVE  OtherWriters(c)' = {} /\ files'[Dest(c)'] = Empty
    <2>1. c # d /\ itemPc[c] = "opened" /\ Dest(c) \in Invs \X Hosts
      BY <1>3, <1>d, <1>e
    <2>2. QED
      BY <1>3, <1>a, <1>b, <1>c, <2>1 DEF WriterInv
  \* Those of the file that is written.
  <1>4. CASE ItemOpen(d)
    <2>1. /\ files'[f] = Empty /\ itemPc'[d] = "opened" /\ saved' = saved
          /\ f \in spoiled' <=> OtherWriters(d) # {}
      BY <1>4, <1>a, <1>b DEF ItemOpen, Step
    <2>2. ASSUME NEW c \in saved, Dest(c) = f PROVE OtherWriters(c)' # {}
      BY <1>a, <1>b, <1>c, <2>1, <2>2 DEF OtherWriters
    <2>3. ASSUME NEW c \in Items, itemPc'[c] = "opened", Dest(c) = f, f \notin spoiled'
          PROVE  OtherWriters(c)' = {}
      <3>1. OtherWriters(d) = {}
        BY <2>1, <2>3
      <3>2. c = d
        BY <1>d, <2>3, <3>1 DEF OtherWriters
      <3>3. QED
        BY <1>c, <1>d, <3>1, <3>2 DEF OtherWriters
    <2>4. QED
      BY <1>1, <1>2, <1>3, <1>c, <2>1, <2>2, <2>3 DEF ResultFilesGenuine, WriterInv
  <1>5. CASE ItemPut(d)
    <2>1. /\ itemPc[d] = "opened" /\ itemPc'[d] = "written" /\ saved' = saved \union {d}
          /\ spoiled' = spoiled
          /\ files[f] = Empty => files'[f] = d
      BY <1>5, <1>a, <1>b DEF ItemPut, Step
    <2>2. f \notin spoiled => OtherWriters(d) = {} /\ files'[f] = d
      BY <1>b, <2>1 DEF WriterInv
    <2>3. ASSUME NEW c \in Items, itemPc'[c] = "opened", Dest(c) = f, f \notin spoiled' PROVE FALSE
      <3>1. c \in OtherWriters(d)
        BY <1>d, <2>1, <2>3 DEF OtherWriters
      <3>2. QED
        BY <2>1, <2>2, <2>3, <3>1
    <2>4. QED
      BY <1>1, <1>2, <1>3, <1>c, <2>1, <2>2, <2>3 DEF ResultFilesGenuine, WriterInv
  <1>6. CASE ItemPutFails(d)
    <2>1. f \in spoiled' /\ saved' = saved
      BY <1>6 DEF ItemPutFails
    <2>2. QED
      BY <1>1, <1>2, <1>3, <1>c, <2>1 DEF ResultFilesGenuine, WriterInv
  <1>7. QED
    BY <1>4, <1>5, <1>6

LEMMA NextFiles == TypeOK /\ DispatchInv /\ Next => ResultFilesGenuine' /\ WriterInv'
  <1> SUFFICES ASSUME TypeOK, DispatchInv, Next PROVE ResultFilesGenuine' /\ WriterInv'
    OBVIOUS
  <1>a. itemPc \in [Items -> {"todo"} \union InFlight \union Finished]
    BY DEF TypeOK, ItemTypes
  <1>1. CASE UNCHANGED itemVars
    BY <1>1, FilesKept DEF itemVars
  <1>2. ASSUME NEW c \in Items, NEW from, NEW to, from # "opened", to # "opened",
               Step(c, from, to), UNCHANGED fileVars
        PROVE  ResultFilesGenuine' /\ WriterInv'
    <2>1. \A d \in Items : itemPc'[d] = "opened" <=> itemPc[d] = "opened"
      BY <1>2, <1>a DEF Step
    <2>2. QED
      BY <1>2, <2>1, FilesKept
  <1>3. ASSUME NEW t \in Calls, NEW n \in 1..MaxItems, Start(t, n)
        PROVE  ResultFilesGenuine' /\ WriterInv'
    <2>1. <<t, n>> \in Items
      BY DEF Items
    <2>2. QED
      BY <1>2, <1>3, <2>1 DEF Start
  <1>4. ASSUME NEW c \in Items, ItemWrite(c) PROVE ResultFilesGenuine' /\ WriterInv'
    <2>1. CASE ItemOpenFails(c)
      BY <1>2, <2>1 DEF ItemOpenFails
    <2>2. QED
      BY <1>4, <2>1, WriteKeepsFiles DEF ItemWrite
  <1>5. ASSUME NEW c \in Items, Work(c) PROVE ResultFilesGenuine' /\ WriterInv'
    BY <1>2, <1>4, <1>5
    DEF Work, ItemReject, ItemStale, ItemAudit, ItemEnqueue, ItemResult, ItemTimeout,
        ItemAuditResult
  <1>6. QED
    BY <1>1, <1>3, <1>5
    DEF Next, Investigate, CreateCheck, CreateStore, SetupFails, SetupDone, Continue,
        SaveAnalysis, SaveSetPhase, SaveLogEnd, SaveCloseLog, SaveVars, Begin, Decide, Reject,
        NoActiveAgents, Charge, CapReached, Return, AgentTakes, AgentAnswers

-----------------------------------------------------------------------------
(* The invariant and what follows from it.                                 *)

LEMMA InitInv == Init => DispatchInv
  <1> SUFFICES ASSUME Init PROVE DispatchInv
    OBVIOUS
  <1>1. \A t \in Calls : CallInv(t)
    BY DEF Init, CallInv
  <1>2. \A c \in Items : ItemInv(c)
    BY DEF Init, ItemInv, Queue!Init, Dispatched
  <1>3. SlotInv
    <2>1. \A t \in Calls : Running(t) = {}
      BY DEF Init, Running, ItemsOf
    <2>2. QED
      BY <2>1, FS_EmptySet, Bounds DEF SlotInv
  <1>4. ResultFilesGenuine /\ WriterInv
    <2>1. NoItem \notin Items
      BY Bounds
    <2>2. QED
      BY <2>1 DEF Init, ResultFilesGenuine, WriterInv
  <1>5. QED
    BY <1>1, <1>2, <1>3, <1>4 DEF DispatchInv

LEMMA StutterInv == DispatchInv /\ UNCHANGED vars => DispatchInv'
  <1> SUFFICES ASSUME DispatchInv, UNCHANGED vars PROVE DispatchInv'
    OBVIOUS
  <1>1. UNCHANGED <<call, itemPc, files, spoiled, saved, assigned, handed, accepted, globalLog,
                    globalMissed>>
    BY DEF vars, itemVars, fileVars, queueVars, logVars
  <1>2. \A t \in Calls : CallInv(t)'
    BY <1>1 DEF DispatchInv, CallInv
  <1>3. \A c \in Items : ItemInv(c)'
    BY <1>1 DEF DispatchInv, ItemInv, TargetOf
  <1>4. SlotInv'
    BY <1>1 DEF DispatchInv, SlotInv, Running, ItemsOf
  <1>5. \A c : InvOf(c)' = InvOf(c) /\ Dest(c)' = Dest(c) /\ OtherWriters(c)' = OtherWriters(c)
    <2>1. call' = call /\ itemPc' = itemPc
      BY <1>1
    <2>2. \A c : InvOf(c)' = InvOf(c) /\ Dest(c)' = Dest(c)
      BY <2>1 DEF Dest, InvOf, TargetOf
    <2>3. QED
      BY <2>1, <2>2 DEF OtherWriters
  <1>6. ResultFilesGenuine'
    BY <1>1, <1>5 DEF DispatchInv, ResultFilesGenuine
  <1>7. WriterInv'
    BY <1>1, <1>5 DEF DispatchInv, WriterInv
  <1>8. QED
    BY <1>2, <1>3, <1>4, <1>6, <1>7 DEF DispatchInv

\* The strengthening is inductive, for every value of the constants, whatever
\* becomes of the writes to the audit logs and to the result files.
THEOREM DispatchInductive == Spec => [](TypeOK /\ DispatchInv)
  <1>1. Init => TypeOK /\ DispatchInv
    BY InitType, InitInv
  <1>2. TypeOK /\ DispatchInv /\ [Next]_vars => (TypeOK /\ DispatchInv)'
    <2> SUFFICES ASSUME TypeOK, DispatchInv, [Next]_vars PROVE (TypeOK /\ DispatchInv)'
      OBVIOUS
    <2>1. CASE Next
      <3>1. DispatchInv'
        BY <2>1, NextCall, NextItem, NextSlots, NextFiles DEF DispatchInv, TypeOK
      <3>2. QED
        BY <3>1, NextType
    <2>2. CASE UNCHANGED vars
      BY <2>2, NextType, StutterInv
    <2>3. QED
      BY <2>1, <2>2
  <1>3. QED
    BY <1>1, <1>2, PTL DEF Spec

\* Every reachable state of the dispatcher is well typed: in particular a command
\* is only ever assigned to a host of the request it came from.
THEOREM DispatchTypeCorrect == Spec => []TypeOK
  <1>1. QED
    BY DispatchInductive, PTL

\* However many calls run, however their critical sections interleave and
\* whichever writes fail, a command in an agent's hands was accepted, charged and
\* meant for that agent's host, its audit entry was written or the very write of it
\* failed, and no call has more items in flight than its fan-out allows.
THEOREM AccountedCorrect == Spec => []NothingRunsUnaccounted
  <1>1. TypeOK /\ DispatchInv => NothingRunsUnaccounted
    BY DEF DispatchInv, ItemInv, SlotInv, NothingRunsUnaccounted, Dispatched
  <1>2. QED
    BY <1>1, DispatchInductive, PTL

\* A result file is never credited to another investigation or another host, and
\* the file behind a reported saved_to keeps holding a result so reported, unless a
\* later write of it failed, overlapped another one or is under way.
THEOREM ResultFilesCorrect == Spec => []ResultFilesGenuine
  <1>1. TypeOK /\ DispatchInv => ResultFilesGenuine
    BY DEF DispatchInv
  <1>2. QED
    BY <1>1, DispatchInductive, PTL

-----------------------------------------------------------------------------
(* The investigations' own logs.                                           *)

\* Investigation ids, calls and items are told apart.
Apart == Invs \intersect Calls = {} /\ Invs \intersect Items = {} /\ Calls \intersect Items = {}

\* Once begun, a call stays on its investigation; a ready investigation stays
\* ready.
LEMMA BegunStays ==
  ASSUME TypeOK, Next
  PROVE  /\ \A t \in Calls : call[t].pc # "idle" =>
              call'[t].pc # "idle" /\ call'[t].inv = call[t].inv
         /\ \A i \in Invs : invPc[i] = "ready" => invPc'[i] = "ready"
         /\ \A c \in Items : itemPc[c] # "todo" => itemPc'[c] # "todo"
  <1>a. /\ call \in [Calls -> [pc : CallStates, kind : Kinds, inv : Invs \union {NoInv},
                              phase : {"pathfinder", "complete"}, targets : Seq(Targets)]]
        /\ itemPc \in [Items -> {"todo"} \union InFlight \union Finished]
        /\ invPc \in [Invs -> {"none", "checked", "published", "ready", "failed", "refused"}]
    BY DEF TypeOK, CallTypes, ItemTypes, InvTypes
  <1>1. \A t \in Calls : call[t].pc # "idle" =>
          call'[t].pc # "idle" /\ call'[t].inv = call[t].inv
    <2> SUFFICES ASSUME NEW u \in Calls, call[u].pc # "idle"
                 PROVE  call'[u].pc # "idle" /\ call'[u].inv = call[u].inv
      OBVIOUS
    <2>1. CASE UNCHANGED call
      BY <2>1
    <2>2. ASSUME NEW t \in Calls, Begin(t)
          PROVE  call'[u].pc # "idle" /\ call'[u].inv = call[u].inv
      BY <2>2, <1>a DEF Begin
    <2>3. ASSUME NEW t \in Calls, NEW pc, pc # "idle", GoTo(t, pc)
          PROVE  call'[u].pc # "idle" /\ call'[u].inv = call[u].inv
      BY <2>3, <1>a DEF GoTo
    <2>4. ASSUME NEW t \in Calls, Decide(t) \/ Return(t)
          PROVE  call'[u].pc # "idle" /\ call'[u].inv = call[u].inv
      BY <2>3, <2>4 DEF Decide, Reject, NoActiveAgents, Charge, CapReached, Return
    <2>5. QED
      BY <2>1, <2>2, <2>4
      DEF Next, Investigate, CreateCheck, CreateStore, SetupFails, SetupDone, Continue,
          SaveAnalysis, SaveSetPhase, SaveLogEnd, SaveCloseLog, SaveVars, Start, Work,
          ItemReject, ItemStale, ItemAudit, ItemEnqueue, ItemResult, ItemTimeout, ItemWrite,
          ItemOpen, ItemOpenFails, ItemPut, ItemPutFails, ItemAuditResult, AgentTakes,
          AgentAnswers
  <1>2. \A i \in Invs : invPc[i] = "ready" => invPc'[i] = "ready"
    BY <1>a
    DEF Next, Investigate, CreateCheck, CreateStore, SetupFails, SetupDone, Continue,
        SaveAnalysis, SaveSetPhase, SaveLogEnd, SaveCloseLog, SaveVars, Begin, Decide, Reject,
        NoActiveAgents, Charge, CapReached, Return, Start, Work, ItemReject, ItemStale,
        ItemAudit, ItemEnqueue, ItemResult, ItemTimeout, ItemWrite, ItemOpen, ItemOpenFails,
        ItemPut, ItemPutFails, ItemAuditResult, AgentTakes, AgentAnswers, invVars
  <1>3. \A c \in Items : itemPc[c] # "todo" => itemPc'[c] # "todo"
    <2>1. ASSUME NEW c, NEW from, NEW to, to # "todo", Step(c, from, to), NEW d \in Items,
                 itemPc[d] # "todo"
          PROVE  itemPc'[d] # "todo"
      BY <2>1, <1>a DEF Step
    <2>2. CASE UNCHANGED itemPc
      BY <2>2
    <2>3. QED
      BY <2>1, <2>2
      DEF Next, Investigate, CreateCheck, CreateStore, SetupFails, SetupDone, Continue,
          SaveAnalysis, SaveSetPhase, SaveLogEnd, SaveCloseLog, SaveVars, Begin, Decide, Reject,
          NoActiveAgents, Charge, CapReached, Return, Start, Work, ItemReject, ItemStale,
          ItemAudit, ItemEnqueue, ItemResult, ItemTimeout, ItemWrite, ItemOpen, ItemOpenFails,
          ItemPut, ItemPutFails, ItemAuditResult, AgentTakes, AgentAnswers, itemVars
  <1>4. QED
    BY <1>1, <1>2, <1>3

\* No step changes whose an entry of the global log is.
LEMMA SubjectsStay ==
  ASSUME Apart, TypeOK, DispatchInv, LogInv, Next, NEW e \in globalLog
  PROVE  InvOfSubject(e[2])' = InvOfSubject(e[2])
  <1>1. CASE e[2] \in Invs
    BY <1>1 DEF InvOfSubject
  <1>2. CASE e[2] \in Calls /\ call[e[2]].pc # "idle"
    BY <1>2, BegunStays DEF InvOfSubject
  <1>3. CASE e[2] \in Items /\ itemPc[e[2]] # "todo"
    <2>1. Live(e[2])
      BY <1>3, CallsSettle
    <2>2. e[2] \notin Invs /\ e[2] \notin Calls
      BY <1>3 DEF Apart
    <2>3. QED
      BY <2>1, <2>2 DEF InvOfSubject, InvOf, Live
  <1>4. QED
    BY <1>1, <1>2, <1>3 DEF LogInv

LEMMA LogKept ==
  ASSUME Apart, TypeOK, DispatchInv, LogInv, Next, UNCHANGED <<globalLog, invLog, invMissed>>,
         \A i \in Invs : i \in logOpen' /\ invPc'[i] = "ready" => i \in logOpen /\ invPc[i] = "ready"
  PROVE  InvestigationLogAgrees'
  <1>1. \A i \in Invs : EntriesOf(i)' = EntriesOf(i)
    BY SubjectsStay DEF EntriesOf
  <1>2. QED
    BY <1>1 DEF LogInv, InvestigationLogAgrees

LEMMA LogAdded ==
  ASSUME Apart, TypeOK, DispatchInv, LogInv, Next,
         NEW e, NEW j \in Invs, NEW open, LogTo(open, j, e), InvOfSubject(e[2])' = j,
         j \in logOpen' /\ invPc'[j] = "ready" =>
           j \in open /\ invLog[j] \union invMissed[j] = EntriesOf(j),
         \A i \in Invs \ {j} :
           i \in logOpen' /\ invPc'[i] = "ready" => i \in logOpen /\ invPc[i] = "ready"
  PROVE  InvestigationLogAgrees'
  <1>a. invLog \in [Invs -> SUBSET globalLog] /\ invMissed \in [Invs -> SUBSET globalLog]
    BY DEF LogInv
  <1>b. ASSUME NEW i \in Invs
        PROVE  /\ invLog[i] \union invMissed[i] \subseteq EntriesOf(i)
               /\ i \in logOpen /\ invPc[i] = "ready" =>
                    invLog[i] \union invMissed[i] = EntriesOf(i)
    BY DEF LogInv, InvestigationLogAgrees
  <1>1. CASE GlobalWriteFails(e)
    <2>1. UNCHANGED <<globalLog, invLog, invMissed>>
      BY <1>1 DEF GlobalWriteFails
    <2>2. \A i \in Invs : EntriesOf(i)' = EntriesOf(i)
      BY <2>1, SubjectsStay DEF EntriesOf
    <2>3. ASSUME NEW i \in Invs
          PROVE  /\ invLog'[i] \union invMissed'[i] \subseteq EntriesOf(i)'
                 /\ i \in logOpen' /\ invPc'[i] = "ready" =>
                      invLog'[i] \union invMissed'[i] = EntriesOf(i)'
      BY <1>b, <2>1, <2>2
    <2>4. QED
      BY <2>3 DEF InvestigationLogAgrees
  <1>2. CASE globalLog' = globalLog \union {e}
    <2>1. \A i \in Invs : EntriesOf(i)' = IF i = j THEN EntriesOf(i) \union {e} ELSE EntriesOf(i)
      <3> SUFFICES ASSUME NEW i \in Invs
                   PROVE  EntriesOf(i)' = IF i = j THEN EntriesOf(i) \union {e} ELSE EntriesOf(i)
        OBVIOUS
      <3>1. EntriesOf(i)' = {d \in globalLog \union {e} : InvOfSubject(d[2])' = i}
        BY <1>2 DEF EntriesOf
      <3>2. \A d \in globalLog : InvOfSubject(d[2])' = InvOfSubject(d[2])
        BY SubjectsStay
      <3>3. QED
        BY <3>1, <3>2 DEF EntriesOf
    <2>2. ASSUME ~GlobalWriteFails(e), NEW i \in Invs
          PROVE  invLog'[i] \union invMissed'[i]
                   = IF i = j /\ j \in open THEN invLog[i] \union invMissed[i] \union {e}
                     ELSE invLog[i] \union invMissed[i]
      <3>1. CASE j \in open
        <4>1. InvWrite(j, e)
          BY <2>2, <3>1 DEF LogTo
        <4>2. \/ invLog' = [invLog EXCEPT ![j] = @ \union {e}] /\ invMissed' = invMissed
              \/ invMissed' = [invMissed EXCEPT ![j] = @ \union {e}] /\ invLog' = invLog
          BY <4>1 DEF InvWrite
        <4>3. QED
          BY <1>a, <3>1, <4>2
      <3>2. CASE j \notin open
        BY <2>2, <3>2 DEF LogTo
      <3>3. QED
        BY <3>1, <3>2
    <2>3. ASSUME ~GlobalWriteFails(e), NEW i \in Invs
          PROVE  /\ invLog'[i] \union invMissed'[i] \subseteq EntriesOf(i)'
                 /\ i \in logOpen' /\ invPc'[i] = "ready" =>
                      invLog'[i] \union invMissed'[i] = EntriesOf(i)'
      <3>1. CASE i = j
        BY <1>b, <2>1, <2>2, <2>3, <3>1
      <3>2. CASE i # j
        BY <1>b, <2>1, <2>2, <2>3, <3>2
      <3>3. QED
        BY <3>1, <3>2
    <2>4. QED
      BY <1>1, <2>3 DEF InvestigationLogAgrees
  <1>3. QED
    BY <1>1, <1>2 DEF LogTo

\* A step that logs under the investigation of its subject and leaves the open
\* logs alone keeps the logs in agreement.
LEMMA Logged ==
  ASSUME Apart, TypeOK, DispatchInv, LogInv, Next,
         UNCHANGED invPc,
         NEW e, NEW j \in Invs, Log(j, e), InvOfSubject(e[2])' = j
  PROVE  InvestigationLogAgrees'
  <1>1. LogTo(logOpen, j, e) /\ logOpen' = logOpen
    BY DEF Log
  <1>2. j \in logOpen /\ invPc[j] = "ready" => invLog[j] \union invMissed[j] = EntriesOf(j)
    BY DEF LogInv, InvestigationLogAgrees
  <1>3. QED
    BY <1>1, <1>2, LogAdded

LEMMA NextAgrees ==
  ASSUME Apart, TypeOK, DispatchInv, LogInv, Next
  PROVE  InvestigationLogAgrees'
  <1>a. /\ invPc \in [Invs -> {"none", "checked", "published", "ready", "failed", "refused"}]
        /\ logOpen \subseteq Invs
    BY DEF TypeOK, InvTypes
  <1>1. CASE UNCHANGED <<globalLog, invLog, invMissed, logOpen, invPc>>
    BY <1>1, LogKept
  <1>2. ASSUME NEW i \in Invs, CreateCheck(i) \/ CreateStore(i) \/ SetupFails(i)
        PROVE  InvestigationLogAgrees'
    <2>1. UNCHANGED <<globalLog, invLog, invMissed>> /\ logOpen' \subseteq logOpen \union {i}
          /\ invPc'[i] # "ready" /\ (\A k \in Invs \ {i} : invPc'[k] = invPc[k])
      BY <1>2, <1>a DEF CreateCheck, CreateStore, SetupFails, logVars
    <2>2. QED
      BY <2>1, LogKept
  <1>3. ASSUME NEW i \in Invs, SetupDone(i) PROVE InvestigationLogAgrees'
    <2>1. /\ LogTo(logOpen', i, <<"investigation_start", i>>) /\ logOpen' = logOpen \union {i}
          /\ invPc[i] = "published" /\ (\A k \in Invs \ {i} : invPc'[k] = invPc[k])
      BY <1>3, <1>a DEF SetupDone
    <2>2. EntriesOf(i) = {}
      <3>1. SUFFICES ASSUME NEW e \in globalLog, InvOfSubject(e[2]) = i PROVE FALSE
        BY DEF EntriesOf
      <3>2. CASE e[2] \in Invs
        BY <3>1, <3>2, <2>1 DEF InvOfSubject, LogInv, Apart
      <3>3. CASE e[2] \in Calls
        BY <3>1, <3>3, <2>1 DEF InvOfSubject, LogInv, Apart
      <3>4. CASE e[2] \in Items
        <4>1. itemPc[e[2]] # "todo" /\ InvOf(e[2]) = i
          BY <3>1, <3>4 DEF InvOfSubject, LogInv, Apart
        <4>2. call[e[2][1]].pc # "idle" /\ e[2][1] \in Calls
          BY <3>4, <4>1, ItemParts DEF DispatchInv, ItemInv, Charged
        <4>3. QED
          BY <2>1, <4>1, <4>2 DEF LogInv, InvOf
      <3>5. QED
        BY <3>2, <3>3, <3>4 DEF LogInv
    <2>3. invLog[i] \union invMissed[i] = EntriesOf(i)
      BY <2>2 DEF LogInv, InvestigationLogAgrees
    <2>4. InvOfSubject(<<"investigation_start", i>>[2])' = i
      BY DEF InvOfSubject
    <2>5. QED
      BY <2>1, <2>3, <2>4, LogAdded
  <1>4. ASSUME NEW i \in Invs, SaveAnalysis(i) PROVE InvestigationLogAgrees'
    <2>1. CASE SaveSetPhase(i)
      BY <2>1, <1>1 DEF SaveSetPhase, SaveVars, logVars
    <2>2. CASE SaveLogEnd(i)
      <3>1. InvOfSubject(<<"investigation_end", i>>[2])' = i
        BY DEF InvOfSubject
      <3>2. QED
        BY <2>2, <3>1, Logged DEF SaveLogEnd, SaveVars
    <2>3. CASE SaveCloseLog(i)
      BY <2>3, LogKept DEF SaveCloseLog, SaveVars
    <2>4. QED
      BY <1>4, <2>1, <2>2, <2>3 DEF SaveAnalysis
  <1>5. ASSUME NEW t \in Calls, Reject(t) \/ CapReached(t) PROVE InvestigationLogAgrees'
    <2>1. call[t].pc # "idle" /\ UNCHANGED invPc
      BY <1>5 DEF Reject, CapReached, invVars
    <2>2. call[t].inv \in Invs /\ call'[t].inv = call[t].inv
      BY <2>1, BegunStays DEF DispatchInv, CallInv
    <2>3. \A x : InvOfSubject(<<x, t>>[2])' = call[t].inv
      BY <2>2 DEF InvOfSubject, Apart
    <2>4. QED
      BY <1>5, <2>1, <2>2, <2>3, Logged DEF Reject, CapReached
  <1>6. ASSUME NEW c \in Items, ItemReject(c) \/ ItemAudit(c) \/ ItemAuditResult(c)
        PROVE  InvestigationLogAgrees'
    <2>1. itemPc[c] # "todo" /\ UNCHANGED <<invPc, call>>
      BY <1>6 DEF ItemReject, ItemAudit, ItemAuditResult, Step, invVars
    <2>2. InvOf(c) \in Invs /\ InvOf(c)' = InvOf(c)
      BY <2>1, ItemParts DEF DispatchInv, CallInv, ItemInv, Charged, InvOf
    <2>3. \A x : InvOfSubject(<<x, c>>[2])' = InvOf(c)
      BY <2>2 DEF InvOfSubject, Apart
    <2>4. QED
      BY <1>6, <2>1, <2>2, <2>3, Logged DEF ItemReject, ItemAudit, ItemAuditResult
  <1>7. QED
    BY <1>1, <1>2, <1>3, <1>4, <1>5, <1>6
    DEF Next, Investigate, Continue, Begin, Decide, NoActiveAgents, Charge, Return, Start, Work,
        ItemStale, ItemEnqueue, ItemResult, ItemTimeout, ItemWrite, ItemOpen, ItemOpenFails,
        ItemPut, ItemPutFails, AgentTakes, AgentAnswers, logVars, invVars

LEMMA NextLog ==
  ASSUME Apart, TypeOK, DispatchInv, LogInv, Next
  PROVE  LogInv'
  <1>a. /\ invPc \in [Invs -> {"none", "checked", "published", "ready", "failed", "refused"}]
        /\ savePc \in [Invs -> {"idle", "complete", "logged"}] /\ logOpen \subseteq Invs
        /\ itemPc \in [Items -> {"todo"} \union InFlight \union Finished]
        /\ call \in [Calls -> [pc : CallStates, kind : Kinds, inv : Invs \union {NoInv},
                              phase : {"pathfinder", "complete"}, targets : Seq(Targets)]]
    BY DEF TypeOK, InvTypes, ItemTypes, CallTypes
  <1>1. invLog' \in [Invs -> SUBSET globalLog'] /\ invMissed' \in [Invs -> SUBSET globalLog']
    <2>1. ASSUME NEW open, NEW j, NEW e, LogTo(open, j, e)
          PROVE  invLog' \in [Invs -> SUBSET globalLog'] /\ invMissed' \in [Invs -> SUBSET globalLog']
      <3>1. invLog \in [Invs -> SUBSET globalLog] /\ invMissed \in [Invs -> SUBSET globalLog]
        BY DEF LogInv
      <3>2. CASE GlobalWriteFails(e)
        BY <3>1, <3>2 DEF GlobalWriteFails
      <3>3. CASE globalLog' = globalLog \union {e} /\ UNCHANGED <<invLog, invMissed>>
        BY <3>1, <3>3
      <3>4. CASE globalLog' = globalLog \union {e} /\ InvWrite(j, e)
        BY <3>1, <3>4 DEF InvWrite
      <3>5. QED
        BY <2>1, <3>2, <3>3, <3>4 DEF LogTo
    <2>2. CASE UNCHANGED <<globalLog, invLog, invMissed>>
      BY <2>2 DEF LogInv
    <2>3. QED
      BY <2>1, <2>2
      DEF Next, Investigate, CreateCheck, CreateStore, SetupFails, SetupDone, Continue,
          SaveAnalysis, SaveSetPhase, SaveLogEnd, SaveCloseLog, SaveVars, Begin, Decide, Reject,
          NoActiveAgents, Charge, CapReached, Return, Start, Work, ItemReject, ItemStale,
          ItemAudit, ItemEnqueue, ItemResult, ItemTimeout, ItemWrite, ItemOpen, ItemOpenFails,
          ItemPut, ItemPutFails, ItemAuditResult, AgentTakes, AgentAnswers, Log, logVars
  <1>2. \A e \in globalLog' : \/ e[2] \in Invs /\ invPc'[e[2]] = "ready"
                              \/ e[2] \in Calls /\ call'[e[2]].pc # "idle"
                              \/ e[2] \in Items /\ itemPc'[e[2]] # "todo"
    <2> DEFINE Known(e) == \/ e[2] \in Invs /\ invPc'[e[2]] = "ready"
                           \/ e[2] \in Calls /\ call'[e[2]].pc # "idle"
                           \/ e[2] \in Items /\ itemPc'[e[2]] # "todo"
    <2>1. \A e \in globalLog : Known(e)
      BY BegunStays DEF LogInv
    <2>2. ASSUME NEW open, NEW j, NEW e, LogTo(open, j, e), Known(e) PROVE \A d \in globalLog' : Known(d)
      BY <2>1, <2>2 DEF LogTo, GlobalWriteFails
    <2>3. CASE UNCHANGED globalLog
      BY <2>1, <2>3
    <2>4. ASSUME NEW i \in Invs, SetupDone(i) \/ SaveLogEnd(i)
          PROVE  \A d \in globalLog' : Known(d)
      <3>1. invPc'[i] = "ready"
        BY <2>4, <1>a DEF SetupDone, SaveLogEnd, SaveVars, LogInv
      <3>2. QED
        BY <2>2, <2>4, <3>1 DEF SetupDone, SaveLogEnd, Log
    <2>5. ASSUME NEW t \in Calls, Reject(t) \/ CapReached(t) PROVE \A d \in globalLog' : Known(d)
      <3>1. call'[t].pc # "idle"
        BY <2>5, BegunStays DEF Reject, CapReached
      <3>2. QED
        BY <2>2, <2>5, <3>1 DEF Reject, CapReached, Log
    <2>6. ASSUME NEW c \in Items, ItemReject(c) \/ ItemAudit(c) \/ ItemAuditResult(c)
          PROVE  \A d \in globalLog' : Known(d)
      <3>1. itemPc'[c] # "todo"
        BY <2>6, BegunStays DEF ItemReject, ItemAudit, ItemAuditResult, Step
      <3>2. QED
        BY <2>2, <2>6, <3>1 DEF ItemReject, ItemAudit, ItemAuditResult, Log
    <2>7. QED
      BY <2>3, <2>4, <2>5, <2>6
      DEF Next, Investigate, CreateCheck, CreateStore, SetupFails, Continue, SaveAnalysis,
          SaveSetPhase, SaveCloseLog, Begin, Decide, NoActiveAgents, Charge, Return, Start, Work,
          ItemStale, ItemEnqueue, ItemResult, ItemTimeout, ItemWrite, ItemOpen, ItemOpenFails,
          ItemPut, ItemPutFails, AgentTakes, AgentAnswers, logVars
  <1>3. \A t \in Calls : call'[t].pc # "idle" => invPc'[call'[t].inv] = "ready"
    <2> SUFFICES ASSUME NEW u \in Calls, call'[u].pc # "idle"
                 PROVE  invPc'[call'[u].inv] = "ready"
      OBVIOUS
    <2>1. CASE call[u].pc # "idle"
      BY <2>1, BegunStays DEF LogInv, DispatchInv, CallInv
    <2>2. CASE call[u].pc = "idle"
      <3>1. ASSUME NEW t \in Calls, NEW pc, call[t].pc # "idle", GoTo(t, pc) PROVE FALSE
        BY <2>2, <3>1, <1>a DEF GoTo
      <3>2. ASSUME NEW t \in Calls, Begin(t) PROVE invPc'[call'[u].inv] = "ready"
        BY <3>2, <1>a, <2>2 DEF Begin, invVars
      <3>3. CASE UNCHANGED call
        BY <2>2, <3>3
      <3>4. QED
        BY <3>1, <3>2, <3>3
        DEF Next, Investigate, CreateCheck, CreateStore, SetupFails, SetupDone, Continue,
            SaveAnalysis, SaveSetPhase, SaveLogEnd, SaveCloseLog, SaveVars, Decide, Reject,
            NoActiveAgents, Charge, CapReached, Return, Start, Work, ItemReject, ItemStale,
            ItemAudit, ItemEnqueue, ItemResult, ItemTimeout, ItemWrite, ItemOpen, ItemOpenFails,
            ItemPut, ItemPutFails, ItemAuditResult, AgentTakes, AgentAnswers
    <2>3. QED
      BY <2>1, <2>2
  <1>4. \A i \in Invs : savePc'[i] # "idle" => invPc'[i] = "ready"
    <2>1. CASE UNCHANGED savePc
      BY <2>1, BegunStays DEF LogInv
    <2>2. ASSUME NEW i \in Invs, SaveAnalysis(i), NEW k \in Invs, savePc'[k] # "idle"
          PROVE  invPc'[k] = "ready"
      <3>1. UNCHANGED invPc /\ invPc[i] = "ready" /\ (k # i => savePc'[k] = savePc[k])
        BY <2>2, <1>a DEF SaveAnalysis, SaveSetPhase, SaveLogEnd, SaveCloseLog, SaveVars, LogInv
      <3>2. QED
        BY <2>2, <3>1 DEF LogInv
    <2>3. QED
      BY <2>1, <2>2
      DEF Next, Investigate, CreateCheck, CreateStore, SetupFails, SetupDone, Continue, Begin,
          Decide, Reject, NoActiveAgents, Charge, CapReached, Return, Start, Work, ItemReject,
          ItemStale, ItemAudit, ItemEnqueue, ItemResult, ItemTimeout, ItemWrite, ItemOpen,
          ItemOpenFails, ItemPut, ItemPutFails, ItemAuditResult, AgentTakes, AgentAnswers,
          invVars
  <1>5. \A i \in logOpen' : invPc'[i] \in {"ready", "failed"}
    <2>1. CASE UNCHANGED <<invPc, logOpen>>
      BY <2>1 DEF LogInv
    <2>2. ASSUME NEW i \in Invs, Investigate(i), NEW k \in logOpen'
          PROVE  invPc'[k] \in {"ready", "failed"}
      <3>1. /\ k # i => k \in logOpen /\ invPc'[k] = invPc[k]
            /\ i \in logOpen => invPc[i] \in {"ready", "failed"}
            /\ k = i /\ i \notin logOpen => invPc'[i] \in {"ready", "failed"}
            /\ invPc[i] \in {"none", "checked", "published"}
        BY <2>2, <1>a
        DEF Investigate, CreateCheck, CreateStore, SetupFails, SetupDone, logVars, LogInv
      <3>2. QED
        BY <3>1 DEF LogInv
    <2>3. ASSUME NEW i \in Invs, SaveAnalysis(i), NEW k \in logOpen'
          PROVE  invPc'[k] \in {"ready", "failed"}
      BY <2>3 DEF SaveAnalysis, SaveSetPhase, SaveLogEnd, SaveCloseLog, SaveVars, Log, logVars, LogInv
    <2>4. QED
      BY <2>1, <2>2, <2>3
      DEF Next, Continue, Begin, Decide, Reject, NoActiveAgents, Charge, CapReached, Return,
          Start, Work, ItemReject, ItemStale, ItemAudit, ItemEnqueue, ItemResult, ItemTimeout,
          ItemWrite, ItemOpen, ItemOpenFails, ItemPut, ItemPutFails, ItemAuditResult, AgentTakes,
          AgentAnswers, Log, logVars, invVars
  <1>6. QED
    BY <1>1, <1>2, <1>3, <1>4, <1>5, NextAgrees DEF LogInv

\* An investigation's own log and the global one never disagree about it but by
\* the entries whose write to it failed, however calls, set-ups and saves interleave.
THEOREM LogsCorrect ==
  ASSUME Apart
  PROVE  Spec => []InvestigationLogAgrees
  <1>1. Spec => [](TypeOK /\ DispatchInv)
    BY DispatchInductive
  <1>2. Init => LogInv
    BY DEF Init, LogInv, InvestigationLogAgrees, EntriesOf
  <1>3. TypeOK /\ DispatchInv /\ LogInv /\ [Next]_vars => LogInv'
    <2> SUFFICES ASSUME TypeOK, DispatchInv, LogInv, [Next]_vars PROVE LogInv'
      OBVIOUS
    <2>1. CASE UNCHANGED vars
      <3>1. UNCHANGED <<globalLog, invLog, invMissed, logOpen, invPc, savePc, call, itemPc>>
        BY <2>1 DEF vars, invVars, logVars, itemVars
      <3>2. \A i : EntriesOf(i)' = EntriesOf(i)
        BY <3>1 DEF EntriesOf, InvOfSubject, InvOf
      <3>3. QED
        BY <3>1, <3>2 DEF LogInv, InvestigationLogAgrees
    <2>2. QED
      BY <2>1, NextLog
  <1>4. LogInv => InvestigationLogAgrees
    BY DEF LogInv
  <1>5. QED
    BY <1>1, <1>2, <1>3, <1>4, PTL DEF Spec

-----------------------------------------------------------------------------
(* The budgets.                                                            *)

\* There are n numbers from 1 to n.
LEMMA FirstNumbers ==
  ASSUME NEW n \in Nat
  PROVE  IsFiniteSet(1 .. n) /\ Cardinality(1 .. n) = n
  <1>1. IsFiniteSet(1 .. n) /\ Cardinality(1 .. n) = IF 1 > n THEN 0 ELSE n - 1 + 1
    BY FS_Interval, SMT
  <1>2. QED
    BY <1>1

\* The commands a call is charged for are as many as its cost.
LEMMA CostCounts ==
  ASSUME CallTypes, NEW t \in Calls
  PROVE  LET S == {c \in Items : c[1] = t /\ c[2] <= Cost(t)} IN
         IsFiniteSet(S) /\ Cardinality(S) = Cost(t)
  <1> DEFINE n == Cost(t)
             S == {c \in Items : c[1] = t /\ c[2] <= n}
             f == [k \in 1 .. n |-> <<t, k>>]
  <1>1. n \in Nat /\ n <= MaxItems
    BY CostType, Bounds DEF CallTypes, Cost
  <1> HIDE DEF n
  <1>2. f \in [1 .. n -> S] /\ (\A a, b \in 1 .. n : f[a] = f[b] => a = b)
    BY <1>1, Bounds DEF Items
  <1>3. ASSUME NEW c \in S PROVE c[2] \in 1 .. n /\ f[c[2]] = c
    BY <1>1, ItemParts, Bounds
  <1>4. f \in Bijection(1 .. n, S)
    BY <1>2, <1>3 DEF Bijection, Injection, IsInjective, Surjection
  <1>5. IsFiniteSet(1 .. n) /\ Cardinality(1 .. n) = n
    BY <1>1, FirstNumbers
  <1>6. IsFiniteSet(S) /\ Cardinality(S) = Cardinality(1 .. n)
    <2> HIDE DEF S, f
    <2>1. ExistsBijection(1 .. n, S)
      BY <1>4 DEF ExistsBijection
    <2>2. QED
      BY <1>5, <2>1, FS_Bijection
  <1>7. QED
    BY <1>5, <1>6 DEF n

\* Two calls that are charged, for the same kind and commands, cost the same.
LEMMA ChargesKept ==
  ASSUME AccountInv,
         \A t \in Calls :
            \/ call'[t] = call[t]
            \/ call[t].pc \notin Charged /\ call'[t].pc \notin Charged
            \/ /\ call[t].pc \in Charged /\ call'[t].pc \in Charged
               /\ call'[t].inv = call[t].inv /\ call'[t].kind = call[t].kind
               /\ call'[t].targets = call[t].targets,
         NEW i \in Invs
  PROVE  ChargesOn(i)' = ChargesOn(i)
  <1>1. \A c \in Items : c \in ChargesOn(i)' <=> c \in ChargesOn(i)
    BY ItemParts DEF ChargesOn
  <1>2. QED
    BY <1>1 DEF ChargesOn

\* A charge adds the commands of its call, and none of them was charged before.
LEMMA ChargeAdds ==
  ASSUME AccountInv, NEW t \in Calls, NEW i \in Invs, i = call[t].inv, Charge(t),
         used[i] + Cost(t) <= budget[i]
  PROVE  /\ IsFiniteSet(ChargesOn(i)')
         /\ Cardinality(ChargesOn(i)') = Cardinality(ChargesOn(i)) + Cost(t)
         /\ \A j \in Invs \ {i} : ChargesOn(j)' = ChargesOn(j)
  <1> DEFINE S == {c \in Items : c[1] = t /\ c[2] <= Cost(t)}
  <1>1. call \in [Calls -> [pc : CallStates, kind : Kinds, inv : Invs \union {NoInv},
                           phase : {"pathfinder", "complete"}, targets : Seq(Targets)]]
    BY DEF AccountInv, CallTypes
  <1>2. call' = [call EXCEPT ![t].pc = "dispatching"]
    <2>1. ~(used[i] + Cost(t) > budget[i])
      BY <1>1, CostType DEF AccountInv, InvTypes
    <2>2. QED
      BY <2>1 DEF Charge, GoTo
  <1>3. /\ call'[t].pc = "dispatching" /\ call'[t].inv = i /\ call'[t].kind = call[t].kind
        /\ call'[t].targets = call[t].targets /\ \A u \in Calls \ {t} : call'[u] = call[u]
    BY <1>1, <1>2
  <1>4. call[t].pc \notin Charged
    BY DEF Charge, Charged
  <1>5. ASSUME NEW c \in Items
        PROVE  /\ c \in ChargesOn(i)' <=> c \in ChargesOn(i) \union S
               /\ ~(c \in ChargesOn(i) /\ c \in S)
               /\ \A j \in Invs \ {i} : c \in ChargesOn(j)' <=> c \in ChargesOn(j)
    <2>1. CASE c[1] = t
      BY <1>3, <1>4, <2>1 DEF ChargesOn, Charged, Cost
    <2>2. CASE c[1] # t
      BY <1>3, <2>2, ItemParts DEF ChargesOn
    <2>3. QED
      BY <2>1, <2>2
  <1>6. /\ ChargesOn(i)' = ChargesOn(i) \union S /\ ChargesOn(i) \cap S = {}
        /\ \A j \in Invs \ {i} : ChargesOn(j)' = ChargesOn(j)
    BY <1>5 DEF ChargesOn
  <1>7. IsFiniteSet(S) /\ Cardinality(S) = Cost(t) /\ IsFiniteSet(ChargesOn(i))
    BY <1>1, CostCounts DEF AccountInv
  <1> HIDE DEF S
  <1>8. /\ IsFiniteSet(ChargesOn(i) \union S)
        /\ Cardinality(ChargesOn(i) \union S)
              = Cardinality(ChargesOn(i)) + Cardinality(S) - Cardinality(ChargesOn(i) \cap S)
    BY <1>7, FS_Union
  <1>9. Cardinality(ChargesOn(i)) \in Nat /\ Cardinality(S) \in Nat /\ Cardinality({}) = 0
    BY <1>7, FS_CardinalityType, FS_EmptySet
  <1>10. Cardinality(ChargesOn(i) \union S) = Cardinality(ChargesOn(i)) + Cost(t)
    <2>1. Cardinality(ChargesOn(i) \cap S) = 0
      BY <1>6, <1>9
    <2>2. QED
      BY <1>7, <1>8, <1>9, <2>1
  <1>11. QED
    BY <1>6, <1>8, <1>10

LEMMA NextAccount == AccountInv /\ [Next]_vars => AccountInv'
  <1> SUFFICES ASSUME AccountInv, [Next]_vars PROVE AccountInv'
    OBVIOUS
  <1>a. /\ used \in [Invs -> Nat] /\ budget \in [Invs -> Nat]
        /\ call \in [Calls -> [pc : CallStates, kind : Kinds, inv : Invs \union {NoInv},
                              phase : {"pathfinder", "complete"}, targets : Seq(Targets)]]
    BY DEF AccountInv, InvTypes, CallTypes
  <1>b. InvTypes' /\ CallTypes'
    BY NextRequests DEF AccountInv
  <1>c. ASSUME NEW t \in Calls PROVE CallInv(t)'
    <2>1. CASE Next
      BY <2>1, NextCall DEF AccountInv
    <2>2. CASE UNCHANGED vars
      BY <2>2 DEF vars, CallInv, AccountInv
    <2>3. QED
      BY <2>1, <2>2
  \* The calls stay charged as they are, and nothing is counted.
  <1>1. ASSUME \A i \in Invs : ChargesOn(i)' = ChargesOn(i),
               used' = used, \A i \in Invs : budget'[i] >= budget[i]
        PROVE  AccountInv'
    BY <1>1, <1>a, <1>b, <1>c DEF AccountInv, BudgetAccounting, InvTypes
  <1>2. ASSUME NEW t \in Calls, NEW pc, call[t].pc \in Charged <=> pc \in Charged,
               GoTo(t, pc), UNCHANGED <<used, budget>>
        PROVE  AccountInv'
    <2>1. \A u \in Calls \ {t} : call'[u] = call[u]
      BY <1>2, <1>a DEF GoTo
    <2>2. call'[t] = [call[t] EXCEPT !.pc = pc]
      BY <1>2, <1>a DEF GoTo
    <2>3. /\ call'[t].pc = pc /\ call'[t].inv = call[t].inv
          /\ call'[t].kind = call[t].kind /\ call'[t].targets = call[t].targets
      BY <2>2, <1>a
    <2>4. \A i \in Invs : ChargesOn(i)' = ChargesOn(i)
      BY <1>2, <2>1, <2>3, ChargesKept
    <2>5. QED
      BY <1>1, <1>2, <1>a, <2>4
  <1>3. CASE UNCHANGED <<used, budget, call>>
    <2>1. \A i \in Invs : ChargesOn(i)' = ChargesOn(i)
      BY <1>3 DEF ChargesOn
    <2>2. QED
      BY <1>1, <1>3, <1>a, <2>1
  <1>4. ASSUME NEW i \in Invs, Continue(i) PROVE AccountInv'
    <2>1. \A j \in Invs : ChargesOn(j)' = ChargesOn(j)
      BY <1>4 DEF Continue, ChargesOn
    <2>2. used' = used /\ \A j \in Invs : budget'[j] >= budget[j]
      BY <1>4, <1>a, Bounds DEF Continue
    <2>3. QED
      BY <1>1, <2>1, <2>2
  <1>5. ASSUME NEW t \in Calls, Begin(t) PROVE AccountInv'
    <2>1. /\ call[t].pc \notin Charged /\ call'[t].pc \notin Charged
          /\ \A u \in Calls \ {t} : call'[u] = call[u] /\ UNCHANGED <<used, budget>>
      BY <1>5, <1>a DEF Begin, Charged, invVars
    <2>2. \A i \in Invs : ChargesOn(i)' = ChargesOn(i)
      BY <2>1, ChargesKept
    <2>3. QED
      BY <1>1, <1>a, <1>5, <2>2 DEF Begin, invVars
  <1>6. ASSUME NEW t \in Calls, Reject(t) \/ NoActiveAgents(t) \/ CapReached(t) \/ Return(t)
        PROVE  AccountInv'
    BY <1>2, <1>6
    DEF Reject, NoActiveAgents, CapReached, Return, Charged, invVars
  <1>7. ASSUME NEW t \in Calls, Charge(t) PROVE AccountInv'
    <2>0. PICK i \in Invs : i = call[t].inv
      BY <1>7 DEF Charge, AccountInv, CallInv
    <2>1. i \in Invs /\ Cost(t) \in Nat
      BY CostType DEF AccountInv
    <2>2. CASE used[i] + Cost(t) > budget[i]
      <3>1. GoTo(t, "capped") /\ UNCHANGED <<used, budget>> /\ call[t].pc = "admitted"
        BY <1>7, <2>0, <2>2 DEF Charge
      <3>2. QED
        BY <1>2, <3>1 DEF Charged
    <2>3. CASE ~(used[i] + Cost(t) > budget[i])
      <3>1. used' = [used EXCEPT ![i] = @ + Cost(t)] /\ budget' = budget
        BY <1>7, <2>0, <2>3 DEF Charge
      <3>2. used[i] + Cost(t) <= budget[i]
        BY <1>a, <2>1, <2>3
      <3>3. /\ IsFiniteSet(ChargesOn(i)')
            /\ Cardinality(ChargesOn(i)') = Cardinality(ChargesOn(i)) + Cost(t)
            /\ \A j \in Invs \ {i} : ChargesOn(j)' = ChargesOn(j)
        BY <1>7, <2>0, <3>2, ChargeAdds
      <3>4. used'[i] = used[i] + Cost(t) /\ \A j \in Invs \ {i} : used'[j] = used[j]
        BY <1>a, <2>1, <3>1
      <3>5. \A j \in Invs : /\ IsFiniteSet(ChargesOn(j)') /\ used'[j] = Cardinality(ChargesOn(j)')
                             /\ used'[j] <= budget'[j]
        BY <3>1, <3>2, <3>3, <3>4 DEF AccountInv, BudgetAccounting
      <3>6. QED
        BY <1>b, <1>c, <3>5 DEF AccountInv, BudgetAccounting
    <2>4. QED
      BY <2>2, <2>3
  <1>8. ASSUME NEW i \in Invs, Investigate(i) \/ SaveAnalysis(i) PROVE UNCHANGED <<used, budget, call>>
    BY <1>8 DEF Investigate, CreateCheck, CreateStore, SetupFails, SetupDone,
                SaveAnalysis, SaveSetPhase, SaveLogEnd, SaveCloseLog, SaveVars
  <1>9. ASSUME NEW c \in Items, Work(c) \/ AgentTakes(c) \/ AgentAnswers(c)
        PROVE  UNCHANGED <<used, budget, call>>
    BY <1>9 DEF Work, ItemReject, ItemStale, ItemAudit, ItemEnqueue, ItemResult, ItemTimeout,
                ItemWrite, ItemOpen, ItemOpenFails, ItemPut, ItemPutFails, ItemAuditResult,
                AgentTakes, AgentAnswers, invVars
  <1>10. QED
    BY <1>3, <1>4, <1>5, <1>6, <1>7, <1>8, <1>9 DEF Next, Decide, Start, vars, invVars

\* However the calls that check and charge an investigation interleave with each
\* other and with those that raise its cap, its counter says exactly what its calls
\* were charged with and never more than its cap, whatever becomes of the audit log.
THEOREM BudgetCorrect == Spec => []BudgetAccounting
  <1>1. Init => AccountInv
    <2> SUFFICES ASSUME Init PROVE AccountInv
      OBVIOUS
    <2>1. InvTypes /\ CallTypes
      BY InitType DEF TypeOK
    <2>2. \A t \in Calls : call[t].pc = "idle"
      BY DEF Init
    <2>3. \A i \in Invs : ChargesOn(i) = {}
      BY <2>2, ItemParts DEF ChargesOn, Charged
    <2>4. \A i \in Invs : used[i] = 0 /\ budget[i] = MaxCommands
      BY DEF Init
    <2>5. \A i \in Invs : IsFiniteSet(ChargesOn(i)) /\ Cardinality(ChargesOn(i)) = 0
      BY <2>3, FS_EmptySet
    <2>6. QED
      BY <2>1, <2>2, <2>4, <2>5, Bounds DEF AccountInv, CallInv, BudgetAccounting
  <1>2. AccountInv => BudgetAccounting
    BY DEF AccountInv
  <1>3. QED
    BY <1>1, <1>2, NextAccount, PTL DEF Spec
=============================================================================
