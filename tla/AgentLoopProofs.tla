---------------------------- MODULE AgentLoopProofs ----------------------------
(***************************************************************************)
(* Proofs about the agent's loop, for any commands, investigations,        *)
(* submissions in flight, attempts and restarts.                           *)
(***************************************************************************)
EXTENDS AgentLoop, SequenceTheorems, FiniteSetTheorems, TLAPS

(* Sequences as the sets of what they hold.                                *)

LEMMA NothingHeld == ToSet(<<>>) = {} /\ IsInjective(<<>>)
  BY DEF ToSet, IsInjective

LEMMA OneHeld ==
  ASSUME NEW S, NEW e \in S
  PROVE  <<e>> \in Seq(S) /\ ToSet(<<e>>) = {e} /\ IsInjective(<<e>>)
  BY DEF ToSet, IsInjective

LEMMA HeldInType ==
  ASSUME NEW S, NEW s \in Seq(S)
  PROVE  ToSet(s) \subseteq S
  BY DEF ToSet

\* Taking the first element.
LEMMA HeadTaken ==
  ASSUME NEW S, NEW s \in Seq(S), s # <<>>
  PROVE  /\ Head(s) \in ToSet(s) /\ Head(s) \in S /\ Tail(s) \in Seq(S)
         /\ ToSet(s) = {Head(s)} \union ToSet(Tail(s))
         /\ IsInjective(s) => Head(s) \notin ToSet(Tail(s)) /\ IsInjective(Tail(s))
  <1>1. /\ Head(s) \in S /\ Tail(s) \in Seq(S) /\ Len(Tail(s)) = Len(s) - 1
        /\ \A i \in 1..Len(Tail(s)) : Tail(s)[i] = s[i + 1]
    BY HeadTailProperties
  <1>2. Len(s) \in Nat /\ Len(s) > 0 /\ Head(s) = s[1] /\ DOMAIN s = 1..Len(s)
    BY LenProperties
  <1>3. DOMAIN Tail(s) = 1..(Len(s) - 1)
    BY <1>1, LenProperties
  <1>4. ASSUME NEW i \in DOMAIN s PROVE s[i] \in {Head(s)} \union ToSet(Tail(s))
    <2>1. CASE i = 1
      BY <1>2, <2>1
    <2>2. CASE i # 1
      <3>1. i - 1 \in DOMAIN Tail(s)
        BY <1>2, <1>3, <2>2
      <3>2. Tail(s)[i - 1] = s[i]
        BY <1>1, <1>2, <1>3, <3>1
      <3>3. QED
        BY <3>1, <3>2 DEF ToSet
    <2>3. QED
      BY <2>1, <2>2
  <1>5. ASSUME NEW i \in DOMAIN Tail(s) PROVE i + 1 \in DOMAIN s /\ i + 1 # 1 /\ Tail(s)[i] = s[i + 1]
    BY <1>1, <1>2, <1>3
  <1>6. ToSet(s) = {Head(s)} \union ToSet(Tail(s)) /\ Head(s) \in ToSet(s)
    <2>1. 1 \in DOMAIN s
      BY <1>2
    <2>2. ToSet(s) \subseteq {Head(s)} \union ToSet(Tail(s))
      BY <1>4 DEF ToSet
    <2>3. ToSet(Tail(s)) \subseteq ToSet(s)
      BY <1>5 DEF ToSet
    <2>4. Head(s) \in ToSet(s)
      BY <1>2, <2>1 DEF ToSet
    <2>5. QED
      BY <2>2, <2>3, <2>4
  <1>7. ASSUME IsInjective(s) PROVE Head(s) \notin ToSet(Tail(s)) /\ IsInjective(Tail(s))
    <2>1. 1 \in DOMAIN s
      BY <1>2
    <2>2. Head(s) \notin ToSet(Tail(s))
      BY <1>2, <1>5, <1>7, <2>1 DEF ToSet, IsInjective
    <2>3. ASSUME NEW i \in DOMAIN Tail(s), NEW j \in DOMAIN Tail(s), Tail(s)[i] = Tail(s)[j]
          PROVE  i = j
      <3>1. i + 1 = j + 1
        BY <1>5, <1>7, <2>3 DEF IsInjective
      <3>2. QED
        BY <3>1, <1>2, <1>3
    <2>4. QED
      BY <2>2, <2>3 DEF IsInjective
  <1>8. QED
    BY <1>1, <1>6, <1>7

\* Adding one at the end.
LEMMA Added ==
  ASSUME NEW S, NEW s \in Seq(S), NEW e \in S
  PROVE  /\ Append(s, e) \in Seq(S)
         /\ ToSet(Append(s, e)) = ToSet(s) \union {e}
         /\ IsInjective(s) /\ e \notin ToSet(s) => IsInjective(Append(s, e))
  <1> DEFINE t == Append(s, e)
  <1>1. /\ t \in Seq(S) /\ Len(t) = Len(s) + 1 /\ t[Len(s) + 1] = e
        /\ \A i \in 1..Len(s) : t[i] = s[i]
    BY AppendProperties
  <1>2. DOMAIN t = 1..(Len(s) + 1) /\ DOMAIN s = 1..Len(s) /\ Len(s) \in Nat
    BY <1>1, LenProperties
  <1> HIDE DEF t
  <1>3. DOMAIN t = DOMAIN s \union {Len(s) + 1} /\ \A i \in DOMAIN s : t[i] = s[i]
    BY <1>1, <1>2
  <1>4. ToSet(t) = ToSet(s) \union {e}
    BY <1>1, <1>3 DEF ToSet
  <1>5. IsInjective(s) /\ e \notin ToSet(s) => IsInjective(t)
    BY <1>1, <1>3 DEF ToSet, IsInjective
  <1>6. QED
    BY <1>1, <1>4, <1>5 DEF t

\* Keeping the first n.
LEMMA Kept ==
  ASSUME NEW S, NEW s \in Seq(S), NEW n \in 0..Len(s)
  PROVE  /\ SubSeq(s, 1, n) \in Seq(S)
         /\ ToSet(s) = ToSet(SubSeq(s, 1, n)) \union {s[i] : i \in n+1..Len(s)}
         /\ IsInjective(s) => IsInjective(SubSeq(s, 1, n))
  <1> DEFINE t == SubSeq(s, 1, n)
  <1>1. Len(s) \in Nat /\ DOMAIN s = 1..Len(s) /\ \A i \in 1..n : s[i] \in S
    BY LenProperties
  <1>2. /\ t \in Seq(S) /\ Len(t) = IF 1 <= n THEN n - 1 + 1 ELSE 0
        /\ \A i \in 1..n - 1 + 1 : t[i] = s[1 + i - 1]
    BY <1>1, SubSeqProperties
  <1>3. DOMAIN t = 1..n /\ \A i \in 1..n : t[i] = s[i]
    BY <1>1, <1>2, LenProperties
  <1> HIDE DEF t
  <1>4. DOMAIN s = DOMAIN t \union (n+1..Len(s))
    BY <1>1, <1>3
  <1>5. ToSet(s) = ToSet(t) \union {s[i] : i \in n+1..Len(s)}
    BY <1>3, <1>4 DEF ToSet
  <1>6. IsInjective(s) => IsInjective(t)
    BY <1>3, <1>4 DEF IsInjective
  <1>7. QED
    BY <1>2, <1>5, <1>6 DEF t

\* A list of distinct commands.
LEMMA Distinct ==
  ASSUME NEW q \in SetToAllKPermutations(Cmds)
  PROVE  q \in Seq(Cmds) /\ IsInjective(q) /\ ToSet(q) \subseteq Cmds
  <1>1. PICK S \in SUBSET Cmds : q \in SetToSeqs(S)
    BY DEF SetToAllKPermutations
  <1>2. Cardinality(S) \in Nat
    BY <1>1, LoopAssumption, FS_Subset, FS_CardinalityType
  <1>3. q \in [1..Cardinality(S) -> S] /\ IsInjective(q)
    BY <1>1 DEF SetToSeqs, IsInjective
  <1>4. q \in Seq(Cmds)
    BY <1>1, <1>2, <1>3
  <1>5. QED
    BY <1>3, <1>4, HeldInType
-----------------------------------------------------------------------------
(* Types.                                                                  *)

LEMMA InitType == Init => TypeOK
  <1> SUFFICES ASSUME Init PROVE TypeOK
    OBVIOUS
  <1>1. oversized \in BOOLEAN
    BY DEF Init
  <1>2. QED
    BY <1>1, LoopAssumption, SMTT(20) DEF Init, Queue!Init, TypeOK

\* What the queue's actions change, in the types of this module.
QueueType ==
  /\ assigned \in [Cmds -> {Host, NoHost}] /\ accepted \in [Cmds -> {Host, NoHost}]
  /\ handed \in [Cmds -> 0..1]
  /\ outcome \in [Cmds -> {"none", "waiting", "result", "timeout"}]

LEMMA DispatcherTypes ==
  ASSUME QueueType, NEW c \in Cmds, Queue!Assign(c, Host) \/ Queue!Reply(c) \/ Queue!GiveUp(c)
  PROVE  QueueType' /\ UNCHANGED <<handed, accepted>>
  <1>1. CASE Queue!Assign(c, Host)
    BY <1>1 DEF QueueType, Queue!Assign
  <1>2. CASE Queue!Reply(c)
    BY <1>2 DEF QueueType, Queue!Reply
  <1>3. CASE Queue!GiveUp(c)
    BY <1>3 DEF QueueType, Queue!GiveUp
  <1>4. QED
    BY <1>1, <1>2, <1>3

LEMMA AcceptTypes ==
  ASSUME QueueType, NEW c \in Cmds, Queue!Accept(c)
  PROVE  /\ QueueType' /\ UNCHANGED <<assigned, handed, outcome>>
         /\ accepted' = [accepted EXCEPT ![c] = Host] /\ accepted[c] = NoHost
  <1>1. assigned[c] = Host
    BY DEF QueueType, Queue!Accept
  <1>2. QED
    BY <1>1 DEF QueueType, Queue!Accept

LEMMA HandTypes ==
  ASSUME QueueType, NEW S, Queue!Hand(Host, S)
  PROVE  /\ QueueType' /\ UNCHANGED <<assigned, accepted, outcome>>
         /\ \A c \in S : handed[c] = 0
         /\ \A c \in Cmds : handed'[c] = IF c \in S THEN 1 ELSE handed[c]
  BY DEF QueueType, Queue!Hand

LEMMA NextType == TypeOK /\ [Next]_vars => TypeOK'
  <1> SUFFICES ASSUME TypeOK, [Next]_vars PROVE TypeOK'
    OBVIOUS
  <1> USE LoopAssumption DEF TypeOK, queueVars, loopVars, workVars, submitVars, linkVars,
                             serverVars, faultVars
  <1>1. CASE UNCHANGED vars
    BY <1>1 DEF vars
  <1> QueueType
    BY DEF QueueType
  <1>2. CASE Dispatcher
    <2>1. QueueType'
      BY <1>2, DispatcherTypes DEF Dispatcher
    <2>2. QED
      BY <1>2, <2>1 DEF Dispatcher, QueueType
  <1>3. CASE StartPoll \/ PollFails
    <2>1. CASE StartPoll
      BY <2>1 DEF StartPoll
    <2>2. CASE PollFails
      <3>1. stray' \in 0..MaxStray
        BY <2>2 DEF PollFails
      <3>2. QED
        BY <2>2, <3>1 DEF PollFails
    <2>3. QED
      BY <1>3, <2>1, <2>2
  <1>4. CASE PollAnswered
    <2>1. PICK q \in SetToAllKPermutations(Cmds) :
            Queue!Hand(Host, ToSet(q)) /\ batch' = q /\ pc' = IF q = <<>> THEN "connecting" ELSE "run"
      BY <1>4 DEF PollAnswered
    <2>2. QueueType'
      BY <2>1, HandTypes
    <2>3. QED
      BY <1>4, <2>1, <2>2, Distinct DEF PollAnswered, QueueType
  <1>5. CASE StrayPollAnswered
    <2>1. PICK S \in SUBSET Cmds : Queue!Hand(Host, S) /\ lost' = lost \union S
      BY <1>5 DEF StrayPollAnswered
    <2>2. QueueType'
      BY <2>1, HandTypes
    <2>3. stray' \in 0..MaxStray
      BY <1>5 DEF StrayPollAnswered
    <2>4. QED
      BY <1>5, <2>1, <2>2, <2>3 DEF StrayPollAnswered, QueueType
  <1>6. CASE ConnectOk \/ ConnectFails
    <2>1. CASE ConnectOk
      <3>1. streams' \subseteq {"current", "old"}
        BY <2>1 DEF ConnectOk
      <3>2. QED
        BY <2>1, <3>1 DEF ConnectOk
    <2>2. CASE ConnectFails
      <3>1. streams' \subseteq {"current", "old"}
        BY <2>2 DEF ConnectFails
      <3>2. QED
        BY <2>2, <3>1 DEF ConnectFails
    <2>3. QED
      BY <1>6, <2>1, <2>2
  <1>7. CASE StreamSends
    <2>1. PICK s \in streams, c \in Cmds :
            /\ Queue!Hand(Host, {c})
            /\ wire' \in {wire, Append(wire, c)} /\ lost' \in {lost, lost \union {c}}
      BY <1>7 DEF StreamSends
    <2>2. QueueType'
      BY <2>1, HandTypes
    <2>3. wire' \in Seq(Cmds) /\ lost' \subseteq Cmds
      <3>1. Append(wire, c) \in Seq(Cmds)
        BY Added
      <3>2. QED
        BY <2>1, <3>1
    <2>4. UNCHANGED <<investigation, loopVars, workVars, submitVars, link, streams, serverVars,
                      stray, crashes>>
      BY <1>7 DEF StreamSends
    <2>5. QED
      BY <2>2, <2>3, <2>4, SMTT(20) DEF QueueType
  <1>8. CASE StreamUnregisters
    BY <1>8 DEF StreamUnregisters
  <1>9. CASE LinkFails
    <2>1. PICK n \in 0..Len(wire) : /\ wire' = SubSeq(wire, 1, n)
                                     /\ lost' = lost \union {wire[i] : i \in n+1..Len(wire)}
      BY <1>9 DEF LinkFails
    <2>2. wire' \in Seq(Cmds) /\ {wire[i] : i \in n+1..Len(wire)} \subseteq Cmds
      BY <2>1, Kept, HeldInType, SMTT(20)
    <2>3. QED
      BY <1>9, <2>1, <2>2 DEF LinkFails
  <1>10. CASE ReadEvent
    BY <1>10, HeadTaken, OneHeld DEF ReadEvent
  <1>11. CASE StreamEnds \/ ReadTimeout
    BY <1>11 DEF StreamEnds, ReadTimeout, LeaveStream
  <1>12. CASE Execute
    <2>1. Head(batch) \in Cmds /\ Tail(batch) \in Seq(Cmds)
      BY <1>12, HeadTaken DEF Execute
    <2>2. GroupOf(Head(batch)) \in Invs
      BY <2>1 DEF GroupOf
    <2>3. results[GroupOf(Head(batch))] \in Seq(Cmds)
      BY <2>2
    <2>4. Append(results[GroupOf(Head(batch))], Head(batch)) \in Seq(Cmds)
      BY <2>1, <2>3, Added
    <2>5. results' \in [Invs -> Seq(Cmds)] /\ execs' \in [Cmds -> Nat] /\ batch' \in Seq(Cmds)
      <3>1. results' = [results EXCEPT ![GroupOf(Head(batch))] =
                                    Append(results[GroupOf(Head(batch))], Head(batch))]
        BY <1>12 DEF Execute
      <3>2. results' \in [Invs -> Seq(Cmds)]
        BY <2>4, <3>1
      <3>3. execs' \in [Cmds -> Nat] /\ batch' \in Seq(Cmds)
        BY <1>12, <2>1 DEF Execute
      <3>4. QED
        BY <3>2, <3>3
    <2>6. QED
      BY <1>12, <2>5 DEF Execute
  <1>13. CASE AllExecuted \/ Submitted
    <2>1. CASE AllExecuted
      BY <2>1 DEF AllExecuted
    <2>2. CASE Submitted
      BY <2>2 DEF Submitted
    <2>3. QED
      BY <1>13, <2>1, <2>2
  <1>14. ASSUME NEW i \in Invs, NextGroup(i) PROVE TypeOK'
    BY <1>14 DEF NextGroup
  <1>15. ASSUME NEW r \in Requests, BodyTooLarge(r) \/ SubmissionArrives(r) PROVE TypeOK'
    <2>1. CASE BodyTooLarge(r)
      BY <2>1 DEF BodyTooLarge
    <2>2. CASE SubmissionArrives(r)
      BY <2>2 DEF SubmissionArrives
    <2>3. QED
      BY <1>15, <2>1, <2>2
  <1>16. ASSUME NEW r \in Requests, Deliver(r) PROVE TypeOK'
    <2>1. Head(todo[r]) \in Cmds /\ Tail(todo[r]) \in Seq(Cmds)
      BY <1>16, HeadTaken DEF Deliver
    <2>2. QueueType'
      BY <1>16, <2>1, AcceptTypes DEF Deliver
    <2>3. todo' \in [Requests -> Seq(Cmds)]
      BY <1>16, <2>1 DEF Deliver
    <2>4. QED
      BY <1>16, <2>2, <2>3 DEF Deliver, QueueType
  <1>17. ASSUME NEW r \in Requests, Refuse(r) \/ AllDelivered(r) \/ ResponseUnread(r) PROVE TypeOK'
    <2>1. CASE Refuse(r)
      <3>1. call' \in Requests \union {NoRequest} /\ todo' \in [Requests -> Seq(Cmds)]
        BY <2>1 DEF Refuse
      <3>2. QED
        BY <2>1, <3>1, SMTT(20) DEF Refuse
    <2>2. CASE AllDelivered(r)
      BY <2>2 DEF AllDelivered
    <2>3. CASE ResponseUnread(r)
      BY <2>3 DEF ResponseUnread
    <2>4. QED
      BY <1>17, <2>1, <2>2, <2>3
  \* The end of an attempt.
  <1> DEFINE Ended == /\ status' \in [Requests -> {"idle", "running", "ok", "refused"}]
                     /\ todo' = todo /\ call' = NoRequest /\ netFails' \in {netFails, netFails + 1}
                     /\ netFails \in Nat /\ attempt \in Nat /\ netFails < attempt
  <1>a. ASSUME NEW x \in {"ok", "refused"}, Response(x) PROVE Ended
    <2>1. call \in Requests /\ pc = "submit"
      BY <1>a DEF Response
    <2>2. status' \in [Requests -> {"idle", "running", "ok", "refused"}]
      BY <1>a, <2>1 DEF Response
    <2>3. QED
      BY <1>a, <2>1, <2>2 DEF Response
  <1>b. ASSUME NoResponse PROVE Ended
    BY <1>b DEF NoResponse
  <1>18. CASE SubmitOk
    <2>1. Ended /\ netFails' = netFails
      BY <1>18, <1>a DEF SubmitOk, Response
    <2>2. oversized' \in BOOLEAN
      BY <1>18 DEF SubmitOk
    <2>3. QED
      BY <1>18, <2>1, <2>2, NothingHeld DEF SubmitOk
  <1>19. CASE SubmitFailed
    <2>1. Ended
      BY <1>19, <1>a, <1>b DEF SubmitFailed
    <2>2. netFails' <= attempt /\ netFails' \in 0..MaxAttempts
      BY <2>1
    <2>3. QED
      BY <1>19, <2>1, <2>2 DEF SubmitFailed
  <1>20. CASE Retry
    <2>1. attempt' \in 1..MaxAttempts /\ netFails < attempt'
      BY <1>20 DEF Retry
    <2>2. QED
      BY <1>20, <2>1 DEF Retry
  <1>21. CASE Drop
    <2>1. Ended
      BY <1>21, <1>a, <1>b DEF Drop
    <2>2. netFails' \in 0..MaxAttempts /\ ToSet(sub) \subseteq Cmds
      BY <2>1, HeldInType
    <2>3. oversized' \in BOOLEAN
      BY <1>21 DEF Drop
    <2>4. QED
      BY <1>21, <2>1, <2>2, <2>3 DEF Drop
  <1>22. CASE Crash
    <2>1. Executed \subseteq Cmds /\ ToSet(wire) \union ToSet(batch) \union ToSet(sub) \subseteq Cmds
      BY HeldInType DEF Executed
    <2>2. oversized' \in BOOLEAN
      BY <1>22 DEF Crash
    <2>3. QED
      BY <1>22, <2>1, <2>2 DEF Crash
  <1>23. CASE Restart
    BY <1>23 DEF Restart
  <1>24. QED
    BY <1>1, <1>2, <1>3, <1>4, <1>5, <1>6, <1>7, <1>8, <1>9, <1>10, <1>11, <1>12, <1>13, <1>14,
       <1>15, <1>16, <1>17, <1>18, <1>19, <1>20, <1>21, <1>22, <1>23
       DEF Next, Poll, Stream, Work, Submit, ResultsHandler

\* Every reachable state of the agent's loop is well typed; in particular no
\* submission makes more than MaxAttempts attempts.
THEOREM TypeCorrect == Spec => []TypeOK
  BY InitType, NextType, PTL DEF Spec

-----------------------------------------------------------------------------
(* Where the loop is, and what it holds there.                             *)

LEMMA InitLoop == Init => LoopInv
  BY LoopAssumption, NothingHeld
     DEF Init, Queue!Init, LoopInv, PlaceInv, ResultInv, ControlInv, CallInv, ExecutedOnce,
         EveryCommandAccountedFor

LEMMA NextControl == TypeOK /\ ControlInv /\ [Next]_vars => ControlInv'
  <1> SUFFICES ASSUME TypeOK, ControlInv, [Next]_vars PROVE ControlInv'
    OBVIOUS
  <1> USE DEF ControlInv, queueVars, loopVars, workVars, submitVars, linkVars, serverVars
  <1>1. CASE UNCHANGED vars
    BY <1>1 DEF vars
  <1>2. CASE Dispatcher \/ StrayPollAnswered \/ StreamUnregisters
    BY <1>2 DEF Dispatcher, StrayPollAnswered, StreamUnregisters
  <1>3. CASE StartPoll \/ PollFails
    BY <1>3 DEF StartPoll, PollFails
  <1>4. CASE PollAnswered
    <2>1. PICK q \in SetToAllKPermutations(Cmds) :
            batch' = q /\ pc' = IF q = <<>> THEN "connecting" ELSE "run"
      BY <1>4 DEF PollAnswered
    <2>2. pc = "polling" /\ sub' = sub /\ wire' = wire /\ link' = link /\ caller' = "drain"
      BY <1>4 DEF PollAnswered
    <2>3. QED
      BY <2>1, <2>2
  <1>5. CASE ConnectOk \/ ConnectFails
    BY <1>5 DEF ConnectOk, ConnectFails
  <1>6. CASE StreamSends
    <2>1. link = "none" => wire' = wire
      BY <1>6 DEF StreamSends
    <2>2. UNCHANGED <<pc, caller, batch, sub, link>>
      BY <1>6 DEF StreamSends
    <2>3. QED
      BY <2>1, <2>2
  <1>7. CASE LinkFails
    <2>1. link # "none" /\ link' # "none" /\ UNCHANGED <<pc, caller, batch, sub>>
      BY <1>7 DEF LinkFails
    <2>2. QED
      BY <2>1
  <1>8. CASE ReadEvent
    <2>1. link # "none"
      BY <1>8 DEF ReadEvent
    <2>2. QED
      BY <1>8, <2>1 DEF ReadEvent
  <1>9. CASE StreamEnds \/ ReadTimeout
    BY <1>9 DEF StreamEnds, ReadTimeout, LeaveStream
  <1>10. CASE Execute
    BY <1>10 DEF Execute
  <1>11. CASE AllExecuted
    BY <1>11 DEF AllExecuted
  <1>12. CASE Submitted
    BY <1>12 DEF Submitted, TypeOK
  <1>13. ASSUME NEW r \in Invs, NextGroup(r) PROVE ControlInv'
    BY <1>13 DEF NextGroup
  <1>14. CASE ResultsHandler
    BY <1>14 DEF ResultsHandler, BodyTooLarge, SubmissionArrives, Deliver, Refuse, AllDelivered,
                 ResponseUnread
  <1>15. CASE SubmitOk \/ SubmitFailed
    BY <1>15 DEF SubmitOk, SubmitFailed, Response, NoResponse
  <1>16. CASE Retry
    BY <1>16 DEF Retry
  <1>17. CASE Drop
    BY <1>17 DEF Drop, Response, NoResponse
  <1>18. CASE Crash \/ Restart
    BY <1>18 DEF Crash, Restart
  <1>19. QED
    BY <1>1, <1>2, <1>3, <1>4, <1>5, <1>6, <1>7, <1>8, <1>9, <1>10, <1>11, <1>12, <1>13, <1>14,
       <1>15, <1>16, <1>17, <1>18 DEF Next, Poll, Stream, Work, Submit

-----------------------------------------------------------------------------
(* A command is on its way once.                                           *)

LEMMA PlaceFrame ==
  ASSUME PlaceInv, UNCHANGED <<wire, batch, handed, execs>>
  PROVE  PlaceInv'
  BY DEF PlaceInv

LEMMA NextPlace == TypeOK /\ PlaceInv /\ ControlInv /\ [Next]_vars => PlaceInv'
  <1> SUFFICES ASSUME TypeOK, PlaceInv, ControlInv, [Next]_vars PROVE PlaceInv'
    OBVIOUS
  <1> USE DEF queueVars, loopVars, workVars, submitVars, linkVars, serverVars
  <1>0. /\ QueueType /\ batch \in Seq(Cmds) /\ wire \in Seq(Cmds)
        /\ ToSet(wire) \subseteq Cmds /\ ToSet(batch) \subseteq Cmds
    BY HeldInType DEF TypeOK, QueueType
  <1>1. CASE UNCHANGED vars
    BY <1>1, PlaceFrame DEF vars
  <1>2. CASE Dispatcher
    <2>1. handed' = handed
      BY <1>0, <1>2, DispatcherTypes DEF Dispatcher
    <2>2. QED
      BY <1>2, <2>1, PlaceFrame DEF Dispatcher
  <1>3. CASE StartPoll \/ PollFails \/ ConnectFails \/ StreamUnregisters
    BY <1>3, PlaceFrame DEF StartPoll, PollFails, ConnectFails, StreamUnregisters
  <1>4. CASE PollAnswered
    <2>1. PICK q \in SetToAllKPermutations(Cmds) : Queue!Hand(Host, ToSet(q)) /\ batch' = q
      BY <1>4 DEF PollAnswered
    <2>2. /\ \A c \in ToSet(q) : handed[c] = 0
          /\ \A c \in Cmds : handed'[c] = IF c \in ToSet(q) THEN 1 ELSE handed[c]
      BY <1>0, <2>1, HandTypes
    <2>3. wire' = <<>> /\ execs' = execs
      BY <1>4 DEF PollAnswered, ControlInv
    <2>4. IsInjective(q) /\ ToSet(q) \subseteq Cmds
      BY Distinct
    <2>5. \A c \in ToSet(q) : handed'[c] = 1 /\ execs[c] = 0
      BY <2>2, <2>4 DEF PlaceInv
    <2>6. \A c \in Cmds : handed'[c] = 0 => execs[c] = 0
      BY <2>2 DEF PlaceInv
    <2>7. QED
      BY <2>1, <2>3, <2>4, <2>5, <2>6, NothingHeld DEF PlaceInv
  <1>5. CASE StrayPollAnswered
    <2>1. PICK S \in SUBSET Cmds : Queue!Hand(Host, S)
      BY <1>5 DEF StrayPollAnswered
    <2>2. \A c \in Cmds : handed'[c] = IF c \in S THEN 1 ELSE handed[c]
      BY <1>0, <2>1, HandTypes
    <2>3. UNCHANGED <<wire, batch, execs>>
      BY <1>5 DEF StrayPollAnswered
    <2>4. QED
      BY <1>0, <2>2, <2>3 DEF PlaceInv
  <1>6. CASE ConnectOk
    <2>1. wire' = <<>> /\ UNCHANGED <<batch, execs, handed>>
      BY <1>6 DEF ConnectOk
    <2>2. QED
      BY <2>1, NothingHeld DEF PlaceInv
  <1>7. CASE StreamSends
    <2>1. PICK c \in Cmds : Queue!Hand(Host, {c}) /\ wire' \in {wire, Append(wire, c)}
      BY <1>7 DEF StreamSends
    <2>2. handed[c] = 0 /\ \A d \in Cmds : handed'[d] = IF d = c THEN 1 ELSE handed[d]
      BY <1>0, <2>1, HandTypes
    <2>3. UNCHANGED <<batch, execs>>
      BY <1>7 DEF StreamSends
    <2>4. c \notin ToSet(wire) /\ c \notin ToSet(batch) /\ execs[c] = 0
      BY <2>2 DEF PlaceInv
    <2>5. /\ ToSet(wire') \in {ToSet(wire), ToSet(wire) \union {c}}
          /\ IsInjective(wire')
      <3>1. CASE wire' = wire
        BY <3>1 DEF PlaceInv
      <3>2. CASE wire' = Append(wire, c)
        <4>1. IsInjective(wire)
          BY DEF PlaceInv
        <4>2. ToSet(Append(wire, c)) = ToSet(wire) \union {c} /\ IsInjective(Append(wire, c))
          BY <1>0, <2>4, <4>1, Added
        <4>3. QED
          BY <3>2, <4>2
      <3>3. QED
        BY <2>1, <3>1, <3>2
    <2>6. \A d \in ToSet(wire') \union ToSet(batch) : handed'[d] = 1 /\ execs[d] = 0
      BY <1>0, <2>2, <2>4, <2>5 DEF PlaceInv
    <2>7. \A d \in Cmds : handed'[d] = 0 => execs[d] = 0
      BY <2>2 DEF PlaceInv
    <2>8. QED
      BY <2>3, <2>4, <2>5, <2>6, <2>7 DEF PlaceInv
  <1>8. CASE LinkFails
    <2>1. PICK n \in 0..Len(wire) : wire' = SubSeq(wire, 1, n)
      BY <1>8 DEF LinkFails
    <2>2. ToSet(wire') \subseteq ToSet(wire) /\ IsInjective(wire')
      BY <1>0, <2>1, Kept DEF PlaceInv
    <2>3. UNCHANGED <<batch, execs, handed>>
      BY <1>8 DEF LinkFails
    <2>4. QED
      BY <2>2, <2>3 DEF PlaceInv
  <1>9. CASE ReadEvent
    <2>1. batch = <<>> /\ wire # <<>> /\ batch' = <<Head(wire)>> /\ wire' = Tail(wire)
          /\ UNCHANGED <<handed, execs>>
      BY <1>9 DEF ReadEvent, ControlInv
    <2>2. /\ ToSet(wire) = {Head(wire)} \union ToSet(wire') /\ IsInjective(wire')
          /\ Head(wire) \in Cmds /\ Head(wire) \notin ToSet(wire')
      BY <1>0, <2>1, HeadTaken DEF PlaceInv
    <2>3. ToSet(batch') = {Head(wire)} /\ IsInjective(batch')
      BY <2>1, <2>2, OneHeld
    <2>4. QED
      BY <2>1, <2>2, <2>3 DEF PlaceInv
  <1>10. CASE StreamEnds \/ ReadTimeout
    BY <1>10, PlaceFrame DEF StreamEnds, ReadTimeout, LeaveStream
  <1>11. CASE Execute
    <2>1. batch # <<>> /\ batch' = Tail(batch) /\ UNCHANGED <<wire, handed>>
          /\ execs' = [execs EXCEPT ![Head(batch)] = @ + 1]
      BY <1>11 DEF Execute
    <2>2. /\ ToSet(batch) = {Head(batch)} \union ToSet(batch') /\ IsInjective(batch')
          /\ Head(batch) \in Cmds /\ Head(batch) \notin ToSet(batch')
      BY <1>0, <2>1, HeadTaken DEF PlaceInv
    <2>3. Head(batch) \notin ToSet(wire) /\ handed[Head(batch)] = 1
      BY <2>2 DEF PlaceInv
    <2>4. \A c \in Cmds : c # Head(batch) => execs'[c] = execs[c]
      BY <2>1, <2>2 DEF TypeOK
    <2>5. QED
      BY <1>0, <2>1, <2>2, <2>3, <2>4 DEF PlaceInv
  <1>12. CASE AllExecuted \/ Submitted
    BY <1>12, PlaceFrame DEF AllExecuted, Submitted
  <1>13. ASSUME NEW i \in Invs, NextGroup(i) PROVE PlaceInv'
    BY <1>13, PlaceFrame DEF NextGroup
  <1>14. ASSUME NEW r \in Requests, Deliver(r) PROVE PlaceInv'
    <2>1. todo[r] \in Seq(Cmds) /\ todo[r] # <<>> /\ Queue!Accept(Head(todo[r]))
      BY <1>14 DEF Deliver, TypeOK
    <2>2. Head(todo[r]) \in Cmds
      BY <2>1, HeadTaken
    <2>3. handed' = handed
      BY <1>0, <2>1, <2>2, AcceptTypes
    <2>4. QED
      BY <1>14, <2>3, PlaceFrame DEF Deliver
  <1>15. ASSUME NEW r \in Requests,
                BodyTooLarge(r) \/ SubmissionArrives(r) \/ Refuse(r) \/ AllDelivered(r)
                  \/ ResponseUnread(r)
         PROVE  PlaceInv'
    BY <1>15, PlaceFrame DEF BodyTooLarge, SubmissionArrives, Refuse, AllDelivered, ResponseUnread
  <1>16. CASE SubmitOk \/ SubmitFailed \/ Retry \/ Drop
    BY <1>16, PlaceFrame DEF SubmitOk, SubmitFailed, Retry, Drop
  <1>17. CASE Crash
    <2>1. wire' = <<>> /\ batch' = <<>> /\ UNCHANGED <<handed, execs>>
      BY <1>17 DEF Crash
    <2>2. QED
      BY <2>1, NothingHeld DEF PlaceInv
  <1>18. CASE Restart
    BY <1>18, PlaceFrame DEF Restart
  <1>19. QED
    BY <1>1, <1>2, <1>3, <1>4, <1>5, <1>6, <1>7, <1>8, <1>9, <1>10, <1>11, <1>12, <1>13, <1>14,
       <1>15, <1>16, <1>17, <1>18 DEF Next, Poll, Stream, Work, Submit, ResultsHandler

-----------------------------------------------------------------------------
(* What has a result was executed, and once.                               *)

LEMMA ResultFrame ==
  ASSUME ResultInv, UNCHANGED <<results, sub, todo, execs, accepted>>
  PROVE  ResultInv'
  BY DEF ResultInv, ExecutedOnce

LEMMA NextResult == TypeOK /\ PlaceInv /\ ResultInv /\ [Next]_vars => ResultInv'
  <1> SUFFICES ASSUME TypeOK, PlaceInv, ResultInv, [Next]_vars PROVE ResultInv'
    OBVIOUS
  <1> USE DEF queueVars, loopVars, workVars, submitVars, linkVars, serverVars
  <1>0. /\ QueueType /\ batch \in Seq(Cmds) /\ sub \in Seq(Cmds)
        /\ results \in [Invs -> Seq(Cmds)] /\ todo \in [Requests -> Seq(Cmds)]
        /\ execs \in [Cmds -> Nat] /\ call \in Requests \union {NoRequest}
    BY DEF TypeOK, QueueType
  <1>1. CASE UNCHANGED vars
    BY <1>1, ResultFrame DEF vars
  <1>2. CASE Dispatcher
    <2>1. accepted' = accepted
      BY <1>0, <1>2, DispatcherTypes DEF Dispatcher
    <2>2. QED
      BY <1>2, <2>1, ResultFrame DEF Dispatcher
  <1>3. CASE StartPoll \/ PollFails \/ ConnectOk \/ ConnectFails \/ StreamUnregisters \/ LinkFails
    BY <1>3, ResultFrame
       DEF StartPoll, PollFails, ConnectOk, ConnectFails, StreamUnregisters, LinkFails
  <1>4. CASE PollAnswered \/ StrayPollAnswered \/ StreamSends
    <2>1. PICK S : Queue!Hand(Host, S)
      BY <1>4 DEF PollAnswered, StrayPollAnswered, StreamSends
    <2>2. accepted' = accepted
      BY <1>0, <2>1, HandTypes
    <2>3. QED
      BY <1>4, <2>2, ResultFrame DEF PollAnswered, StrayPollAnswered, StreamSends
  <1>5. CASE ReadEvent \/ StreamEnds \/ ReadTimeout
    BY <1>5, ResultFrame DEF ReadEvent, StreamEnds, ReadTimeout, LeaveStream
  <1>6. CASE Execute
    <2> DEFINE h == Head(batch)
               g == GroupOf(h)
    <2>1. /\ batch # <<>> /\ results' = [results EXCEPT ![g] = Append(results[g], h)]
          /\ execs' = [execs EXCEPT ![h] = execs[h] + 1] /\ UNCHANGED <<sub, todo, accepted>>
      BY <1>6 DEF Execute
    <2>2. h \in ToSet(batch) /\ h \in Cmds
      BY <1>0, <2>1, HeadTaken
    <2>3. execs[h] = 0 /\ execs'[h] = 1 /\ \A c \in Cmds : c # h => execs'[c] = execs[c]
      BY <1>0, <2>1, <2>2 DEF PlaceInv
    <2>4. \A c \in Cmds : execs[c] = 1 => execs'[c] = 1
      BY <2>3
    <2>5. ASSUME NEW i \in Invs, NEW c \in ToSet(results'[i]) PROVE execs'[c] = 1
      <3>1. results[i] \in Seq(Cmds) /\ ToSet(results[i]) \subseteq Cmds
        BY <1>0, HeldInType
      <3>2. CASE i = g
        <4>1. results'[i] = Append(results[i], h)
          BY <1>0, <2>1, <3>2
        <4>2. c \in ToSet(results[i]) \union {h}
          BY <2>2, <2>5, <3>1, <4>1, Added
        <4>3. QED
          BY <2>3, <2>4, <3>1, <4>2 DEF ResultInv
      <3>3. CASE i # g
        <4>1. results'[i] = results[i]
          BY <1>0, <2>1, <3>3
        <4>2. QED
          BY <2>4, <2>5, <3>1, <4>1 DEF ResultInv
      <3>4. QED
        BY <3>2, <3>3
    <2>6. \A c \in ToSet(sub) : execs'[c] = 1
      BY <1>0, <2>4, HeldInType DEF ResultInv
    <2>7. \A r \in Requests : \A c \in ToSet(todo[r]) : execs'[c] = 1
      BY <1>0, <2>4, HeldInType DEF ResultInv
    <2>8. \A c \in Cmds : execs'[c] <= 1 /\ (accepted[c] # NoHost => execs'[c] = 1)
      BY <2>3, <2>4 DEF ResultInv, ExecutedOnce
    <2>9. QED
      BY <2>1, <2>5, <2>6, <2>7, <2>8 DEF ResultInv, ExecutedOnce
  <1>7. CASE AllExecuted \/ Submitted \/ Retry \/ Restart
    BY <1>7, ResultFrame DEF AllExecuted, Submitted, Retry, Restart
  <1>8. ASSUME NEW i \in Invs, NextGroup(i) PROVE ResultInv'
    <2>1. /\ sub' = results[i] /\ results' = [results EXCEPT ![i] = <<>>]
          /\ UNCHANGED <<todo, execs, accepted>>
      BY <1>8 DEF NextGroup
    <2>2. \A j \in Invs : ToSet(results'[j]) \subseteq ToSet(results[j])
      BY <1>0, <2>1, NothingHeld
    <2>3. QED
      BY <2>1, <2>2 DEF ResultInv, ExecutedOnce
  <1>9. ASSUME NEW r \in Requests, SubmissionArrives(r) PROVE ResultInv'
    <2>1. todo' = [todo EXCEPT ![r] = sub] /\ UNCHANGED <<results, sub, execs, accepted>>
      BY <1>9 DEF SubmissionArrives
    <2>2. QED
      BY <1>0, <2>1 DEF ResultInv, ExecutedOnce
  <1>10. ASSUME NEW r \in Requests, Deliver(r) PROVE ResultInv'
    <2>1. /\ todo[r] # <<>> /\ Queue!Accept(Head(todo[r])) /\ todo' = [todo EXCEPT ![r] = Tail(todo[r])]
          /\ UNCHANGED <<results, sub, execs>>
      BY <1>10 DEF Deliver
    <2>2. /\ Head(todo[r]) \in Cmds /\ Head(todo[r]) \in ToSet(todo[r])
          /\ ToSet(Tail(todo[r])) \subseteq ToSet(todo[r])
      BY <1>0, <2>1, HeadTaken
    <2>3. accepted' = [accepted EXCEPT ![Head(todo[r])] = Host]
      BY <1>0, <2>1, <2>2, AcceptTypes
    <2>4. \A q \in Requests : ToSet(todo'[q]) \subseteq ToSet(todo[q])
      BY <1>0, <2>1, <2>2
    <2>5. \A c \in Cmds : accepted'[c] # NoHost => accepted[c] # NoHost \/ c = Head(todo[r])
      BY <1>0, <2>3 DEF QueueType
    <2>6. QED
      BY <2>1, <2>2, <2>4, <2>5 DEF ResultInv, ExecutedOnce
  <1>11. ASSUME NEW r \in Requests, Refuse(r) PROVE ResultInv'
    <2>1. todo' = [todo EXCEPT ![r] = <<>>] /\ UNCHANGED <<results, sub, execs, accepted>>
      BY <1>11 DEF Refuse
    <2>2. \A q \in Requests : ToSet(todo'[q]) \subseteq ToSet(todo[q])
      BY <1>0, <2>1, NothingHeld
    <2>3. QED
      BY <2>1, <2>2 DEF ResultInv, ExecutedOnce
  <1>12. ASSUME NEW r \in Requests, BodyTooLarge(r) \/ AllDelivered(r) \/ ResponseUnread(r)
         PROVE  ResultInv'
    BY <1>12, ResultFrame DEF BodyTooLarge, AllDelivered, ResponseUnread
  <1>13. CASE SubmitFailed
    BY <1>13, ResultFrame DEF SubmitFailed, Response, NoResponse
  <1>14. CASE SubmitOk \/ Drop
    <2>1. sub' = <<>> /\ UNCHANGED <<results, todo, execs, accepted>>
      BY <1>14 DEF SubmitOk, Drop, Response, NoResponse
    <2>2. QED
      BY <2>1, NothingHeld DEF ResultInv, ExecutedOnce
  <1>15. CASE Crash
    <2>1. sub' = <<>> /\ results' = [i \in Invs |-> <<>>] /\ UNCHANGED <<todo, execs, accepted>>
      BY <1>15 DEF Crash
    <2>2. \A i \in Invs : ToSet(results'[i]) = {}
      BY <2>1, NothingHeld
    <2>3. QED
      BY <2>1, <2>2, NothingHeld DEF ResultInv, ExecutedOnce
  <1>16. QED
    BY <1>1, <1>2, <1>3, <1>4, <1>5, <1>6, <1>7, <1>8, <1>9, <1>10, <1>11, <1>12, <1>13, <1>14,
       <1>15 DEF Next, Poll, Stream, Work, Submit, ResultsHandler

-----------------------------------------------------------------------------
(* The request the agent waits for.                                        *)

LEMMA CallFrame ==
  ASSUME CallInv, UNCHANGED <<pc, call, sub, accepted, todo, status>>
  PROVE  CallInv'
  BY DEF CallInv

LEMMA NextCall == TypeOK /\ CallInv /\ [Next]_vars => CallInv'
  <1> SUFFICES ASSUME TypeOK, CallInv, [Next]_vars PROVE CallInv'
    OBVIOUS
  <1> USE DEF queueVars, loopVars, workVars, submitVars, linkVars, serverVars
  <1>0. /\ QueueType /\ call \in Requests \union {NoRequest} /\ sub \in Seq(Cmds)
        /\ todo \in [Requests -> Seq(Cmds)] /\ NoRequest \notin Requests
        /\ status \in [Requests -> {"idle", "running", "ok", "refused"}]
    BY LoopAssumption DEF TypeOK, QueueType
  <1>1. CASE UNCHANGED vars
    BY <1>1, CallFrame DEF vars
  <1>2. CASE Dispatcher
    <2>1. accepted' = accepted
      BY <1>0, <1>2, DispatcherTypes DEF Dispatcher
    <2>2. QED
      BY <1>2, <2>1, CallFrame DEF Dispatcher
  <1>3. CASE StreamUnregisters \/ LinkFails
    BY <1>3, CallFrame DEF StreamUnregisters, LinkFails
  <1>4. CASE StrayPollAnswered \/ StreamSends
    <2>1. PICK S : Queue!Hand(Host, S)
      BY <1>4 DEF StrayPollAnswered, StreamSends
    <2>2. accepted' = accepted
      BY <1>0, <2>1, HandTypes
    <2>3. QED
      BY <1>4, <2>2, CallFrame DEF StrayPollAnswered, StreamSends
  \* The steps of the loop outside a submission wait for no request.
  <1>5. CASE pc # "submit" /\ call' = call
    BY <1>5 DEF CallInv
  <1>6. CASE PollAnswered \/ StartPoll \/ PollFails \/ ConnectOk \/ ConnectFails \/ ReadEvent
             \/ StreamEnds \/ ReadTimeout \/ Execute \/ AllExecuted \/ Submitted \/ Retry \/ Restart
    BY <1>5, <1>6 DEF PollAnswered, StartPoll, PollFails, ConnectOk, ConnectFails, ReadEvent,
       StreamEnds, ReadTimeout, LeaveStream, Execute, AllExecuted, Submitted, Retry, Restart
  <1>7. CASE call' = NoRequest
    BY <1>7 DEF CallInv
  <1>8. CASE (\E i \in Invs : NextGroup(i)) \/ SubmitOk \/ SubmitFailed \/ Drop \/ Crash
    BY <1>7, <1>8 DEF NextGroup, SubmitOk, SubmitFailed, Drop, Crash, Response, NoResponse
  <1>9. ASSUME NEW r \in Requests, SubmissionArrives(r) PROVE CallInv'
    <2>1. /\ call' = r /\ todo' = [todo EXCEPT ![r] = sub] /\ status' = [status EXCEPT ![r] = "running"]
          /\ pc = "submit" /\ UNCHANGED <<pc, sub, accepted>>
      BY <1>9 DEF SubmissionArrives
    <2>2. todo'[r] = sub /\ status'[r] = "running"
      BY <1>0, <2>1
    <2>3. QED
      BY <2>1, <2>2 DEF CallInv
  <1>10. ASSUME NEW r \in Requests, Deliver(r) PROVE CallInv'
    <2> DEFINE h == Head(todo[r])
    <2>1. /\ todo[r] # <<>> /\ status[r] = "running" /\ Queue!Accept(h)
          /\ todo' = [todo EXCEPT ![r] = Tail(todo[r])] /\ UNCHANGED <<pc, call, sub, status>>
      BY <1>10 DEF Deliver
    <2>2. h \in Cmds /\ ToSet(todo[r]) = {h} \union ToSet(Tail(todo[r]))
      BY <1>0, <2>1, HeadTaken
    <2>3. accepted' = [accepted EXCEPT ![h] = Host]
      BY <1>0, <2>1, <2>2, AcceptTypes
    <2>4. accepted'[h] # NoHost /\ \A c \in Cmds : accepted[c] # NoHost => accepted'[c] # NoHost
      BY <1>0, <2>2, <2>3, LoopAssumption DEF QueueType
    <2>5. CASE call = r
      <3>1. todo'[r] = Tail(todo[r])
        BY <1>0, <2>1
      <3>2. ASSUME NEW c \in ToSet(sub) PROVE accepted'[c] # NoHost \/ c \in ToSet(todo'[r])
        <4>1. c \in Cmds /\ (accepted[c] # NoHost \/ c \in ToSet(todo[r]))
          BY <1>0, <2>1, <2>5, <3>2, HeldInType DEF CallInv
        <4>2. QED
          BY <2>2, <2>4, <3>1, <4>1
      <3>3. QED
        BY <1>0, <2>1, <2>5, <3>2 DEF CallInv
    <2>6. CASE call # r
      <3>1. call # NoRequest => todo'[call] = todo[call]
        BY <1>0, <2>1, <2>6
      <3>2. ToSet(sub) \subseteq Cmds
        BY <1>0, HeldInType
      <3>3. QED
        BY <2>1, <2>4, <3>1, <3>2 DEF CallInv
    <2>7. QED
      BY <2>5, <2>6
  <1>11. ASSUME NEW r \in Requests, Refuse(r) PROVE CallInv'
    <2>1. /\ todo' = [todo EXCEPT ![r] = <<>>] /\ status' = [status EXCEPT ![r] = "refused"]
          /\ UNCHANGED <<pc, call, sub, accepted>>
      BY <1>11 DEF Refuse
    <2>2. call = r => status'[call] = "refused"
      BY <1>0, <2>1
    <2>3. call # r /\ call # NoRequest => todo'[call] = todo[call] /\ status'[call] = status[call]
      BY <1>0, <2>1
    <2>4. QED
      BY <2>1, <2>2, <2>3 DEF CallInv
  <1>12. ASSUME NEW r \in Requests, AllDelivered(r) PROVE CallInv'
    <2>1. /\ status[r] = "running" /\ todo[r] = <<>> /\ status' = [status EXCEPT ![r] = "ok"]
          /\ UNCHANGED <<pc, call, sub, accepted, todo>>
      BY <1>12 DEF AllDelivered
    <2>2. call = r => status'[call] = "ok"
      BY <1>0, <2>1
    <2>3. call # r /\ call # NoRequest => status'[call] = status[call]
      BY <1>0, <2>1
    <2>4. QED
      BY <2>1, <2>2, <2>3 DEF CallInv
  <1>13. ASSUME NEW r \in Requests, ResponseUnread(r) PROVE CallInv'
    <2>1. call # r /\ status' = [status EXCEPT ![r] = "idle"] /\ UNCHANGED <<pc, call, sub, accepted, todo>>
      BY <1>13 DEF ResponseUnread
    <2>2. call # NoRequest => status'[call] = status[call]
      BY <1>0, <2>1
    <2>3. QED
      BY <2>1, <2>2 DEF CallInv
  <1>14. ASSUME NEW r \in Requests, BodyTooLarge(r) PROVE CallInv'
    <2>1. call' = r /\ pc = "submit" /\ pc' = pc /\ status' = [status EXCEPT ![r] = "refused"]
      BY <1>14 DEF BodyTooLarge
    <2>2. status'[r] = "refused"
      BY <1>0, <2>1
    <2>3. QED
      BY <2>1, <2>2 DEF CallInv
  <1>15. QED
    BY <1>1, <1>2, <1>3, <1>4, <1>6, <1>8, <1>9, <1>10, <1>11, <1>12, <1>13, <1>14
       DEF Next, Poll, Stream, Work, Submit, ResultsHandler

-----------------------------------------------------------------------------
(* Nothing is forgotten.                                                   *)

LEMMA AccountFrame ==
  ASSUME EveryCommandAccountedFor,
         UNCHANGED <<handed, lost, execs, wire, batch, accepted, results, sub>>
  PROVE  EveryCommandAccountedFor'
  BY DEF EveryCommandAccountedFor, Executed

LEMMA NextAccount == TypeOK /\ LoopInv /\ [Next]_vars => EveryCommandAccountedFor'
  <1> SUFFICES ASSUME TypeOK, LoopInv, [Next]_vars PROVE EveryCommandAccountedFor'
    OBVIOUS
  <1> USE DEF queueVars, loopVars, workVars, submitVars, linkVars, serverVars, faultVars
  <1>0. /\ QueueType /\ batch \in Seq(Cmds) /\ wire \in Seq(Cmds) /\ sub \in Seq(Cmds)
        /\ results \in [Invs -> Seq(Cmds)] /\ todo \in [Requests -> Seq(Cmds)]
        /\ execs \in [Cmds -> Nat] /\ call \in Requests \union {NoRequest}
        /\ investigation \in [Cmds -> Invs]
    BY DEF TypeOK, QueueType
  <1>a. PlaceInv /\ ResultInv /\ ControlInv /\ CallInv /\ EveryCommandAccountedFor
    BY DEF LoopInv
  <1>1. CASE UNCHANGED vars
    BY <1>1, <1>a, AccountFrame DEF vars
  <1>2. CASE Dispatcher
    <2>1. UNCHANGED <<handed, accepted>>
      BY <1>0, <1>2, DispatcherTypes DEF Dispatcher
    <2>2. QED
      BY <1>2, <1>a, <2>1, AccountFrame DEF Dispatcher
  <1>3. CASE StartPoll \/ PollFails \/ ConnectFails \/ StreamUnregisters \/ StreamEnds \/ ReadTimeout
    BY <1>3, <1>a, AccountFrame DEF StartPoll, PollFails, ConnectFails, StreamUnregisters, StreamEnds,
       ReadTimeout, LeaveStream
  <1>4. CASE PollAnswered
    <2>1. PICK q \in SetToAllKPermutations(Cmds) : Queue!Hand(Host, ToSet(q)) /\ batch' = q
      BY <1>4 DEF PollAnswered
    <2>2. /\ \A c \in ToSet(q) : handed[c] = 0 /\ accepted' = accepted
          /\ \A c \in Cmds : handed'[c] = IF c \in ToSet(q) THEN 1 ELSE handed[c]
      BY <1>0, <2>1, HandTypes
    <2>3. pc = "polling" /\ UNCHANGED <<lost, execs, wire, results, sub>>
      BY <1>4 DEF PollAnswered
    <2>4. wire = <<>> /\ batch = <<>> /\ ToSet(q) \subseteq Cmds
      BY <1>a, <2>3, Distinct DEF ControlInv
    <2>5. \A c \in ToSet(q) : execs[c] = 0
      BY <1>a, <2>2, <2>4 DEF PlaceInv
    <2>6. accepted' = accepted
      BY <1>0, <2>1, HandTypes
    <2>7. QED
      BY <1>a, <2>1, <2>2, <2>3, <2>4, <2>5, <2>6, NothingHeld DEF EveryCommandAccountedFor, Executed
  <1>5. CASE StrayPollAnswered
    <2>1. PICK S \in SUBSET Cmds : Queue!Hand(Host, S) /\ lost' = lost \union S
      BY <1>5 DEF StrayPollAnswered
    <2>2. accepted' = accepted /\ \A c \in Cmds : handed'[c] = IF c \in S THEN 1 ELSE handed[c]
      BY <1>0, <2>1, HandTypes
    <2>3. UNCHANGED <<execs, wire, batch, results, sub>>
      BY <1>5 DEF StrayPollAnswered
    <2>4. QED
      BY <1>a, <2>1, <2>2, <2>3 DEF EveryCommandAccountedFor, Executed
  <1>6. CASE ConnectOk
    <2>1. wire = <<>> /\ wire' = <<>> /\ UNCHANGED <<handed, lost, execs, batch, accepted, results, sub>>
      BY <1>6, <1>a DEF ConnectOk, ControlInv
    <2>2. QED
      BY <1>a, <2>1, AccountFrame
  <1>7. CASE StreamSends
    <2>1. PICK c \in Cmds : /\ Queue!Hand(Host, {c})
                            /\ \/ wire' = Append(wire, c) /\ lost' = lost
                               \/ lost' = lost \union {c} /\ wire' = wire
      BY <1>7 DEF StreamSends
    <2>2. /\ accepted' = accepted /\ handed[c] = 0
          /\ \A d \in Cmds : handed'[d] = IF d = c THEN 1 ELSE handed[d]
      BY <1>0, <2>1, HandTypes
    <2>3. UNCHANGED <<execs, batch, results, sub>>
      BY <1>7 DEF StreamSends
    <2>4. execs[c] = 0
      BY <1>a, <2>2 DEF PlaceInv
    <2>5. CASE wire' = Append(wire, c) /\ lost' = lost
      <3>1. ToSet(wire') = ToSet(wire) \union {c}
        BY <1>0, <2>5, Added
      <3>2. QED
        BY <1>a, <2>2, <2>3, <2>4, <2>5, <3>1 DEF EveryCommandAccountedFor, Executed
    <2>6. CASE lost' = lost \union {c} /\ wire' = wire
      BY <1>a, <2>2, <2>3, <2>6 DEF EveryCommandAccountedFor, Executed
    <2>7. QED
      BY <2>1, <2>5, <2>6
  <1>8. CASE LinkFails
    <2>1. PICK n \in 0..Len(wire) : /\ wire' = SubSeq(wire, 1, n)
                                     /\ lost' = lost \union {wire[i] : i \in n+1..Len(wire)}
      BY <1>8 DEF LinkFails
    <2>2. ToSet(wire) = ToSet(wire') \union {wire[i] : i \in n+1..Len(wire)}
      BY <1>0, <2>1, Kept
    <2>3. UNCHANGED <<handed, execs, batch, accepted, results, sub>>
      BY <1>8 DEF LinkFails
    <2>4. QED
      BY <1>a, <2>1, <2>2, <2>3 DEF EveryCommandAccountedFor, Executed
  <1>9. CASE ReadEvent
    <2>1. /\ batch = <<>> /\ wire # <<>> /\ batch' = <<Head(wire)>> /\ wire' = Tail(wire)
          /\ UNCHANGED <<handed, lost, execs, accepted, results, sub>>
      BY <1>9, <1>a DEF ReadEvent, ControlInv
    <2>2. ToSet(wire) = {Head(wire)} \union ToSet(wire') /\ Head(wire) \in Cmds
      BY <1>0, <2>1, HeadTaken
    <2>3. ToSet(batch') = {Head(wire)}
      BY <2>1, <2>2, OneHeld
    <2>4. QED
      BY <1>a, <2>1, <2>2, <2>3, NothingHeld DEF EveryCommandAccountedFor, Executed
  <1>10. CASE Execute
    <2> DEFINE h == Head(batch)
               g == investigation[h]
    <2>1. /\ batch # <<>> /\ results' = [results EXCEPT ![g] = Append(results[g], h)]
          /\ batch' = Tail(batch) /\ execs' = [execs EXCEPT ![h] = execs[h] + 1]
          /\ UNCHANGED <<handed, lost, wire, accepted, sub>>
      BY <1>10 DEF Execute, GroupOf
    <2>2. h \in ToSet(batch) /\ h \in Cmds /\ ToSet(batch) = {h} \union ToSet(batch')
      BY <1>0, <2>1, HeadTaken
    <2>3. execs'[h] = 1 /\ \A c \in Cmds : c # h => execs'[c] = execs[c]
      BY <1>0, <1>a, <2>1, <2>2 DEF PlaceInv
    <2>4. g \in Invs /\ results[g] \in Seq(Cmds)
      BY <1>0, <2>2
    <2>5. results'[g] = Append(results[g], h) /\ \A i \in Invs : i # g => results'[i] = results[i]
      BY <1>0, <2>1, <2>4
    <2>6. ToSet(results'[g]) = ToSet(results[g]) \union {h}
      BY <2>2, <2>4, <2>5, Added
    <2>7. Executed \subseteq Executed' /\ h \in Executed'
      BY <2>4, <2>5, <2>6 DEF Executed
    <2>8. QED
      BY <1>a, <2>1, <2>2, <2>3, <2>7 DEF EveryCommandAccountedFor
  <1>11. CASE AllExecuted \/ Submitted \/ Retry \/ Restart
    BY <1>11, <1>a, AccountFrame DEF AllExecuted, Submitted, Retry, Restart
  <1>12. ASSUME NEW i \in Invs, NextGroup(i) PROVE EveryCommandAccountedFor'
    <2>1. /\ sub = <<>> /\ sub' = results[i] /\ results' = [results EXCEPT ![i] = <<>>]
          /\ UNCHANGED <<handed, lost, execs, wire, batch, accepted>>
      BY <1>12, <1>a DEF NextGroup, ControlInv
    <2>2. \A j \in Invs : j # i => results'[j] = results[j]
      BY <1>0, <2>1
    <2>3. Executed \subseteq Executed' \union ToSet(sub')
      BY <2>1, <2>2 DEF Executed
    <2>4. QED
      BY <1>a, <2>1, <2>3, NothingHeld DEF EveryCommandAccountedFor
  <1>13. ASSUME NEW r \in Requests, Deliver(r) PROVE EveryCommandAccountedFor'
    <2>1. /\ todo[r] # <<>> /\ Queue!Accept(Head(todo[r]))
          /\ UNCHANGED <<lost, execs, wire, batch, results, sub>>
      BY <1>13 DEF Deliver
    <2>2. Head(todo[r]) \in Cmds
      BY <1>0, <2>1, HeadTaken
    <2>3. accepted' = [accepted EXCEPT ![Head(todo[r])] = Host] /\ handed' = handed
      BY <1>0, <2>1, <2>2, AcceptTypes
    <2>4. \A c \in Cmds : accepted[c] # NoHost => accepted'[c] # NoHost
      BY <1>0, <2>2, <2>3, LoopAssumption DEF QueueType
    <2>5. QED
      BY <1>a, <2>1, <2>3, <2>4 DEF EveryCommandAccountedFor, Executed
  <1>14. ASSUME NEW r \in Requests,
                BodyTooLarge(r) \/ SubmissionArrives(r) \/ Refuse(r) \/ AllDelivered(r)
                  \/ ResponseUnread(r)
         PROVE  EveryCommandAccountedFor'
    BY <1>14, <1>a, AccountFrame DEF BodyTooLarge, SubmissionArrives, Refuse, AllDelivered, ResponseUnread
  <1>15. CASE SubmitOk
    <2>1. /\ call # NoRequest /\ status[call] = "ok" /\ sub' = <<>>
          /\ UNCHANGED <<handed, lost, execs, wire, batch, accepted, results>>
      BY <1>15 DEF SubmitOk, Response
    <2>2. \A c \in ToSet(sub) : accepted[c] # NoHost
      BY <1>a, <2>1, NothingHeld DEF CallInv
    <2>3. QED
      BY <1>a, <2>1, <2>2 DEF EveryCommandAccountedFor, Executed
  <1>16. CASE SubmitFailed
    BY <1>16, <1>a, AccountFrame DEF SubmitFailed, Response, NoResponse
  <1>17. CASE Drop
    <2>1. /\ lost' = lost \union ToSet(sub)
          /\ UNCHANGED <<handed, execs, wire, batch, accepted, results>>
      BY <1>17 DEF Drop, Response, NoResponse
    <2>2. QED
      BY <1>a, <2>1 DEF EveryCommandAccountedFor, Executed
  <1>18. CASE Crash
    <2>1. /\ lost' = lost \union ToSet(wire) \union ToSet(batch) \union Executed \union ToSet(sub)
          /\ UNCHANGED <<handed, execs, accepted>>
      BY <1>18 DEF Crash
    <2>2. QED
      BY <1>a, <2>1 DEF EveryCommandAccountedFor
  <1>19. QED
    BY <1>1, <1>2, <1>3, <1>4, <1>5, <1>6, <1>7, <1>8, <1>9, <1>10, <1>11, <1>12, <1>13, <1>14,
       <1>15, <1>16, <1>17, <1>18 DEF Next, Poll, Stream, Work, Submit, ResultsHandler

\* The inductive invariant: what is on its way, what has a result, where the loop
\* is, and the request it waits for.
THEOREM LoopInvariant == Spec => []LoopInv
  <1>1. TypeOK /\ LoopInv /\ [Next]_vars => LoopInv'
    <2> SUFFICES ASSUME TypeOK, LoopInv, [Next]_vars PROVE LoopInv'
      OBVIOUS
    <2>1. PlaceInv /\ ResultInv /\ ControlInv /\ CallInv
      BY DEF LoopInv
    <2>2. PlaceInv' /\ ResultInv' /\ ControlInv' /\ CallInv'
      BY <2>1, NextPlace, NextResult, NextControl, NextCall
    <2>3. QED
      BY <2>2, NextAccount DEF LoopInv
  <1>2. QED
    BY <1>1, InitLoop, TypeCorrect, PTL DEF Spec

\* Whatever the network and the process do, a command is executed at most once, and
\* a result is accepted only for a command that was executed.
THEOREM ExecutedOnceCorrect == Spec => []ExecutedOnce
  <1>1. LoopInv => ExecutedOnce
    BY DEF LoopInv, ResultInv
  <1>2. QED
    BY <1>1, LoopInvariant, PTL

\* The agent forgets no command by itself.
THEOREM AccountCorrect == Spec => []EveryCommandAccountedFor
  <1>1. LoopInv => EveryCommandAccountedFor
    BY DEF LoopInv
  <1>2. QED
    BY <1>1, LoopInvariant, PTL
-----------------------------------------------------------------------------
(* Why results are given up.                                               *)

\* A result that is not awaited, of a command handed out, will not be.
NotAwaitedStays ==
  \A c \in Cmds : handed[c] = 1 /\ ~Awaited(c) => ~(outcome'[c] = "waiting" /\ accepted'[c] = NoHost)

LEMMA AssignedFrame ==
  ASSUME AssignedInv, UNCHANGED queueVars
  PROVE  AssignedInv' /\ NotAwaitedStays
  BY DEF AssignedInv, NotAwaitedStays, Awaited, queueVars

LEMMA AssignedHand ==
  ASSUME QueueType, AssignedInv, NEW S, Queue!Hand(Host, S)
  PROVE  AssignedInv' /\ NotAwaitedStays
  <1>1. \A c \in S : assigned[c] = Host
    BY DEF Queue!Hand
  <1>2. UNCHANGED <<assigned, accepted, outcome>>
        /\ \A c \in Cmds : handed'[c] = IF c \in S THEN 1 ELSE handed[c]
    BY HandTypes
  <1>3. QED
    BY <1>1, <1>2, LoopAssumption DEF AssignedInv, NotAwaitedStays, Awaited

LEMMA NextAssigned ==
  TypeOK /\ AssignedInv /\ [Next]_vars => /\ AssignedInv' /\ NotAwaitedStays
                                           /\ investigation' = investigation
  <1> SUFFICES ASSUME TypeOK, AssignedInv, [Next]_vars
               PROVE  AssignedInv' /\ NotAwaitedStays /\ investigation' = investigation
    OBVIOUS
  <1>0. QueueType
    BY DEF TypeOK, QueueType
  <1>1. CASE UNCHANGED queueVars
    BY <1>1, AssignedFrame DEF queueVars
  <1>2. CASE Dispatcher
    <2>1. PICK c \in Cmds : Queue!Assign(c, Host) \/ Queue!Reply(c) \/ Queue!GiveUp(c)
      BY <1>2 DEF Dispatcher
    <2>2. CASE Queue!Assign(c, Host)
      <3>1. assigned[c] = NoHost /\ UNCHANGED <<handed, accepted>>
        BY <2>2 DEF Queue!Assign
      <3>2. \A d \in Cmds : d # c => assigned'[d] = assigned[d] /\ outcome'[d] = outcome[d]
        BY <1>0, <2>2 DEF Queue!Assign, QueueType
      <3>3. handed[c] # 1
        BY <3>1 DEF AssignedInv
      <3>4. QED
        BY <1>2, <3>1, <3>2, <3>3 DEF AssignedInv, NotAwaitedStays, Awaited, Dispatcher
    <2>3. CASE Queue!Reply(c) \/ Queue!GiveUp(c)
      <3>1. UNCHANGED <<assigned, handed, accepted>>
        BY <2>3 DEF Queue!Reply, Queue!GiveUp
      <3>2. \A d \in Cmds : outcome'[d] = "waiting" => outcome[d] = "waiting"
        BY <1>0, <2>3 DEF Queue!Reply, Queue!GiveUp, QueueType
      <3>3. QED
        BY <1>2, <3>1, <3>2 DEF AssignedInv, NotAwaitedStays, Awaited, Dispatcher
    <2>4. QED
      BY <2>1, <2>2, <2>3
  <1>3. CASE PollAnswered
    <2>1. PICK q \in SetToAllKPermutations(Cmds) : Queue!Hand(Host, ToSet(q))
      BY <1>3 DEF PollAnswered
    <2>2. QED
      BY <1>0, <1>3, <2>1, AssignedHand DEF PollAnswered
  <1>4. CASE StrayPollAnswered
    <2>1. PICK S \in SUBSET Cmds : Queue!Hand(Host, S)
      BY <1>4 DEF StrayPollAnswered
    <2>2. QED
      BY <1>0, <1>4, <2>1, AssignedHand DEF StrayPollAnswered
  <1>5. CASE StreamSends
    <2>1. PICK c \in Cmds : Queue!Hand(Host, {c})
      BY <1>5 DEF StreamSends
    <2>2. QED
      BY <1>0, <1>5, <2>1, AssignedHand DEF StreamSends
  <1>6. ASSUME NEW r \in Requests, Deliver(r)
        PROVE  AssignedInv' /\ NotAwaitedStays /\ investigation' = investigation
    <2>1. /\ todo[r] \in Seq(Cmds) /\ todo[r] # <<>> /\ Queue!Accept(Head(todo[r]))
          /\ investigation' = investigation
      BY <1>6 DEF Deliver, TypeOK
    <2>2. Head(todo[r]) \in Cmds
      BY <2>1, HeadTaken
    <2>3. /\ UNCHANGED <<assigned, handed, outcome>>
          /\ accepted' = [accepted EXCEPT ![Head(todo[r])] = Host]
      BY <1>0, <2>1, <2>2, AcceptTypes
    <2>4. \A c \in Cmds : accepted'[c] = NoHost => accepted[c] = NoHost
      BY <1>0, <2>2, <2>3, LoopAssumption DEF QueueType
    <2>5. QED
      BY <2>1, <2>3, <2>4 DEF AssignedInv, NotAwaitedStays, Awaited
  <1>7. [Next]_vars => \/ UNCHANGED queueVars \/ Dispatcher \/ PollAnswered \/ StrayPollAnswered
                       \/ StreamSends \/ \E r \in Requests : Deliver(r)
    <2>1. UNCHANGED vars => UNCHANGED queueVars
      BY DEF vars
    <2>2. Poll => UNCHANGED queueVars \/ PollAnswered \/ StrayPollAnswered
      BY DEF Poll, StartPoll, PollFails
    <2>3. Stream => UNCHANGED queueVars \/ StreamSends
      BY DEF Stream, ConnectOk, ConnectFails, StreamUnregisters, LinkFails, ReadEvent, StreamEnds,
             ReadTimeout, LeaveStream
    <2>4. Work => UNCHANGED queueVars
      BY DEF Work, Execute, AllExecuted, NextGroup, Submitted
    <2>5. Submit => UNCHANGED queueVars
      BY DEF Submit, SubmitOk, SubmitFailed, Retry, Drop
    <2>6. ResultsHandler => UNCHANGED queueVars \/ \E r \in Requests : Deliver(r)
      BY DEF ResultsHandler, BodyTooLarge, SubmissionArrives, Refuse, AllDelivered, ResponseUnread
    <2>7. Crash \/ Restart => UNCHANGED queueVars
      BY DEF Crash, Restart
    <2>8. QED
      BY <2>1, <2>2, <2>3, <2>4, <2>5, <2>6, <2>7 DEF Next
  <1>8. QED
    BY <1>1, <1>2, <1>3, <1>4, <1>5, <1>6, <1>7

LEMMA GroupFrame ==
  ASSUME GroupInv, investigation' = investigation, results' = results, sub' \in {sub, <<>>}
  PROVE  GroupInv'
  BY NothingHeld DEF GroupInv

LEMMA NextGroupInv ==
  TypeOK /\ GroupInv /\ investigation' = investigation /\ [Next]_vars => GroupInv'
  <1> SUFFICES ASSUME TypeOK, GroupInv, investigation' = investigation, [Next]_vars PROVE GroupInv'
    OBVIOUS
  <1> USE DEF workVars, submitVars
  <1>1. CASE UNCHANGED vars
    BY <1>1, GroupFrame DEF vars
  <1>2. CASE Dispatcher
    BY <1>2, GroupFrame DEF Dispatcher
  <1>3. CASE Poll
    BY <1>3, GroupFrame DEF Poll, StartPoll, PollAnswered, PollFails, StrayPollAnswered
  <1>4. CASE Stream
    BY <1>4, GroupFrame
       DEF Stream, ConnectOk, ConnectFails, StreamSends, StreamUnregisters, LinkFails, ReadEvent,
           StreamEnds, ReadTimeout, LeaveStream
  <1>5. CASE Execute
    <2> DEFINE h == Head(batch)
               g == investigation[h]
    <2>1. /\ batch # <<>> /\ batch \in Seq(Cmds) /\ sub' = sub
          /\ results' = [results EXCEPT ![g] = Append(results[g], h)]
      BY <1>5 DEF Execute, GroupOf, TypeOK
    <2>2. h \in Cmds /\ g \in Invs /\ results[g] \in Seq(Cmds)
      BY <2>1, HeadTaken DEF TypeOK
    <2>3. ToSet(results'[g]) = ToSet(results[g]) \union {h}
      BY <2>1, <2>2, Added, SMTT(20) DEF TypeOK
    <2>4. \A i \in Invs : i # g => results'[i] = results[i]
      BY <2>1, <2>2 DEF TypeOK
    <2>5. QED
      BY <2>1, <2>3, <2>4 DEF GroupInv
  <1>6. CASE AllExecuted \/ Submitted
    BY <1>6, GroupFrame DEF AllExecuted, Submitted
  <1>7. ASSUME NEW i \in Invs, NextGroup(i) PROVE GroupInv'
    <2>1. sub' = results[i] /\ results' = [results EXCEPT ![i] = <<>>]
      BY <1>7 DEF NextGroup
    <2>2. results'[i] = <<>> /\ \A j \in Invs : j # i => results'[j] = results[j]
      BY <2>1 DEF TypeOK
    <2>3. QED
      BY <2>1, <2>2, NothingHeld DEF GroupInv
  <1>8. CASE Submit
    BY <1>8, GroupFrame DEF Submit, SubmitOk, SubmitFailed, Retry, Drop
  <1>9. CASE ResultsHandler
    BY <1>9, GroupFrame
       DEF ResultsHandler, BodyTooLarge, SubmissionArrives, Deliver, Refuse, AllDelivered,
           ResponseUnread
  <1>10. CASE Crash
    <2>1. sub' = <<>> /\ \A i \in Invs : results'[i] = <<>>
      BY <1>10 DEF Crash
    <2>2. QED
      BY <2>1, NothingHeld DEF GroupInv
  <1>11. CASE Restart
    BY <1>11, GroupFrame DEF Restart
  <1>12. QED
    BY <1>1, <1>2, <1>3, <1>4, <1>5, <1>6, <1>7, <1>8, <1>9, <1>10, <1>11 DEF Next, Work

\* Blocked survives as long as the submission does.
LEMMA BlockedStays ==
  ASSUME Blocked, NotAwaitedStays, sub' = sub, \A k \in DOMAIN sub : sub[k] \in Cmds /\ handed[sub[k]] = 1,
         sub \in Seq(Cmds)
  PROVE  Blocked'
  <1> SUFFICES ASSUME NEW k \in DOMAIN sub, outcome'[sub[k]] = "waiting", accepted'[sub[k]] = NoHost
               PROVE  \E j \in 1..k-1 : ~(outcome'[sub[j]] = "waiting" /\ accepted'[sub[j]] = NoHost)
    BY DEF Blocked, Awaited
  <1>1. Awaited(sub[k])
    BY DEF NotAwaitedStays
  <1>2. PICK j \in 1..k-1 : ~Awaited(sub[j])
    BY <1>1 DEF Blocked
  <1>3. j \in DOMAIN sub
    BY <1>2, LenProperties
  <1>4. QED
    BY <1>2, <1>3 DEF NotAwaitedStays

\* A step that leaves the submission and its handler alone, or ends the submission.
LEMMA SubmissionFrame ==
  ASSUME TypeOK, HandlerInv, BlockedInv, NotAwaitedStays, sub' = sub,
         \A k \in DOMAIN sub : sub[k] \in Cmds /\ handed[sub[k]] = 1,
         UNCHANGED <<oversized, call, netFails, attempt>>,
         pc' = pc \/ pc' \notin {"submit", "pause"},
         call # NoRequest => todo'[call] = todo[call] /\ status'[call] = status[call]
  PROVE  HandlerInv' /\ BlockedInv'
  <1>1. sub \in Seq(Cmds)
    BY DEF TypeOK
  <1>2. HandlerInv'
    <2> SUFFICES ASSUME call # NoRequest, status[call] = "running"
                 PROVE  /\ Len(todo[call]) <= Len(sub)
                        /\ \A k \in 1..Len(todo[call]) : todo[call][k] = sub[Len(sub) - Len(todo[call]) + k]
                        /\ \A j \in 1..(Len(sub) - Len(todo[call])) :
                             ~(outcome'[sub[j]] = "waiting" /\ accepted'[sub[j]] = NoHost)
      BY DEF HandlerInv, Delivered, Awaited
    <2>1. /\ Len(todo[call]) <= Len(sub)
          /\ \A k \in 1..Len(todo[call]) : todo[call][k] = sub[Len(sub) - Len(todo[call]) + k]
          /\ \A j \in 1..(Len(sub) - Len(todo[call])) : ~Awaited(sub[j])
      BY DEF HandlerInv, Delivered
    <2>2. ASSUME NEW j \in 1..(Len(sub) - Len(todo[call])) PROVE j \in DOMAIN sub
      <3>1. Len(sub) \in Nat /\ Len(todo[call]) \in Nat /\ DOMAIN sub = 1..Len(sub)
        BY LenProperties DEF TypeOK
      <3>2. QED
        BY <3>1
    <2>3. QED
      BY <2>1, <2>2 DEF NotAwaitedStays
  <1>3. BlockedInv'
    BY <1>1, BlockedStays DEF BlockedInv
  <1>4. QED
    BY <1>2, <1>3
\* A step that ends the submission.
LEMMA SubmissionEnds ==
  ASSUME call' = NoRequest, pc' \notin {"submit", "pause"}
  PROVE  HandlerInv' /\ BlockedInv'
  BY DEF HandlerInv, BlockedInv

LEMMA NextHandler ==
  ASSUME TypeOK, PlaceInv, ResultInv, CallInv, HandlerInv, BlockedInv, NotAwaitedStays, [Next]_vars
  PROVE  HandlerInv' /\ BlockedInv'
  <1> USE DEF workVars, submitVars, serverVars
  <1>1. /\ sub \in Seq(Cmds) /\ Len(sub) \in Nat /\ DOMAIN sub = 1..Len(sub)
        /\ \A r \in Requests : todo[r] \in Seq(Cmds) /\ Len(todo[r]) \in Nat
        /\ attempt \in Nat /\ netFails \in Nat /\ call \in Requests \union {NoRequest}
    BY LenProperties DEF TypeOK
  <1>2. \A k \in DOMAIN sub : sub[k] \in Cmds /\ handed[sub[k]] = 1
    <2>1. ASSUME NEW k \in DOMAIN sub PROVE sub[k] \in Cmds /\ execs[sub[k]] = 1
      BY <1>1 DEF ResultInv, ToSet
    <2>2. QED
      BY <2>1 DEF PlaceInv, TypeOK
  <1>3. CASE UNCHANGED vars
    BY <1>2, <1>3, SubmissionFrame DEF vars, loopVars
  <1>4. CASE Dispatcher
    BY <1>2, <1>4, SubmissionFrame DEF Dispatcher, loopVars
  <1>5. CASE Poll
    BY <1>2, <1>5, SubmissionFrame
       DEF Poll, StartPoll, PollAnswered, PollFails, StrayPollAnswered, loopVars
  <1>6. CASE Stream
    BY <1>2, <1>6, SubmissionFrame
       DEF Stream, ConnectOk, ConnectFails, StreamSends, StreamUnregisters, LinkFails, ReadEvent,
           StreamEnds, ReadTimeout, LeaveStream, loopVars
  <1>7. CASE Execute \/ AllExecuted
    BY <1>2, <1>7, SubmissionFrame DEF Execute, AllExecuted, loopVars
  <1>8. CASE Submitted
    <2>1. call' = NoRequest /\ pc' \notin {"submit", "pause"}
      BY <1>8 DEF Submitted, CallInv
    <2>2. QED
      BY <2>1, SubmissionEnds
  <1>9. ASSUME NEW i \in Invs, NextGroup(i) PROVE HandlerInv' /\ BlockedInv'
    <2>1. call' = NoRequest /\ pc' = "submit" /\ attempt' = 1 /\ netFails' = 0
      BY <1>9 DEF NextGroup
    <2>2. QED
      BY <2>1 DEF HandlerInv, BlockedInv
  <1>10. ASSUME NEW r \in Requests, SubmissionArrives(r) PROVE HandlerInv' /\ BlockedInv'
    <2>1. /\ pc = "submit" /\ call' = r /\ todo'[r] = sub /\ status'[r] = "running"
          /\ UNCHANGED <<pc, sub, oversized, attempt, netFails>>
      BY <1>10 DEF SubmissionArrives, TypeOK, loopVars
    <2>2. HandlerInv'
      BY <1>1, <2>1 DEF HandlerInv, Delivered
    <2>3. BlockedInv'
      BY <1>1, <1>2, <2>1, BlockedStays DEF BlockedInv
    <2>4. QED
      BY <2>2, <2>3
  <1>11. ASSUME NEW r \in Requests, Deliver(r) PROVE HandlerInv' /\ BlockedInv'
    <2>1. /\ status[r] = "running" /\ todo[r] # <<>> /\ Queue!Accept(Head(todo[r]))
          /\ todo' = [todo EXCEPT ![r] = Tail(todo[r])]
          /\ UNCHANGED <<pc, sub, oversized, call, attempt, netFails, status>>
      BY <1>11 DEF Deliver, loopVars
    <2>2. CASE call # r
      BY <1>2, <2>1, <2>2, SubmissionFrame DEF TypeOK
    <2>3. CASE call = r
      <3> DEFINE n == Len(sub) - Len(todo[r])
                 rest == Tail(todo[r])
      <3>1. /\ call # NoRequest /\ todo'[r] = rest
            /\ Len(todo[r]) > 0 /\ Len(rest) = Len(todo[r]) - 1 /\ Len(rest) \in Nat
            /\ \A k \in 1..Len(rest) : rest[k] = todo[r][k + 1]
            /\ Head(todo[r]) = todo[r][1] /\ Head(todo[r]) \in Cmds
        <4>1. /\ Head(todo[r]) \in Cmds /\ rest \in Seq(Cmds) /\ Len(rest) = Len(todo[r]) - 1
              /\ \A k \in 1..Len(rest) : rest[k] = todo[r][k + 1]
          BY <1>1, <2>1, HeadTailProperties
        <4>2. Len(todo[r]) > 0 /\ Head(todo[r]) = todo[r][1] /\ Len(rest) \in Nat
          BY <1>1, <2>1, <4>1, LenProperties
        <4>3. todo'[r] = rest /\ r # NoRequest
          BY <2>1, LoopAssumption DEF TypeOK
        <4>4. QED
          BY <2>3, <4>1, <4>2, <4>3
      <3> HIDE DEF rest
      <3>2. /\ Len(todo[r]) <= Len(sub)
            /\ \A k \in 1..Len(todo[r]) : todo[r][k] = sub[n + k]
            /\ \A j \in 1..n : ~Awaited(sub[j])
        BY <2>1, <2>3, <3>1 DEF HandlerInv, Delivered
      <3>3. /\ Len(rest) <= Len(sub) /\ Len(sub) - Len(rest) = n + 1
            /\ n \in Nat /\ n + 1 \in DOMAIN sub
        BY <1>1, <3>1, <3>2
      <3> HIDE DEF n
      <3>4. sub[n + 1] = Head(todo[r])
        BY <1>1, <3>1, <3>2
      <3>5. accepted'[sub[n + 1]] # NoHost
        <4>1. accepted' = [accepted EXCEPT ![Head(todo[r])] = Host]
          BY <2>1, <3>1, AcceptTypes DEF TypeOK, QueueType
        <4>2. QED
          BY <3>1, <3>4, <4>1, LoopAssumption DEF TypeOK
      <3>6. \A j \in 1..n+1 : ~(outcome'[sub[j]] = "waiting" /\ accepted'[sub[j]] = NoHost)
        <4>1. ASSUME NEW j \in 1..n+1, j # n + 1
              PROVE  ~(outcome'[sub[j]] = "waiting" /\ accepted'[sub[j]] = NoHost)
          <5>1. j \in 1..n /\ j \in DOMAIN sub
            BY <1>1, <3>3, <4>1
          <5>2. QED
            BY <1>2, <3>2, <5>1 DEF NotAwaitedStays
        <4>2. QED
          BY <3>5, <4>1
      <3>7. \A k \in 1..Len(rest) : rest[k] = sub[n + 1 + k]
        <4>1. ASSUME NEW k \in 1..Len(rest) PROVE rest[k] = sub[n + 1 + k]
          <5>1. k \in Nat /\ k <= Len(rest) /\ k >= 1
            BY <3>1
          <5>2. k + 1 \in 1..Len(todo[r])
            BY <1>1, <3>1, <5>1
          <5>3. n + (k + 1) = n + 1 + k
            BY <3>3, <5>1
          <5>4. QED
            BY <3>1, <3>2, <5>2, <5>3
        <4>2. QED
          BY <4>1
      <3>8. HandlerInv'
        <4>1. call' = r /\ todo'[r] = rest /\ sub' = sub
          BY <2>1, <2>3, <3>1
        <4>2. Len(rest) <= Len(sub) /\ Len(sub) - Len(rest) = n + 1
          BY <3>3
        <4>3. Len(sub') - Len(todo'[call']) = n + 1
          BY <4>1, <4>2
        <4>4. /\ Len(todo'[call']) <= Len(sub')
              /\ \A k \in 1..Len(todo'[call']) : todo'[call'][k] = sub'[n + 1 + k]
              /\ \A j \in 1..n+1 : ~(outcome'[sub'[j]] = "waiting" /\ accepted'[sub'[j]] = NoHost)
          BY <3>6, <3>7, <4>1, <4>2
        <4>5. QED
          BY <4>3, <4>4 DEF HandlerInv, Delivered, Awaited
      <3>9. BlockedInv'
        BY <1>1, <1>2, <2>1, BlockedStays DEF BlockedInv
      <3>10. QED
        BY <3>8, <3>9
    <2>4. QED
      BY <2>2, <2>3
  <1>12. ASSUME NEW r \in Requests, Refuse(r) PROVE HandlerInv' /\ BlockedInv'
    <2>1. /\ status[r] = "running" /\ todo[r] # <<>> /\ ~Awaited(Head(todo[r]))
          /\ todo' = [todo EXCEPT ![r] = <<>>] /\ status' = [status EXCEPT ![r] = "refused"]
          /\ UNCHANGED <<pc, sub, oversized, call, attempt, netFails, outcome, accepted>>
      BY <1>12 DEF Refuse, loopVars, queueVars
    <2>2. CASE call # r
      BY <1>2, <2>1, <2>2, SubmissionFrame DEF TypeOK
    <2>3. CASE call = r
      <3> DEFINE n == Len(sub) - Len(todo[r])
      <3>1. Len(todo[r]) > 0 /\ Head(todo[r]) = todo[r][1] /\ r # NoRequest
        BY <1>1, <2>1, LenProperties, LoopAssumption
      <3>2. /\ Len(todo[r]) <= Len(sub)
            /\ \A k \in 1..Len(todo[r]) : todo[r][k] = sub[n + k]
            /\ \A j \in 1..n : ~Awaited(sub[j])
        BY <2>1, <2>3, <3>1 DEF HandlerInv, Delivered
      <3>a. n \in Nat
        BY <1>1, <3>2
      <3> HIDE DEF n
      <3>3. n \in Nat /\ ~Awaited(sub[n + 1])
        BY <1>1, <2>1, <3>1, <3>2, <3>a
      <3>4. Blocked
        <4>1. ASSUME NEW k \in DOMAIN sub, Awaited(sub[k]) PROVE n + 1 \in 1..k-1
          <5>1. k \notin 1..n /\ k # n + 1
            BY <3>2, <3>3, <4>1
          <5>2. QED
            BY <1>1, <3>3, <5>1
        <4>2. QED
          BY <3>3, <4>1 DEF Blocked
      <3>5. Blocked'
        BY <1>1, <1>2, <2>1, <3>4, BlockedStays
      <3>6. status'[call] = "refused" /\ call' = call
        BY <2>1, <2>3 DEF TypeOK
      <3>7. QED
        BY <2>1, <3>5, <3>6 DEF HandlerInv, BlockedInv
    <2>4. QED
      BY <2>2, <2>3
  <1>13. ASSUME NEW r \in Requests, AllDelivered(r) \/ ResponseUnread(r)
         PROVE  HandlerInv' /\ BlockedInv'
    <2>1. /\ \/ status' = [status EXCEPT ![r] = "ok"]
             \/ status' = [status EXCEPT ![r] = "idle"] /\ call # r
          /\ UNCHANGED <<pc, sub, oversized, call, attempt, netFails, todo>>
      BY <1>13 DEF AllDelivered, ResponseUnread, loopVars
    <2>2. CASE call # r
      BY <1>2, <2>1, <2>2, SubmissionFrame DEF TypeOK
    <2>3. CASE call = r
      <3>1. status'[call'] = "ok"
        BY <2>1, <2>3 DEF TypeOK
      <3>2. Blocked => Blocked'
        BY <1>1, <1>2, <2>1, BlockedStays
      <3>3. QED
        BY <2>1, <3>1, <3>2 DEF HandlerInv, BlockedInv
    <2>4. QED
      BY <2>2, <2>3
  <1>14. CASE SubmitOk \/ Drop
    <2>1. call' = NoRequest /\ pc' \notin {"submit", "pause"}
      BY <1>14 DEF SubmitOk, Drop, Response, NoResponse
    <2>2. QED
      BY <2>1, SubmissionEnds
  <1>15. CASE SubmitFailed
    <2>1. /\ pc = "submit" /\ call' = NoRequest /\ pc' = "pause" /\ sub' = sub /\ attempt' = attempt
          /\ oversized' = oversized
          /\ \/ call # NoRequest /\ status[call] = "refused"
             \/ netFails' = netFails + 1
      BY <1>15 DEF SubmitFailed, Response, NoResponse
    <2>2. ~oversized /\ netFails' < attempt => Blocked
      BY <1>1, <2>1 DEF BlockedInv
    <2>3. ~oversized /\ netFails' < attempt => Blocked'
      BY <1>1, <1>2, <2>1, <2>2, BlockedStays
    <2>4. QED
      BY <2>1, <2>3 DEF HandlerInv, BlockedInv
  <1>16. CASE Retry
    <2>1. /\ pc = "pause" /\ pc' = "submit" /\ attempt' = attempt + 1
          /\ UNCHANGED <<sub, oversized, call, netFails>>
      BY <1>16 DEF Retry
    <2>2. call = NoRequest
      BY <2>1 DEF CallInv
    <2>3. ~oversized /\ netFails < attempt => Blocked'
      BY <1>1, <1>2, <2>1, BlockedStays DEF BlockedInv
    <2>4. QED
      BY <1>1, <2>1, <2>2, <2>3 DEF HandlerInv, BlockedInv
  <1>17. CASE Crash
    BY <1>17, SubmissionEnds DEF Crash
  <1>18. CASE Restart
    BY <1>2, <1>18, SubmissionFrame DEF Restart
  <1>19. ASSUME NEW r \in Requests, BodyTooLarge(r) PROVE HandlerInv' /\ BlockedInv'
    <2>1. call' = r /\ oversized /\ oversized' = oversized /\ status'[r] = "refused"
      BY <1>19 DEF BodyTooLarge, TypeOK
    <2>2. QED
      BY <2>1 DEF HandlerInv, BlockedInv
  <1>20. QED
    BY <1>3, <1>4, <1>5, <1>6, <1>7, <1>8, <1>9, <1>10, <1>11, <1>12, <1>13, <1>14, <1>15, <1>16,
       <1>17, <1>18, <1>19 DEF Next, Work, Submit, ResultsHandler

\* The inductive invariant about submissions: what a handler has passed over is not
\* awaited, and an attempt that was refused, other than for its length, was refused for a
\* reason.
THEOREM ReasonInvariant == Spec => []ReasonInv
  <1>1. Init => ReasonInv
    BY NothingHeld, LoopAssumption
       DEF Init, Queue!Init, ReasonInv, AssignedInv, GroupInv, HandlerInv, BlockedInv
  <1>2. TypeOK /\ LoopInv /\ ReasonInv /\ [Next]_vars => ReasonInv'
    <2> SUFFICES ASSUME TypeOK, LoopInv, ReasonInv, [Next]_vars PROVE ReasonInv'
      OBVIOUS
    <2>1. PlaceInv /\ ResultInv /\ CallInv /\ AssignedInv /\ GroupInv /\ HandlerInv /\ BlockedInv
      BY DEF LoopInv, ReasonInv
    <2>2. AssignedInv' /\ NotAwaitedStays /\ investigation' = investigation
      BY <2>1, NextAssigned
    <2>3. GroupInv'
      BY <2>1, <2>2, NextGroupInv
    <2>4. HandlerInv' /\ BlockedInv'
      BY <2>1, <2>2, NextHandler
    <2>5. QED
      BY <2>2, <2>3, <2>4 DEF ReasonInv
  <1>3. QED
    BY <1>1, <1>2, TypeCorrect, LoopInvariant, PTL DEF Spec

\* A result that is still awaited is given up only when every attempt failed in the
\* network, in a body over the limit, or behind a result of its own investigation that nobody awaited.
THEOREM LossCorrect == Spec => LossHasItsReason
  <1> DEFINE Reason == \A k \in DOMAIN sub : Awaited(sub[k]) =>
                         \/ netFails' = MaxAttempts \/ oversized
                         \/ \E j \in 1..k-1 : /\ investigation[sub[j]] = investigation[sub[k]]
                                              /\ ~Awaited(sub[j])
  <1>1. TypeOK /\ ReasonInv /\ Drop => Reason
    <2> SUFFICES ASSUME TypeOK, ReasonInv, Drop, netFails' # MaxAttempts, ~oversized,
                        NEW k \in DOMAIN sub, Awaited(sub[k])
                 PROVE  \E j \in 1..k-1 : /\ investigation[sub[j]] = investigation[sub[k]]
                                          /\ ~Awaited(sub[j])
      OBVIOUS
    <2>1. /\ pc = "submit" /\ attempt = MaxAttempts
          /\ \/ call # NoRequest /\ status[call] = "refused"
             \/ netFails' = netFails + 1
      BY DEF Drop, Response, NoResponse
    <2>2. Blocked
      <3>1. CASE call # NoRequest /\ status[call] = "refused"
        BY <3>1 DEF ReasonInv, BlockedInv
      <3>2. CASE netFails' = netFails + 1
        <4>1. netFails \in Nat /\ netFails < attempt /\ attempt \in Nat
          BY <2>1, LoopAssumption DEF TypeOK
        <4>2. netFails < attempt - 1
          BY <2>1, <3>2, <4>1
        <4>3. QED
          BY <2>1, <4>2 DEF ReasonInv, BlockedInv
      <3>3. QED
        BY <2>1, <3>1, <3>2
    <2>3. PICK j \in 1..k-1 : ~Awaited(sub[j])
      BY <2>2 DEF Blocked
    <2>4. j \in DOMAIN sub
      BY <2>3, LenProperties DEF TypeOK
    <2>5. investigation[sub[j]] = investigation[sub[k]]
      BY <2>4 DEF ReasonInv, GroupInv, ToSet
    <2>6. QED
      BY <2>3, <2>5
  <1>2. TypeOK /\ ReasonInv /\ [Next]_vars => [Drop => Reason]_vars
    BY <1>1
  <1>3. QED
    BY <1>2, TypeCorrect, ReasonInvariant, PTL DEF Spec, LossHasItsReason
=============================================================================
