-------------------------- MODULE CommandQueueProofs --------------------------
(***************************************************************************)
(* Proofs about CommandQueue for any hosts, commands, connections,         *)
(* concurrent Deliver calls and channel capacity.                          *)
(***************************************************************************)
EXTENDS CommandQueue, SequenceTheorems, FiniteSetTheorems, TLAPS

LEMMA TypeInit == Init => TypeOK
BY QueueAssumption DEF Init, TypeOK

LEMMA TypeNext == TypeOK /\ [Next]_vars => TypeOK'
<1> SUFFICES ASSUME TypeOK, [Next]_vars PROVE TypeOK'
  OBVIOUS
<1> USE QueueAssumption DEF TypeOK, queueVars, waiterVars, streamVars, callVars, waitVars
<1>1. ASSUME NEW c \in Cmds, NEW h \in Hosts, EnqueueToStream(c, h) PROVE TypeOK'
  BY <1>1 DEF EnqueueToStream, RecordWaiter, HasRoom
<1>2. ASSUME NEW c \in Cmds, NEW h \in Hosts, EnqueueToPending(c, h) PROVE TypeOK'
  BY <1>2 DEF EnqueueToPending, RecordWaiter
<1>3. ASSUME NEW s \in Streams, NEW h \in Hosts, RegisterSSE(s, h) PROVE TypeOK'
  BY <1>3 DEF RegisterSSE
<1>4. ASSUME NEW s \in Streams, DrainSend(s) PROVE TypeOK'
  <2>1. Head(drain[s]) \in Cmds /\ Tail(drain[s]) \in Seq(Cmds)
    BY <1>4, HeadTailProperties DEF DrainSend
  <2>2. QED
    BY <1>4, <2>1 DEF DrainSend
<1>5. ASSUME NEW s \in Streams, RegisterReturn(s) PROVE TypeOK'
  BY <1>5 DEF RegisterReturn
<1>6. ASSUME NEW s \in Streams, StreamCommand(s) PROVE TypeOK'
  <2>1. Head(chan[s]) \in Cmds /\ Tail(chan[s]) \in Seq(Cmds)
    BY <1>6, HeadTailProperties DEF StreamCommand
  <2>2. QED
    BY <1>6, <2>1, SMTT(20) DEF StreamCommand
<1>7. ASSUME NEW s \in Streams, UnregisterSSE(s) PROVE TypeOK'
  BY <1>7 DEF UnregisterSSE
<1>8. ASSUME NEW h \in Hosts, Drain(h) PROVE TypeOK'
  <2>1. Range(pending[h]) \subseteq Cmds
    BY RangeOfSeq
  <2>2. QED
    BY <1>8, <2>1 DEF Drain
<1>9. ASSUME NEW d \in Calls, NEW h \in Hosts, NEW c \in Cmds, DeliverLookup(d, h, c)
      PROVE TypeOK'
  BY <1>9 DEF DeliverLookup
<1>10. ASSUME NEW d \in Calls, DeliverCAS(d) PROVE TypeOK'
  <2>1. CASE winner[callCmd[d]] = NoHost
    BY <1>10, <2>1, ZenonT(30) DEF DeliverCAS
  <2>2. CASE winner[callCmd[d]] # NoHost
    BY <1>10, <2>2, ZenonT(30) DEF DeliverCAS, CallReturns
  <2>3. QED
    BY <2>1, <2>2
<1>11. ASSUME NEW d \in Calls, DeliverSend(d) PROVE TypeOK'
  <2> DEFINE c == callCmd[d]
  <2>1. c \in Cmds /\ Append(resultCh[c], callHost[d]) \in Seq(Hosts)
    BY <1>11, AppendProperties DEF DeliverSend
  <2>2. QED
    BY <1>11, <2>1 DEF DeliverSend, CallReturns
<1>12. ASSUME NEW c \in Cmds, WaitLookup(c) PROVE TypeOK'
  BY <1>12 DEF WaitLookup
<1>13. ASSUME NEW c \in Cmds, WaitReceive(c) PROVE TypeOK'
  <2>1. Head(resultCh[c]) \in Hosts /\ Tail(resultCh[c]) \in Seq(Hosts)
    BY <1>13, HeadTailProperties DEF WaitReceive
  <2>2. QED
    BY <1>13, <2>1 DEF WaitReceive
<1>14. ASSUME NEW c \in Cmds, WaitTimer(c) PROVE TypeOK'
  BY <1>14 DEF WaitTimer
<1>15. ASSUME NEW c \in Cmds, WaitReturn(c) PROVE TypeOK'
  BY <1>15 DEF WaitReturn
<1>16. CASE UNCHANGED vars
  BY <1>16 DEF vars
<1>17. QED
  BY <1>1, <1>2, <1>3, <1>4, <1>5, <1>6, <1>7, <1>8, <1>9, <1>10, <1>11, <1>12, <1>13,
     <1>14, <1>15, <1>16 DEF Next, Handler, Deliver, Dispatch

\* Type correctness of the queue and of every goroutine that uses it.
THEOREM TypeCorrect == Spec => []TypeOK
BY TypeInit, TypeNext, PTL DEF Spec

-----------------------------------------------------------------------------
(* Delivery: the life of a result from the CAS to the reply.               *)

LEMMA DeliveryInit == Init => DeliveryInv
BY QueueAssumption
   DEF Init, DeliveryInv, WaiterLifecycle, SendNeverBlocks, ResultInv, CallInv

\* The steps that neither touch the waiter objects nor the two goroutines that
\* use them leave the delivery invariant alone.
LEMMA DeliveryFrame ==
  ASSUME DeliveryInv, UNCHANGED <<waiters, waiterVars, callVars, waitVars>>
  PROVE  DeliveryInv'
BY DEF DeliveryInv, WaiterLifecycle, SendNeverBlocks, ResultInv, CallInv, waiterVars, callVars, waitVars

LEMMA DeliveryNext == TypeOK /\ DeliveryInv /\ [Next]_vars => DeliveryInv'
<1> SUFFICES ASSUME TypeOK, DeliveryInv, [Next]_vars PROVE DeliveryInv'
  OBVIOUS
<1> USE QueueAssumption DEF queueVars, waiterVars, callVars, waitVars
<1>1. ASSUME NEW c \in Cmds, NEW h \in Hosts, RecordWaiter(c, h), UNCHANGED callVars
      PROVE DeliveryInv'
  BY <1>1 DEF RecordWaiter, TypeOK, DeliveryInv, WaiterLifecycle,
      SendNeverBlocks, ResultInv, CallInv
<1>2. ASSUME NEW d \in Calls, NEW h \in Hosts, NEW c \in Cmds, DeliverLookup(d, h, c)
      PROVE DeliveryInv'
  BY <1>2 DEF DeliverLookup, Verdict, TypeOK, DeliveryInv, WaiterLifecycle,
      SendNeverBlocks, ResultInv, CallInv
<1>3. ASSUME NEW d \in Calls, DeliverCAS(d) PROVE DeliveryInv'
  <2>1. callCmd[d] \in Cmds /\ callHost[d] \in Hosts
    BY <1>3 DEF DeliverCAS, TypeOK
  <2>2. CASE winner[callCmd[d]] = NoHost
    <3>1. /\ winner' = [winner EXCEPT ![callCmd[d]] = callHost[d]]
          /\ callPc' = [callPc EXCEPT ![d] = "send"]
          /\ UNCHANGED <<owner, resultCh, callHost, callCmd, waiters, waitVars>>
      BY <1>3, <2>2 DEF DeliverCAS
    <3>2. WaiterLifecycle'
      BY <3>1 DEF DeliveryInv, WaiterLifecycle
    <3>3. /\ callHost[d] = owner[callCmd[d]]
          /\ resultCh[callCmd[d]] = <<>> /\ reply[callCmd[d]] = NoHost
          /\ \A e \in Calls : callPc[e] = "send" => callCmd[e] # callCmd[d]
      BY <1>3, <2>2, <2>1 DEF DeliverCAS, DeliveryInv, ResultInv, CallInv
    <3>4. SendNeverBlocks'
      BY <3>1, <3>3 DEF TypeOK, DeliveryInv, SendNeverBlocks
    <3>5. QED
      BY <2>1, <3>1, <3>2, <3>3, <3>4 DEF TypeOK, DeliveryInv, ResultInv, CallInv
  <2>3. CASE winner[callCmd[d]] # NoHost
    <3>1. /\ UNCHANGED <<waiterVars, waiters, waitVars>>
          /\ callPc'   = [callPc EXCEPT ![d] = "idle"]
          /\ callHost' = [callHost EXCEPT ![d] = NoHost]
          /\ callCmd'  = [callCmd EXCEPT ![d] = NoCmd]
      BY <1>3, <2>3 DEF DeliverCAS, CallReturns
    <3>2. QED
      BY <3>1 DEF TypeOK, DeliveryInv, WaiterLifecycle,
      SendNeverBlocks, ResultInv, CallInv
  <2>4. QED
    BY <2>2, <2>3
<1>4. ASSUME NEW d \in Calls, DeliverSend(d) PROVE DeliveryInv'
  <2>1. callCmd[d] \in Cmds /\ callHost[d] \in Hosts
    BY <1>4 DEF DeliverSend, TypeOK
  <2>2. resultCh[callCmd[d]] = <<>> /\ callHost[d] = owner[callCmd[d]]
    BY <1>4, <2>1 DEF DeliverSend, DeliveryInv, SendNeverBlocks, CallInv
  <2>3. resultCh' = [resultCh EXCEPT ![callCmd[d]] = <<owner[callCmd[d]]>>]
    BY <1>4, <2>2 DEF DeliverSend
  <2>4. QED
    BY <1>4, <2>1, <2>2, <2>3
    DEF DeliverSend, CallReturns, TypeOK, DeliveryInv, WaiterLifecycle,
      SendNeverBlocks, ResultInv, CallInv
<1>5. ASSUME NEW c \in Cmds, WaitLookup(c) PROVE DeliveryInv'
  BY <1>5 DEF WaitLookup, TypeOK, DeliveryInv, WaiterLifecycle,
      SendNeverBlocks, ResultInv, CallInv
<1>6. ASSUME NEW c \in Cmds, WaitReceive(c) PROVE DeliveryInv'
  <2>1. resultCh[c] = <<owner[c]>> /\ owner[c] \in Hosts /\ winner[c] = owner[c]
    BY <1>6 DEF WaitReceive, TypeOK, DeliveryInv, ResultInv
  <2>2. /\ reply' = [reply EXCEPT ![c] = owner[c]]
        /\ resultCh' = [resultCh EXCEPT ![c] = <<>>]
    BY <1>6, <2>1 DEF WaitReceive
  <2>3. /\ waitPc[c] = "select" /\ waitPc' = [waitPc EXCEPT ![c] = "received"]
        /\ UNCHANGED <<owner, winner, callVars, waiters>>
    BY <1>6 DEF WaitReceive
  <2>4. WaiterLifecycle'
    BY <2>3 DEF TypeOK, DeliveryInv, WaiterLifecycle
  <2>5. SendNeverBlocks'
    <3>1. \A e \in Calls : callPc[e] = "send" => callCmd[e] \in Cmds /\ callCmd[e] # c
      BY <1>6 DEF WaitReceive, TypeOK, DeliveryInv, SendNeverBlocks
    <3>2. QED
      BY <2>2, <2>3, <3>1 DEF TypeOK, DeliveryInv, SendNeverBlocks
  <2>6. ResultInv(c)'
    BY <2>1, <2>2, <2>3 DEF TypeOK, ResultInv, DeliveryInv
  <2>7. ASSUME NEW x \in Cmds, x # c PROVE ResultInv(x)'
    <3>1. /\ reply'[x] = reply[x] /\ resultCh'[x] = resultCh[x]
          /\ waitPc'[x] = waitPc[x] /\ owner'[x] = owner[x] /\ winner'[x] = winner[x]
      BY <2>2, <2>3, <2>7 DEF TypeOK
    <3>2. QED
      BY <3>1 DEF ResultInv, DeliveryInv
  <2>8. ASSUME NEW d \in Calls PROVE CallInv(d)'
    BY <2>3 DEF CallInv, DeliveryInv
  <2>9. QED
    BY <2>4, <2>5, <2>6, <2>7, <2>8 DEF DeliveryInv
<1>7. ASSUME NEW c \in Cmds, WaitTimer(c) PROVE DeliveryInv'
  BY <1>7 DEF WaitTimer, TypeOK, DeliveryInv, WaiterLifecycle,
      SendNeverBlocks, ResultInv, CallInv
<1>8. ASSUME NEW c \in Cmds, WaitReturn(c) PROVE DeliveryInv'
  BY <1>8 DEF WaitReturn, TypeOK, DeliveryInv, WaiterLifecycle,
      SendNeverBlocks, ResultInv, CallInv
<1>9. ASSUME UNCHANGED <<waiters, waiterVars, callVars, waitVars>> PROVE DeliveryInv'
  BY <1>9, DeliveryFrame
<1>10. QED
  BY <1>1, <1>2, <1>3, <1>4, <1>5, <1>6, <1>7, <1>8, <1>9
  DEF Next, Handler, Deliver, Dispatch, EnqueueToStream, EnqueueToPending, RegisterSSE,
      DrainSend, RegisterReturn, StreamCommand, UnregisterSSE, Drain, vars

THEOREM DeliveryInvariant == Spec => []DeliveryInv
BY TypeCorrect, DeliveryInit, DeliveryNext, PTL DEF Spec

\* The send of Deliver finds the result channel empty and to itself.
THEOREM SendCorrect == Spec => []SendNeverBlocks
<1>1. DeliveryInv => SendNeverBlocks
  BY DEF DeliveryInv
<1>2. QED
  BY <1>1, DeliveryInvariant, PTL

\* The waiters entry lives exactly as long as the dispatch that owns it.
THEOREM LifecycleCorrect == Spec => []WaiterLifecycle
<1>1. DeliveryInv => WaiterLifecycle
  BY DEF DeliveryInv
<1>2. QED
  BY <1>1, DeliveryInvariant, PTL

\* A dispatch returns only what the host it was meant for submitted.
THEOREM ReplyCorrect == Spec => []ReplyFromOwner
<1>1. TypeOK /\ DeliveryInv => ReplyFromOwner
  BY QueueAssumption DEF TypeOK, DeliveryInv, ResultInv, ReplyFromOwner
<1>2. QED
  BY <1>1, TypeCorrect, DeliveryInvariant, PTL

-----------------------------------------------------------------------------
(* Sequences without repetition.                                           *)

LEMMA InjectiveAppend ==
  ASSUME NEW S, NEW q \in Seq(S), NEW e \in S, IsInjective(q), e \notin Range(q)
  PROVE  /\ IsInjective(Append(q, e))
         /\ Range(Append(q, e)) = Range(q) \union {e}
<1>1. /\ Append(q, e) \in Seq(S) /\ Len(Append(q, e)) = Len(q) + 1
      /\ \A i \in 1..Len(q) : Append(q, e)[i] = q[i]
      /\ Append(q, e)[Len(q) + 1] = e
      /\ Len(q) \in Nat
  BY AppendProperties, LenProperties
<1>2. DOMAIN q = 1..Len(q) /\ DOMAIN Append(q, e) = 1..(Len(q) + 1)
  BY <1>1, LenProperties
<1>3. IsInjective(Append(q, e))
  BY <1>1, <1>2 DEF IsInjective, Range
<1>4. Range(Append(q, e)) = Range(q) \union {e}
  BY <1>1, <1>2 DEF Range
<1>5. QED
  BY <1>3, <1>4

LEMMA InjectiveTail ==
  ASSUME NEW S, NEW q \in Seq(S), q # <<>>, IsInjective(q)
  PROVE  /\ IsInjective(Tail(q))
         /\ Head(q) \in Range(q)
         /\ Range(Tail(q)) = Range(q) \ {Head(q)}
<1>1. /\ Head(q) = q[1] /\ Tail(q) \in Seq(S) /\ Len(Tail(q)) = Len(q) - 1
      /\ \A i \in 1..Len(Tail(q)) : Tail(q)[i] = q[i + 1]
      /\ Len(q) \in Nat \ {0}
  BY HeadTailProperties, EmptySeq
<1>2. DOMAIN q = 1..Len(q) /\ DOMAIN Tail(q) = 1..(Len(q) - 1)
  BY <1>1, LenProperties
<1>3. IsInjective(Tail(q))
  BY <1>1, <1>2 DEF IsInjective
<1>4. Head(q) \in Range(q)
  BY <1>1, <1>2 DEF Range
<1>5. ASSUME NEW x PROVE x \in Range(Tail(q)) <=> x \in Range(q) \ {Head(q)}
  <2>1. ASSUME x \in Range(Tail(q)) PROVE x \in Range(q) \ {Head(q)}
    <3>1. PICK i \in 1..(Len(q) - 1) : x = q[i + 1]
      BY <2>1, <1>1, <1>2 DEF Range
    <3>2. i + 1 \in 1..Len(q) /\ 1 \in 1..Len(q) /\ i + 1 # 1
      BY <1>1
    <3>3. q[i + 1] # q[1]
      BY <3>2, <1>2 DEF IsInjective
    <3>4. QED
      BY <3>1, <3>2, <3>3, <1>1, <1>2 DEF Range
  <2>2. ASSUME x \in Range(q) \ {Head(q)} PROVE x \in Range(Tail(q))
    <3>1. PICK i \in 1..Len(q) : x = q[i] /\ i # 1
      BY <2>2, <1>1, <1>2 DEF Range
    <3>2. i - 1 \in 1..(Len(q) - 1) /\ Tail(q)[i - 1] = q[i]
      BY <3>1, <1>1
    <3>3. QED
      BY <3>1, <3>2, <1>2 DEF Range
  <2>3. QED
    BY <2>1, <2>2
<1>6. QED
  BY <1>3, <1>4, <1>5

\* A channel and what is still to be drained into it, without repetition: a
\* command that is in neither can be sent from outside, between the two.
LEMMA InjectiveInsert ==
  ASSUME NEW S, NEW q \in Seq(S), NEW r \in Seq(S), NEW e \in S,
         IsInjective(q \o r), e \notin Range(q) \union Range(r)
  PROVE  /\ IsInjective(Append(q, e) \o r)
         /\ Range(Append(q, e)) = Range(q) \union {e}
<1> DEFINE n == Len(q)
           m == Len(r)
           a == q \o r
           b == Append(q, e) \o r
<1>1. /\ n \in Nat /\ m \in Nat
      /\ Append(q, e) \in Seq(S) /\ Len(Append(q, e)) = n + 1
      /\ \A i \in 1..n : Append(q, e)[i] = q[i]
      /\ Append(q, e)[n + 1] = e
  BY AppendProperties, LenProperties
<1>2. /\ DOMAIN a = 1..(n + m)
      /\ \A i \in 1..(n + m) : a[i] = IF i <= n THEN q[i] ELSE r[i - n]
  BY <1>1, ConcatProperties, LenProperties
<1>3. /\ DOMAIN b = 1..(n + 1 + m)
      /\ \A i \in 1..(n + 1 + m) :
            b[i] = IF i <= n + 1 THEN Append(q, e)[i] ELSE r[i - (n + 1)]
  BY <1>1, ConcatProperties, LenProperties
<1>4. DOMAIN q = 1..n /\ DOMAIN r = 1..m
  BY LenProperties
<1>5. \A i \in 1..(n + 1 + m) :
         /\ i <= n => b[i] = a[i] /\ i \in 1..(n + m) /\ b[i] # e
         /\ i = n + 1 => b[i] = e
         /\ i > n + 1 => b[i] = a[i - 1] /\ i - 1 \in 1..(n + m) /\ b[i] # e
  <2> SUFFICES ASSUME NEW i \in 1..(n + 1 + m)
               PROVE  /\ i <= n => b[i] = a[i] /\ i \in 1..(n + m) /\ b[i] # e
                      /\ i = n + 1 => b[i] = e
                      /\ i > n + 1 => b[i] = a[i - 1] /\ i - 1 \in 1..(n + m) /\ b[i] # e
    OBVIOUS
  <2> HIDE DEF a, b, n, m
  <2>1. CASE i <= n
    BY <1>1, <1>2, <1>3, <1>4, <2>1, SMTT(20) DEF Range
  <2>2. CASE i = n + 1
    BY <1>1, <1>3, <2>2
  <2>3. CASE i > n + 1
    <3>1. i - 1 \in 1..(n + m) /\ ~(i - 1 <= n) /\ (i - 1) - n = i - (n + 1)
          /\ i - (n + 1) \in 1..m
      BY <1>1, <2>3
    <3>2. b[i] = r[i - (n + 1)] /\ a[i - 1] = r[i - (n + 1)]
      BY <1>1, <1>2, <1>3, <2>3, <3>1
    <3>3. r[i - (n + 1)] # e
      BY <1>4, <3>1 DEF Range
    <3>4. QED
      BY <2>3, <3>1, <3>2, <3>3, <1>1
  <2>4. QED
    BY <1>1, <2>1, <2>2, <2>3
<1>6. IsInjective(b)
  <2> HIDE DEF a, b, n, m
  <2> SUFFICES ASSUME NEW i \in 1..(n + 1 + m), NEW j \in 1..(n + 1 + m), b[i] = b[j]
               PROVE  i = j
    BY <1>3 DEF IsInjective
  <2>1. IsInjective(a)
    BY DEF a
  <2>2. \A k, l \in 1..(n + m) : a[k] = a[l] => k = l
    BY <2>1, <1>2 DEF IsInjective
  <2>3. CASE i = n + 1 \/ j = n + 1
    BY <2>3, <1>1, <1>5
  <2>4. CASE i <= n /\ j <= n
    BY <2>2, <2>4, <1>5
  <2>5. CASE i <= n /\ j > n + 1
    BY <2>2, <2>5, <1>1, <1>5
  <2>6. CASE i > n + 1 /\ j <= n
    BY <2>2, <2>6, <1>1, <1>5
  <2>7. CASE i > n + 1 /\ j > n + 1
    BY <2>2, <2>7, <1>1, <1>5
  <2>8. QED
    BY <1>1, <2>3, <2>4, <2>5, <2>6, <2>7
<1>7. Range(Append(q, e)) = Range(q) \union {e}
  <2>1. DOMAIN Append(q, e) = 1..(n + 1)
    BY <1>1, LenProperties
  <2>2. QED
    BY <1>1, <1>4, <2>1 DEF Range
<1>8. QED
  BY <1>6, <1>7

\* One step of the drain loop moves a command without changing the whole.
LEMMA MoveHead ==
  ASSUME NEW S, NEW q \in Seq(S), NEW r \in Seq(S), r # <<>>
  PROVE  Append(q, Head(r)) \o Tail(r) = q \o r
<1>1. /\ Head(r) \in S /\ Tail(r) \in Seq(S) /\ r = <<Head(r)>> \o Tail(r)
  <2>1. Head(r) \in S /\ Tail(r) \in Seq(S) /\ Len(Tail(r)) = Len(r) - 1
        /\ Head(r) = r[1] /\ \A i \in 1..Len(Tail(r)) : Tail(r)[i] = r[i + 1]
    BY HeadTailProperties
  <2>2. <<Head(r)>> \in Seq(S) /\ Len(<<Head(r)>>) = 1 /\ <<Head(r)>>[1] = Head(r)
    BY <2>1
  <2>3. Len(r) \in Nat \ {0}
    BY EmptySeq
  <2>4. /\ <<Head(r)>> \o Tail(r) \in Seq(S)
        /\ Len(<<Head(r)>> \o Tail(r)) = Len(r)
        /\ \A i \in 1..Len(r) : (<<Head(r)>> \o Tail(r))[i] = r[i]
    BY <2>1, <2>2, <2>3, ConcatProperties
  <2>5. QED
    BY <2>1, <2>4, SeqEqual
<1>2. Append(q, Head(r)) = q \o <<Head(r)>>
  BY <1>1, AppendIsConcat
<1>3. (q \o <<Head(r)>>) \o Tail(r) = q \o (<<Head(r)>> \o Tail(r))
  BY <1>1, ConcatAssociative
<1>4. QED
  BY <1>1, <1>2, <1>3

-----------------------------------------------------------------------------
(* Hand-out: where a command is between Enqueue and an agent's connection. *)

LEMMA EmptyRange == Range(<<>>) = {} /\ IsInjective(<<>>) /\ <<>> \o <<>> = <<>>
<1>1. DOMAIN <<>> = {}
  OBVIOUS
<1>2. <<>> \o <<>> = <<>>
  OBVIOUS
<1>3. QED
  BY <1>1, <1>2 DEF Range, IsInjective

LEMMA StreamInit == Init => StreamInv
<1> SUFFICES ASSUME Init PROVE StreamInv
  OBVIOUS
<1>1. \A h \in Hosts : PendingOnce(h)
  BY EmptyRange DEF Init, PendingOnce
<1>2. \A s \in Streams : StreamOnce(s)
  BY EmptyRange DEF Init, StreamOnce, InStream
<1>3. QED
  BY <1>1, <1>2 DEF Init, StreamInv, HandedInv, HandlerInv, HandedOutOnce, RegisteredStreamIsLive

\* The steps of Deliver and WaitForResult leave the hand-out alone.
LEMMA StreamFrame ==
  ASSUME StreamInv, UNCHANGED <<pending, sse, owner, streamVars, handed>>
  PROVE  StreamInv'
BY DEF StreamInv, HandlerInv, HandedInv, HandedOutOnce, PendingOnce, StreamOnce, InStream,
       RegisteredStreamIsLive, streamVars

\* A command not enqueued yet is nowhere.
LEMMA FreshNowhere ==
  ASSUME TypeOK, DeliveryInv, StreamInv, NEW c \in Cmds, waitPc[c] = "none"
  PROVE  /\ handed[c] = 0
         /\ \A h \in Hosts : c \notin Range(pending[h])
         /\ \A s \in Streams : ~InStream(s, c)
<1>1. owner[c] = NoHost
  BY DEF DeliveryInv, ResultInv
<1>2. handed[c] = 0 /\ \A h \in Hosts : c \notin Range(pending[h])
  <2>1. handed[c] = 0
    BY <1>1 DEF TypeOK, StreamInv, HandedInv
  <2>2. QED
    BY <1>1, <2>1, QueueAssumption DEF StreamInv, HandedOutOnce, PendingOnce
<1>3. ASSUME NEW s \in Streams, InStream(s, c) PROVE FALSE
  <2>1. chan[s] # <<>> \/ drain[s] # <<>>
    BY <1>3, EmptyRange DEF InStream
  <2>2. streamHost[s] \in Hosts
    BY <2>1 DEF StreamInv, HandlerInv
  <2>3. owner[c] = streamHost[s]
    BY <1>3 DEF StreamInv, HandedOutOnce, StreamOnce
  <2>4. QED
    BY <1>1, <2>2, <2>3, QueueAssumption
<1>4. QED
  BY <1>2, <1>3

LEMMA EnqueueToStreamInv ==
  ASSUME TypeOK, DeliveryInv, StreamInv,
         NEW c \in Cmds, NEW h \in Hosts, EnqueueToStream(c, h)
  PROVE  StreamInv'
<1> DEFINE s0 == sse[h]
<1>1. /\ s0 \in Streams /\ streamHost[s0] = h /\ streamPc[s0] \in {"registering", "open"}
      /\ chan' = [chan EXCEPT ![s0] = Append(chan[s0], c)]
      /\ owner' = [owner EXCEPT ![c] = h]
      /\ UNCHANGED <<pending, sse, streamPc, streamHost, drain, handed>>
      /\ waitPc[c] = "none"
  BY QueueAssumption
  DEF EnqueueToStream, RecordWaiter, HasRoom, TypeOK, StreamInv, RegisteredStreamIsLive
<1>2. /\ handed[c] = 0
      /\ \A g \in Hosts : c \notin Range(pending[g])
      /\ \A s \in Streams : ~InStream(s, c)
  BY <1>1, FreshNowhere
<1>3. /\ IsInjective(Append(chan[s0], c) \o drain[s0])
      /\ Range(Append(chan[s0], c)) = Range(chan[s0]) \union {c}
  BY <1>1, <1>2, InjectiveInsert DEF TypeOK, StreamInv, HandedOutOnce, StreamOnce, InStream
<1>4. \A s \in Streams : \A x : InStream(s, x)' <=> InStream(s, x) \/ (s = s0 /\ x = c)
  BY <1>1, <1>3 DEF TypeOK, InStream
<1>5. ASSUME NEW g \in Hosts PROVE PendingOnce(g)'
  <2>1. Range(pending[g]) \subseteq Cmds
    BY RangeOfSeq DEF TypeOK
  <2>2. QED
    BY <1>1, <1>2, <1>4, <2>1 DEF TypeOK, StreamInv, HandedOutOnce, PendingOnce
<1>6. ASSUME NEW s \in Streams PROVE StreamOnce(s)'
  <2>1. IsInjective(chan'[s] \o drain'[s])
    BY <1>1, <1>3 DEF TypeOK, StreamInv, HandedOutOnce, StreamOnce
  <2>2. ASSUME NEW x \in Cmds, InStream(s, x)'
        PROVE  /\ owner'[x] = streamHost'[s] /\ handed'[x] = 0
               /\ \A t \in Streams : InStream(t, x)' => t = s
    <3>1. CASE x = c
      BY <3>1, <2>2, <1>1, <1>2, <1>4 DEF TypeOK
    <3>2. CASE x # c
      BY <3>2, <2>2, <1>1, <1>4 DEF TypeOK, StreamInv, HandedOutOnce, StreamOnce
    <3>3. QED
      BY <3>1, <3>2
  <2>3. QED
    BY <2>1, <2>2 DEF StreamOnce
<1>7. \A s \in Streams : HandlerInv(s)'
  BY <1>1 DEF TypeOK, StreamInv, HandlerInv
<1>8. RegisteredStreamIsLive' /\ HandedInv'
  BY <1>1, <1>2, QueueAssumption DEF TypeOK, StreamInv, HandedInv, RegisteredStreamIsLive
<1>9. QED
  BY <1>5, <1>6, <1>7, <1>8 DEF StreamInv, HandedInv, HandedOutOnce

LEMMA EnqueueToPendingInv ==
  ASSUME TypeOK, DeliveryInv, StreamInv,
         NEW c \in Cmds, NEW h \in Hosts, EnqueueToPending(c, h)
  PROVE  StreamInv'
<1>1. /\ pending' = [pending EXCEPT ![h] = Append(pending[h], c)]
      /\ owner' = [owner EXCEPT ![c] = h]
      /\ UNCHANGED <<sse, streamPc, streamHost, chan, drain, handed>>
      /\ waitPc[c] = "none"
  BY DEF EnqueueToPending, RecordWaiter, streamVars
<1>2. /\ handed[c] = 0
      /\ \A g \in Hosts : c \notin Range(pending[g])
      /\ \A s \in Streams : ~InStream(s, c)
  BY <1>1, FreshNowhere
<1>3. /\ IsInjective(Append(pending[h], c))
      /\ Range(Append(pending[h], c)) = Range(pending[h]) \union {c}
  BY <1>2, InjectiveAppend DEF TypeOK, StreamInv, HandedOutOnce, PendingOnce
<1>4. \A s \in Streams : \A x : InStream(s, x)' <=> InStream(s, x)
  BY <1>1 DEF InStream
<1>5. ASSUME NEW g \in Hosts PROVE PendingOnce(g)'
  <2>1. Range(pending[g]) \subseteq Cmds
    BY RangeOfSeq DEF TypeOK
  <2>2. CASE g = h
    BY <1>1, <1>2, <1>3, <1>4, <2>1, <2>2 DEF TypeOK, StreamInv, HandedOutOnce, PendingOnce
  <2>3. CASE g # h
    BY <1>1, <1>2, <1>4, <2>1, <2>3 DEF TypeOK, StreamInv, HandedOutOnce, PendingOnce
  <2>4. QED
    BY <2>2, <2>3
<1>6. ASSUME NEW s \in Streams PROVE StreamOnce(s)'
  BY <1>1, <1>2, <1>4 DEF TypeOK, StreamInv, HandedOutOnce, StreamOnce
<1>7. \A s \in Streams : HandlerInv(s)'
  BY <1>1 DEF StreamInv, HandlerInv
<1>8. RegisteredStreamIsLive' /\ HandedInv'
  BY <1>1, <1>2 DEF TypeOK, StreamInv, HandedInv, RegisteredStreamIsLive
<1>9. QED
  BY <1>5, <1>6, <1>7, <1>8 DEF StreamInv, HandedInv, HandedOutOnce

LEMMA RegisterSSEInv ==
  ASSUME TypeOK, StreamInv, NEW s \in Streams, NEW h \in Hosts, RegisterSSE(s, h)
  PROVE  StreamInv'
<1>1. /\ streamPc[s] = "idle" /\ chan[s] = <<>> /\ drain[s] = <<>>
      /\ streamPc' = [streamPc EXCEPT ![s] = "registering"]
      /\ streamHost' = [streamHost EXCEPT ![s] = h]
      /\ sse' = [sse EXCEPT ![h] = s]
      /\ drain' = [drain EXCEPT ![s] = pending[h]]
      /\ pending' = [pending EXCEPT ![h] = <<>>]
      /\ UNCHANGED <<owner, chan, handed>>
  BY DEF RegisterSSE, StreamInv, HandlerInv, waiterVars
<1>2. \A t \in Streams : \A x :
        InStream(t, x)' <=> IF t = s THEN x \in Range(pending[h]) ELSE InStream(t, x)
  BY <1>1, EmptyRange DEF TypeOK, InStream
<1>3. \A x \in Range(pending[h]) :
        owner[x] = h /\ handed[x] = 0 /\ \A t \in Streams : ~InStream(t, x)
  BY DEF StreamInv, HandedOutOnce, PendingOnce
<1>4. ASSUME NEW g \in Hosts PROVE PendingOnce(g)'
  <2>1. CASE g = h
    BY <1>1, <2>1, EmptyRange DEF TypeOK, PendingOnce
  <2>2. CASE g # h
    <3>1. pending'[g] = pending[g]
      BY <1>1, <2>2 DEF TypeOK
    <3>2. \A x \in Range(pending[g]) : x \notin Range(pending[h])
      BY <2>2 DEF StreamInv, HandedOutOnce, PendingOnce
    <3>3. QED
      BY <1>1, <1>2, <3>1, <3>2 DEF StreamInv, HandedOutOnce, PendingOnce
  <2>3. QED
    BY <2>1, <2>2
<1>5. ASSUME NEW t \in Streams PROVE StreamOnce(t)'
  <2>1. CASE t = s
    <3>1. chan'[s] \o drain'[s] = pending[h]
      BY <1>1, ConcatEmptySeq DEF TypeOK
    <3>2. IsInjective(chan'[s] \o drain'[s])
      BY <3>1 DEF StreamInv, HandedOutOnce, PendingOnce
    <3>3. ASSUME NEW x \in Cmds, InStream(s, x)'
          PROVE  /\ owner'[x] = streamHost'[s] /\ handed'[x] = 0
                 /\ \A u \in Streams : InStream(u, x)' => u = s
      BY <1>1, <1>2, <1>3, <3>3 DEF TypeOK
    <3>4. QED
      BY <2>1, <3>2, <3>3 DEF StreamOnce
  <2>2. CASE t # s
    <3>1. chan'[t] \o drain'[t] = chan[t] \o drain[t]
      BY <1>1, <2>2 DEF TypeOK
    <3>2. ASSUME NEW x \in Cmds, InStream(t, x)'
          PROVE  /\ owner'[x] = streamHost'[t] /\ handed'[x] = 0
                 /\ \A u \in Streams : InStream(u, x)' => u = t
      BY <1>1, <1>2, <1>3, <2>2, <3>2 DEF TypeOK, StreamInv, HandedOutOnce, StreamOnce
    <3>3. QED
      BY <3>1, <3>2 DEF StreamInv, HandedOutOnce, StreamOnce
  <2>3. QED
    BY <2>1, <2>2
<1>6. \A t \in Streams : HandlerInv(t)'
  BY <1>1 DEF TypeOK, StreamInv, HandlerInv
<1>7. RegisteredStreamIsLive' /\ HandedInv'
  BY <1>1 DEF TypeOK, StreamInv, HandedInv, RegisteredStreamIsLive
<1>8. QED
  BY <1>4, <1>5, <1>6, <1>7 DEF StreamInv, HandedInv, HandedOutOnce

LEMMA DrainSendInv ==
  ASSUME TypeOK, StreamInv, NEW s \in Streams, DrainSend(s)
  PROVE  StreamInv'
<1>1. /\ streamPc[s] = "registering" /\ drain[s] # <<>>
      /\ chan' = [chan EXCEPT ![s] = Append(chan[s], Head(drain[s]))]
      /\ drain' = [drain EXCEPT ![s] = Tail(drain[s])]
      /\ UNCHANGED <<pending, sse, owner, streamPc, streamHost, handed>>
  BY DEF DrainSend, queueVars, waiterVars
<1>2. /\ chan[s] \in Seq(Cmds) /\ drain[s] \in Seq(Cmds)
      /\ Head(drain[s]) \in Cmds /\ Tail(drain[s]) \in Seq(Cmds)
      /\ Append(chan[s], Head(drain[s])) \in Seq(Cmds)
  BY <1>1, HeadTailProperties, AppendProperties DEF TypeOK
<1>3. Append(chan[s], Head(drain[s])) \o Tail(drain[s]) = chan[s] \o drain[s]
  BY <1>1, <1>2, MoveHead
<1>4. Range(Append(chan[s], Head(drain[s]))) \union Range(Tail(drain[s]))
        = Range(chan[s]) \union Range(drain[s])
  <2>1. Range(chan[s] \o drain[s]) = Range(chan[s]) \union Range(drain[s])
    BY <1>2, RangeConcatenation
  <2>2. Range(Append(chan[s], Head(drain[s])) \o Tail(drain[s]))
          = Range(Append(chan[s], Head(drain[s]))) \union Range(Tail(drain[s]))
    BY <1>2, RangeConcatenation, ZenonT(30)
  <2>3. QED
    BY <1>3, <2>1, <2>2
<1>5. \A t \in Streams : \A x : InStream(t, x)' <=> InStream(t, x)
  BY <1>1, <1>4 DEF TypeOK, InStream
<1>6. \A t \in Streams : chan'[t] \o drain'[t] = chan[t] \o drain[t]
  BY <1>1, <1>3 DEF TypeOK
<1>7. \A g \in Hosts : PendingOnce(g)'
  BY <1>1, <1>5 DEF StreamInv, HandedOutOnce, PendingOnce
<1>8. \A t \in Streams : StreamOnce(t)'
  BY <1>1, <1>5, <1>6 DEF StreamInv, HandedOutOnce, StreamOnce
<1>9. \A t \in Streams : HandlerInv(t)'
  BY <1>1 DEF TypeOK, StreamInv, HandlerInv
<1>10. RegisteredStreamIsLive' /\ HandedInv'
  BY <1>1 DEF StreamInv, HandedInv, RegisteredStreamIsLive
<1>11. QED
  BY <1>7, <1>8, <1>9, <1>10 DEF StreamInv, HandedInv, HandedOutOnce

LEMMA StreamCommandInv ==
  ASSUME TypeOK, StreamInv, NEW s \in Streams, StreamCommand(s)
  PROVE  StreamInv'
<1> DEFINE c == Head(chan[s])
<1>1. /\ streamPc[s] = "open" /\ chan[s] # <<>> /\ drain[s] = <<>>
      /\ handed' = [handed EXCEPT ![c] = @ + 1]
      /\ chan' = [chan EXCEPT ![s] = Tail(chan[s])]
      /\ UNCHANGED <<pending, sse, owner, streamPc, streamHost, drain>>
  BY DEF StreamCommand, queueVars, waiterVars, StreamInv, HandlerInv
<1>2. chan[s] \in Seq(Cmds) /\ chan[s] \o drain[s] = chan[s]
  BY <1>1, ConcatEmptySeq DEF TypeOK
<1>3. /\ IsInjective(Tail(chan[s])) /\ Tail(chan[s]) \in Seq(Cmds) /\ c \in Cmds
      /\ c \in Range(chan[s]) /\ Range(Tail(chan[s])) = Range(chan[s]) \ {c}
  <2>1. IsInjective(chan[s])
    BY <1>2 DEF StreamInv, HandedOutOnce, StreamOnce
  <2>2. QED
    BY <1>1, <1>2, <2>1, InjectiveTail, HeadTailProperties
<1>4. /\ InStream(s, c) /\ owner[c] = streamHost[s]
      /\ \A t \in Streams : InStream(t, c) => t = s
      /\ \A g \in Hosts : c \notin Range(pending[g])
  BY <1>3 DEF InStream, StreamInv, HandedOutOnce, StreamOnce, PendingOnce
<1>5. \A t \in Streams : \A x : InStream(t, x)' <=> InStream(t, x) /\ x # c
  BY <1>1, <1>3, <1>4, EmptyRange, ZenonT(30) DEF TypeOK, InStream
<1>6. ASSUME NEW g \in Hosts PROVE PendingOnce(g)'
  <2>1. /\ IsInjective(pending[g])
        /\ \A x \in Range(pending[g]) : x # c /\ owner[x] = g /\ handed[x] = 0
        /\ \A x \in Range(pending[g]) : \A t \in Streams : ~InStream(t, x)
    BY <1>4 DEF StreamInv, HandedOutOnce, PendingOnce
  <2> HIDE DEF c
  <2>2. QED
    BY <1>1, <1>5, <2>1 DEF PendingOnce
<1>7. ASSUME NEW t \in Streams PROVE StreamOnce(t)'
  <2>1. IsInjective(chan'[t] \o drain'[t])
    <3>1. CASE t = s
      BY <1>1, <1>3, <3>1, ConcatEmptySeq DEF TypeOK
    <3>2. CASE t # s
      BY <1>1, <3>2 DEF TypeOK, StreamInv, HandedOutOnce, StreamOnce
    <3>3. QED
      BY <3>1, <3>2
  <2>2. QED
    BY <1>1, <1>5, <2>1 DEF StreamInv, HandedOutOnce, StreamOnce
<1>8. \A t \in Streams : HandlerInv(t)'
  BY <1>1 DEF TypeOK, StreamInv, HandlerInv
<1>9. RegisteredStreamIsLive' /\ HandedInv'
  <2>1. owner[c] # NoHost /\ handed[c] = 0
    BY <1>1, <1>3, <1>4, QueueAssumption
    DEF StreamInv, HandlerInv, HandedOutOnce, StreamOnce
  <2> HIDE DEF c
  <2>2. HandedInv'
    BY <1>1, <1>3, <2>1 DEF TypeOK, StreamInv, HandedInv
  <2>3. RegisteredStreamIsLive'
    BY <1>1 DEF StreamInv, RegisteredStreamIsLive
  <2>4. QED
    BY <2>2, <2>3
<1>10. QED
  BY <1>6, <1>7, <1>8, <1>9 DEF StreamInv, HandedInv, HandedOutOnce

LEMMA ControlStepInv ==
  ASSUME TypeOK, StreamInv, NEW s \in Streams, RegisterReturn(s) \/ UnregisterSSE(s)
  PROVE  StreamInv'
<1>1. /\ UNCHANGED <<pending, owner, streamHost, chan, drain, handed>>
      /\ drain[s] = <<>> /\ streamPc[s] # "idle"
  BY DEF RegisterReturn, UnregisterSSE, queueVars, waiterVars, StreamInv, HandlerInv
<1>2. HandedOutOnce'
  BY <1>1 DEF StreamInv, HandedOutOnce, PendingOnce, StreamOnce, InStream
<1>3. \A t \in Streams : HandlerInv(t)'
  BY <1>1 DEF RegisterReturn, UnregisterSSE, TypeOK, StreamInv, HandlerInv
<1>4. RegisteredStreamIsLive'
  <2>1. CASE RegisterReturn(s)
    BY <1>1, <2>1 DEF RegisterReturn, queueVars, TypeOK, StreamInv, RegisteredStreamIsLive
  <2>2. CASE UnregisterSSE(s)
    <3>1. \A h \in Hosts : sse'[h] # NoStream => sse'[h] = sse[h] /\ sse[h] # s
      BY <1>1, <2>2 DEF UnregisterSSE, TypeOK, StreamInv, RegisteredStreamIsLive, HandlerInv
    <3>2. \A t \in Streams : t # s => streamPc'[t] = streamPc[t]
      BY <2>2 DEF UnregisterSSE, TypeOK
    <3>3. QED
      BY <1>1, <3>1, <3>2 DEF TypeOK, StreamInv, RegisteredStreamIsLive
  <2>3. QED
    BY <2>1, <2>2
<1>5. QED
  BY <1>1, <1>2, <1>3, <1>4 DEF StreamInv, HandedInv

LEMMA DrainInv ==
  ASSUME TypeOK, StreamInv, NEW h \in Hosts, Drain(h)
  PROVE  StreamInv'
<1>1. /\ handed' = [x \in Cmds |-> IF x \in Range(pending[h]) THEN handed[x] + 1
                                                              ELSE handed[x]]
      /\ pending' = [pending EXCEPT ![h] = <<>>]
      /\ UNCHANGED <<sse, owner, streamPc, streamHost, chan, drain>>
  BY DEF Drain, waiterVars, streamVars
<1>2. \A t \in Streams : \A x : InStream(t, x)' <=> InStream(t, x)
  BY <1>1 DEF InStream
<1>3. ASSUME NEW g \in Hosts PROVE PendingOnce(g)'
  <2>1. CASE g = h
    BY <1>1, <2>1, EmptyRange DEF TypeOK, PendingOnce
  <2>2. CASE g # h
    <3>1. pending'[g] = pending[g] /\ Range(pending[g]) \subseteq Cmds
      BY <1>1, <2>2, RangeOfSeq DEF TypeOK
    <3>2. \A x \in Range(pending[g]) : x \notin Range(pending[h])
      BY <2>2 DEF StreamInv, HandedOutOnce, PendingOnce
    <3>3. QED
      BY <1>1, <1>2, <3>1, <3>2 DEF StreamInv, HandedOutOnce, PendingOnce
  <2>3. QED
    BY <2>1, <2>2
<1>4. \A t \in Streams : StreamOnce(t)'
  BY <1>1, <1>2 DEF StreamInv, HandedOutOnce, StreamOnce, PendingOnce
<1>5. \A t \in Streams : HandlerInv(t)'
  BY <1>1 DEF StreamInv, HandlerInv
<1>6. RegisteredStreamIsLive' /\ HandedInv'
  BY <1>1, QueueAssumption
  DEF StreamInv, HandedInv, RegisteredStreamIsLive, HandedOutOnce, PendingOnce
<1>7. QED
  BY <1>3, <1>4, <1>5, <1>6 DEF StreamInv, HandedInv, HandedOutOnce

LEMMA StreamNext == TypeOK /\ DeliveryInv /\ StreamInv /\ [Next]_vars => StreamInv'
<1> SUFFICES ASSUME TypeOK, DeliveryInv, StreamInv, [Next]_vars PROVE StreamInv'
  OBVIOUS
<1>1. ASSUME UNCHANGED <<pending, sse, owner, streamVars, handed>> PROVE StreamInv'
  BY <1>1, StreamFrame
<1>2. CASE UNCHANGED vars
  BY <1>1, <1>2 DEF vars, queueVars, waiterVars
<1>3. ASSUME NEW d \in Calls, NEW h \in Hosts, NEW c \in Cmds, DeliverLookup(d, h, c)
      PROVE StreamInv'
  BY <1>1, <1>3 DEF DeliverLookup, queueVars, waiterVars
<1>4. ASSUME NEW d \in Calls, Deliver(d) PROVE StreamInv'
  BY <1>1, <1>4 DEF Deliver, DeliverCAS, DeliverSend, queueVars
<1>5. ASSUME NEW c \in Cmds, Dispatch(c) PROVE StreamInv'
  BY <1>1, <1>5
  DEF Dispatch, WaitLookup, WaitReceive, WaitTimer, WaitReturn, queueVars, waiterVars
<1>6. ASSUME NEW s \in Streams, Handler(s) \/ UnregisterSSE(s) PROVE StreamInv'
  BY <1>6, DrainSendInv, StreamCommandInv, ControlStepInv DEF Handler
<1>7. QED
  BY <1>2, <1>3, <1>4, <1>5, <1>6, EnqueueToStreamInv, EnqueueToPendingInv,
     RegisterSSEInv, DrainInv
  DEF Next

THEOREM StreamInvariant == Spec => []StreamInv
BY TypeCorrect, DeliveryInvariant, StreamInit, StreamNext, PTL DEF Spec

\* Through polls, streams, overflow and reconnects, no command is handed out
\* twice or to a host it was not enqueued for.
THEOREM HandOutCorrect == Spec => []HandedOutOnce
<1>1. StreamInv => HandedOutOnce
  BY DEF StreamInv, HandedInv
<1>2. QED
  BY <1>1, StreamInvariant, PTL

\* Enqueue's fast path sends only into a connection of the host still served.
THEOREM LiveStreamCorrect == Spec => []RegisteredStreamIsLive
<1>1. StreamInv => RegisteredStreamIsLive
  BY DEF StreamInv, HandedInv
<1>2. QED
  BY <1>1, StreamInvariant, PTL

\* Whatever the number of hosts and connections, a reconnecting agent's
\* registration blocks in its drain only behind a backlog of more commands for its
\* host than the channel holds.
THEOREM RegistrationCorrect ==
  ASSUME IsFiniteSet(Cmds)
  PROVE  Spec => []RegistrationBlocksOnlyOnBacklog
<1>1. TypeOK /\ StreamInv => RegistrationBlocksOnlyOnBacklog
  <2> SUFFICES ASSUME TypeOK, StreamInv, NEW s \in Streams,
                      drain[s] # <<>>, Len(chan[s]) >= ChanCap
               PROVE  Cardinality({c \in Cmds : owner[c] = streamHost[s] /\ handed[c] = 0})
                        > ChanCap
    BY DEF RegistrationBlocksOnlyOnBacklog
  <2> DEFINE W == {c \in Cmds : owner[c] = streamHost[s] /\ handed[c] = 0}
             q == chan[s] \o drain[s]
             m == ChanCap + 1
             f == [k \in 1..m |-> q[k]]
  <2>1. /\ chan[s] \in Seq(Cmds) /\ drain[s] \in Seq(Cmds) /\ Len(chan[s]) \in Nat
        /\ Len(drain[s]) \in Nat \ {0} /\ ChanCap \in Nat
        /\ DOMAIN chan[s] = 1..Len(chan[s]) /\ DOMAIN drain[s] = 1..Len(drain[s])
    BY QueueAssumption, EmptySeq, LenProperties DEF TypeOK
  <2>2. q \in Seq(Cmds) /\ Len(q) = Len(chan[s]) + Len(drain[s])
    BY <2>1, ConcatProperties
  <2>2a. \A k \in 1..Len(q) : q[k] = IF k <= Len(chan[s]) THEN chan[s][k]
                                     ELSE drain[s][k - Len(chan[s])]
    BY <2>1, <2>2, ConcatProperties
  <2> HIDE DEF q
  <2>2b. m <= Len(q) /\ m \in Nat
    <3>1. \A a, b, c \in Nat : a >= c /\ b # 0 => c + 1 <= a + b
      OBVIOUS
    <3>2. ChanCap + 1 <= Len(chan[s]) + Len(drain[s])
      BY <2>1, <3>1
    <3>3. m = ChanCap + 1
      BY DEF m
    <3>4. m \in Nat
      BY <2>1, <3>3
    <3>5. m <= Len(q)
      BY <2>2, <3>2, <3>3
    <3>6. QED
      BY <3>4, <3>5
  <2> HIDE DEF m
  <2>3. DOMAIN q = 1..Len(q) /\ 1..m \subseteq DOMAIN q
    <3>1. DOMAIN q = 1..Len(q) /\ Len(q) \in Nat
      BY <2>2, LenProperties
    <3>2. QED
      BY <2>2b, <3>1
  <2>4. ASSUME NEW k \in 1..m PROVE q[k] \in W
    <3>1. q[k] \in Cmds
      BY <2>2, <2>3, ElementOfSeq
    <3>2. q[k] \in Range(chan[s]) \union Range(drain[s])
      <4>1. k \in 1..Len(q) /\ k \in Nat
        BY <2>2b, <2>3
      <4>2. CASE k <= Len(chan[s])
        <5>1. k \in DOMAIN chan[s] /\ q[k] = chan[s][k]
          BY <2>1, <2>2a, <4>1, <4>2
        <5>2. QED
          BY <5>1 DEF Range
      <4>3. CASE ~(k <= Len(chan[s]))
        <5>1. k - Len(chan[s]) \in DOMAIN drain[s]
          <6>1. \A a, b, c \in Nat : a <= b + c /\ ~(a <= b) => a - b \in 1..c
            OBVIOUS
          <6>2. k <= Len(chan[s]) + Len(drain[s])
            <7>1. Len(q) \in Nat
              BY <2>2, LenProperties
            <7>2. k <= Len(q)
              BY <4>1, <7>1
            <7>3. QED
              BY <2>2, <7>2
          <6>3. QED
            BY <2>1, <4>1, <4>3, <6>1, <6>2
        <5>2. q[k] = drain[s][k - Len(chan[s])]
          BY <2>2a, <4>1, <4>3
        <5>3. QED
          BY <5>1, <5>2 DEF Range
      <4>4. QED
        BY <4>2, <4>3
    <3>3. QED
      BY <3>1, <3>2 DEF StreamInv, HandedOutOnce, StreamOnce, InStream
  <2>5. IsInjective(q)
    BY DEF StreamInv, HandedOutOnce, StreamOnce, q
  <2> HIDE DEF W
  <2>6. f \in Injection(1..m, W)
    BY <2>3, <2>4, <2>5 DEF Injection, IsInjective
  <2>7. IsFiniteSet(W)
    BY FS_Subset DEF W
  <2>8. Cardinality(1..m) <= Cardinality(W) /\ Cardinality(W) \in Nat
    BY <2>6, <2>7, FS_Injection, FS_CardinalityType
  <2>9. Cardinality(1..m) = m
    BY <2>2b, FS_Interval
  <2>10. Cardinality(W) > ChanCap
    BY <2>1, <2>8, <2>9 DEF m
  <2>11. QED
    BY <2>10 DEF W
<1>2. QED
  BY <1>1, TypeCorrect, StreamInvariant, PTL

\* A late unregister of a replaced connection leaves the newer one registered.
THEOREM NewerStreamCorrect == Spec => NewerStreamSurvives
<1>1. ASSUME TypeOK, StreamInv, [Next]_vars, NEW h \in Hosts,
             sse[h] # NoStream, sse'[h] = NoStream
      PROVE  streamPc[sse[h]] = "open" /\ streamPc'[sse[h]] = "closed"
  <2>1. PICK s \in Streams : UnregisterSSE(s)
    <3>1. ASSUME UNCHANGED sse PROVE FALSE
      BY <1>1, <3>1
    <3>2. ASSUME NEW s \in Streams, NEW g \in Hosts, RegisterSSE(s, g) PROVE FALSE
      BY <1>1, <3>2, QueueAssumption DEF RegisterSSE, TypeOK
    <3>3. QED
      BY <1>1, <3>1, <3>2
      DEF Next, vars, queueVars, EnqueueToStream, EnqueueToPending, Handler, DrainSend,
          RegisterReturn, StreamCommand, Drain, DeliverLookup, Deliver, DeliverCAS,
          DeliverSend, Dispatch, WaitLookup, WaitReceive, WaitTimer, WaitReturn
  <2>2. sse[h] = s /\ streamPc[s] = "open" /\ streamPc'[s] = "closed"
    BY <1>1, <2>1 DEF UnregisterSSE, TypeOK
  <2>3. QED
    BY <2>2
<1>2. TypeOK /\ StreamInv /\ [Next]_vars =>
        [\A h \in Hosts : sse[h] # NoStream /\ sse'[h] = NoStream =>
            streamPc[sse[h]] = "open" /\ streamPc'[sse[h]] = "closed"]_vars
  BY <1>1
<1>3. QED
  BY <1>2, TypeCorrect, StreamInvariant, PTL DEF Spec, NewerStreamSurvives

-----------------------------------------------------------------------------
(* Refinement: every step of the queue is a step of its contract or none.  *)

LEMMA OutcomeFrame ==
  ASSUME UNCHANGED <<owner, winner, waitPc, handed>>
  PROVE  UNCHANGED Contract!contractVars
BY DEF Contract!contractVars, Outcome

LEMMA OutcomeSame == ASSUME UNCHANGED waitPc PROVE Outcome' = Outcome
BY DEF Outcome

LEMMA ContractInit == Init => Contract!Init
<1> SUFFICES ASSUME Init PROVE Contract!Init
  OBVIOUS
<1>1. Outcome = [c \in Cmds |-> "none"]
  BY DEF Init, Outcome, OutcomeAt
<1>2. QED
  BY <1>1 DEF Init, Contract!Init

\* How a change of one dispatch's control state shows in the outcome.
LEMMA OutcomeStep ==
  ASSUME TypeOK, NEW c \in Cmds, NEW p, waitPc' = [waitPc EXCEPT ![c] = p]
  PROVE  /\ p = "enqueued" => Outcome' = [Outcome EXCEPT ![c] = "waiting"]
         /\ p = "received" => Outcome' = [Outcome EXCEPT ![c] = "result"]
         /\ p = "expired" => Outcome' = [Outcome EXCEPT ![c] = "timeout"]
         /\ waitPc[c] = "enqueued" /\ p = "select" => Outcome' = Outcome
         /\ waitPc[c] = "received" /\ p = "result" => Outcome' = Outcome
         /\ waitPc[c] = "expired" /\ p = "timeout" => Outcome' = Outcome
<1>1. Outcome' = [Outcome EXCEPT ![c] = OutcomeAt(p)]
  BY DEF TypeOK, Outcome
<1>2. OutcomeAt(p) = Outcome[c] => Outcome' = Outcome
  BY <1>1 DEF Outcome
<1>3. QED
  BY <1>1, <1>2 DEF Outcome, OutcomeAt

LEMMA ContractNext ==
  TypeOK /\ DeliveryInv /\ StreamInv /\ [Next]_vars
    => [Contract!Next]_(Contract!contractVars)
<1> SUFFICES ASSUME TypeOK, DeliveryInv, StreamInv, [Next]_vars
             PROVE  Contract!Next \/ UNCHANGED Contract!contractVars
  OBVIOUS
<1> USE DEF queueVars, waiterVars, streamVars, callVars, waitVars
<1>1. ASSUME NEW c \in Cmds, NEW h \in Hosts, EnqueueToStream(c, h) \/ EnqueueToPending(c, h)
      PROVE  Contract!Next
  <2>1. /\ waitPc[c] = "none" /\ waitPc' = [waitPc EXCEPT ![c] = "enqueued"]
        /\ owner' = [owner EXCEPT ![c] = h] /\ UNCHANGED <<winner, handed>>
    BY <1>1 DEF EnqueueToStream, EnqueueToPending, RecordWaiter
  <2>2. owner[c] = NoHost
    BY <2>1 DEF DeliveryInv, ResultInv
  <2>3. Contract!Assign(c, h)
    BY <2>1, <2>2, OutcomeStep DEF Contract!Assign
  <2>4. QED
    BY <2>3 DEF Contract!Next
<1>2. ASSUME NEW s \in Streams, StreamCommand(s) PROVE Contract!Next
  <2> DEFINE c == Head(chan[s])
  <2>1. /\ c \in Cmds /\ c \in Range(chan[s]) /\ streamPc[s] = "open"
        /\ handed' = [handed EXCEPT ![c] = @ + 1]
        /\ UNCHANGED <<owner, winner>> /\ UNCHANGED waitPc
    <3>1. chan[s] \in Seq(Cmds) /\ chan[s] # <<>>
      BY <1>2 DEF StreamCommand, TypeOK
    <3>2. c \in Cmds /\ Len(chan[s]) \in Nat \ {0} /\ c = chan[s][1]
      BY <3>1, HeadTailProperties, EmptySeq
    <3>3. DOMAIN chan[s] = 1..Len(chan[s])
      BY <3>1, LenProperties
    <3>4. c \in Range(chan[s])
      BY <3>2, <3>3 DEF Range
    <3>5. QED
      BY <1>2, <3>2, <3>4 DEF StreamCommand
  <2>2. owner[c] = streamHost[s] /\ handed[c] = 0 /\ streamHost[s] \in Hosts
    BY <2>1 DEF StreamInv, HandlerInv, HandedOutOnce, StreamOnce, InStream
  <2> HIDE DEF c
  <2>3. Outcome' = Outcome
    BY <2>1, OutcomeSame
  <2>4. handed' = [x \in Cmds |-> IF x \in {c} THEN 1 ELSE handed[x]]
    <3>1. handed \in [Cmds -> Nat]
      BY DEF TypeOK
    <3>2. handed[c] + 1 = 1
      BY <2>2
    <3>3. QED
      BY <2>1, <3>1, <3>2
  <2>5. Contract!Hand(streamHost[s], {c})
    BY <2>1, <2>2, <2>3, <2>4 DEF Contract!Hand
  <2>6. QED
    BY <2>1, <2>2, <2>5 DEF Contract!Next
<1>3. ASSUME NEW h \in Hosts, Drain(h) PROVE Contract!Next
  <2>1. Range(pending[h]) \in SUBSET Cmds
    BY RangeOfSeq DEF TypeOK
  <2>2. /\ handed' = [x \in Cmds |-> IF x \in Range(pending[h]) THEN handed[x] + 1
                                                                ELSE handed[x]]
        /\ UNCHANGED <<owner, winner, waitPc>>
    BY <1>3 DEF Drain
  <2>3. Outcome' = Outcome
    BY <2>2 DEF Outcome
  <2>4. Contract!Hand(h, Range(pending[h]))
    BY <2>2, <2>3 DEF Contract!Hand, StreamInv, HandedOutOnce, PendingOnce
  <2>5. QED
    BY <2>1, <2>4 DEF Contract!Next
<1>4. ASSUME NEW d \in Calls, DeliverCAS(d)
      PROVE  Contract!Next \/ UNCHANGED Contract!contractVars
  <2> DEFINE c == callCmd[d]
  <2>1. /\ c \in Cmds /\ callHost[d] \in Hosts /\ callHost[d] = owner[c]
        /\ UNCHANGED <<owner, waitPc, handed>>
    BY <1>4 DEF DeliverCAS, TypeOK, DeliveryInv, CallInv
  <2>2. CASE winner[c] = NoHost
    <3>1. winner' = [winner EXCEPT ![c] = owner[c]]
      BY <1>4, <2>1, <2>2 DEF DeliverCAS
    <3>2. Contract!Accept(c)
      BY <2>1, <2>2, <3>1, QueueAssumption DEF Contract!Accept, Outcome
    <3>3. QED
      BY <2>1, <3>2 DEF Contract!Next
  <2>3. CASE winner[c] # NoHost
    BY <1>4, <2>1, <2>3, OutcomeFrame DEF DeliverCAS
  <2>4. QED
    BY <2>2, <2>3
<1>5. ASSUME NEW c \in Cmds, WaitLookup(c) PROVE UNCHANGED Contract!contractVars
  <2>1. c \in waiters /\ waitPc[c] = "enqueued"
    BY <1>5 DEF WaitLookup, DeliveryInv, WaiterLifecycle
  <2>2. Outcome' = Outcome
    BY <1>5, <2>1, OutcomeStep DEF WaitLookup
  <2>3. QED
    BY <1>5, <2>2 DEF WaitLookup, Contract!contractVars
<1>6. ASSUME NEW c \in Cmds, WaitReceive(c) PROVE Contract!Next
  <2>1. winner[c] # NoHost
    BY <1>6 DEF WaitReceive, DeliveryInv, ResultInv
  <2>2. Outcome' = [Outcome EXCEPT ![c] = "result"]
    BY <1>6, OutcomeStep DEF WaitReceive
  <2>3. Outcome[c] = "waiting"
    BY <1>6 DEF WaitReceive, Outcome, OutcomeAt
  <2>4. Contract!Reply(c)
    BY <1>6, <2>1, <2>2, <2>3 DEF WaitReceive, Contract!Reply
  <2>5. QED
    BY <2>4 DEF Contract!Next
<1>7. ASSUME NEW c \in Cmds, WaitTimer(c) PROVE Contract!Next
  <2>1. Outcome' = [Outcome EXCEPT ![c] = "timeout"]
    BY <1>7, OutcomeStep DEF WaitTimer
  <2>2. Outcome[c] = "waiting"
    BY <1>7 DEF WaitTimer, Outcome, OutcomeAt
  <2>3. Contract!GiveUp(c)
    BY <1>7, <2>1, <2>2 DEF WaitTimer, Contract!GiveUp
  <2>4. QED
    BY <2>3 DEF Contract!Next
<1>8. ASSUME NEW c \in Cmds, WaitReturn(c) PROVE UNCHANGED Contract!contractVars
  <2>1. Outcome' = Outcome
    BY <1>8, OutcomeStep DEF WaitReturn
  <2>2. QED
    BY <1>8, <2>1 DEF WaitReturn, Contract!contractVars
<1>9. ASSUME UNCHANGED <<owner, winner, waitPc, handed>>
      PROVE  UNCHANGED Contract!contractVars
  BY <1>9, OutcomeFrame
<1>10. QED
  BY <1>1, <1>2, <1>3, <1>4, <1>5, <1>6, <1>7, <1>8, <1>9
  DEF Next, Handler, Deliver, Dispatch, RegisterSSE, DrainSend, RegisterReturn,
      UnregisterSSE, DeliverLookup, DeliverSend, vars

\* The detailed queue implements its contract: at most one hand-out and one
\* accepted result per command, from the right host, and one end of each wait.
THEOREM QueueImplementsContract == Spec => ImplementsContract
BY TypeCorrect, DeliveryInvariant, StreamInvariant, ContractInit, ContractNext, PTL
DEF Spec, ImplementsContract, Contract!Spec
=============================================================================
