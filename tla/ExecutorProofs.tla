----------------------------- MODULE ExecutorProofs -----------------------------
(***************************************************************************)
(* Proofs about the agent's executor, for any output limit, pipe capacity  *)
(* and size of the child's output.                                         *)
(***************************************************************************)
EXTENDS Executor, TLAPS

LEMMA InitType == Init => TypeOK
  BY ExecutorAssumption DEF Init, TypeOK

LEMMA NoPipeComputes == "computing" \notin Pipes
  BY DEF Pipes

\* One unit more is written, or read.
LEMMA OneMore ==
  ASSUME NEW w \in Nat, NEW g \in Nat, NEW k \in Nat, w - g \in 0..k
  PROVE  /\ w - g < k => (w + 1) - g \in 0..k
         /\ g < w => w - (g + 1) \in 0..k
  OBVIOUS

\* What is written into a pipe and read from it, from the type.
LEMMA Sizes ==
  ASSUME TypeOK, NEW p \in Pipes
  PROVE  /\ wrote[p] \in Nat /\ got[p] \in Nat
         /\ got[p] <= MaxOutput + 1 /\ wrote[p] - got[p] \in 0..PipeCap
  <1>1. wrote[p] \in 0..MaxWritten /\ got[p] \in Nat
    BY DEF TypeOK
  <1>2. got[p] <= MaxOutput + 1 /\ wrote[p] - got[p] \in 0..PipeCap
    BY DEF TypeOK
  <1>3. QED
    BY <1>1, <1>2, ExecutorAssumption

LEMMA NextType == TypeOK /\ [Next]_vars => TypeOK'
  <1> SUFFICES ASSUME TypeOK, [Next]_vars PROVE TypeOK'
    OBVIOUS
  <1> USE ExecutorAssumption DEF TypeOK
  <1>1. CASE UNCHANGED vars
    BY <1>1 DEF vars
  <1>2. ASSUME NEW p \in Pipes, BeginWrite(p) PROVE TypeOK'
    BY <1>2 DEF BeginWrite, AgentVars
  <1>3. ASSUME NEW p \in Pipes, Write(p) PROVE TypeOK'
    <2>1. wrote[p] < MaxWritten /\ wrote[p] - got[p] < PipeCap
      BY <1>3, NoPipeComputes DEF Write
    <2>2. wrote[p] \in Nat /\ got[p] \in Nat /\ wrote[p] - got[p] \in 0..PipeCap
      BY Sizes
    <2>3. wrote[p] + 1 \in 0..MaxWritten /\ (wrote[p] + 1) - got[p] \in 0..PipeCap
      <3> HIDE DEF TypeOK
      <3>1. (wrote[p] + 1) - got[p] \in 0..PipeCap
        BY <2>1, <2>2, OneMore
      <3>2. QED
        BY <2>1, <2>2, <3>1
    <2>4. wrote' = [wrote EXCEPT ![p] = wrote[p] + 1] /\ at' = "computing"
          /\ UNCHANGED <<child, open, pc, error, got, failed>>
      BY <1>3 DEF Write, AgentVars
    <2>5. wrote' \in [Pipes -> 0..MaxWritten]
      BY <2>3, <2>4
    <2>6. ASSUME NEW q \in Pipes PROVE wrote'[q] - got[q] \in 0..PipeCap
      BY <2>3, <2>4
    <2>7. QED
      BY <2>4, <2>5, <2>6
  <1>4. ASSUME NEW p \in Pipes, ClosePipe(p) PROVE TypeOK'
    BY <1>4 DEF ClosePipe, AgentVars
  <1>5. CASE Exit
    BY <1>5 DEF Exit, AgentVars
  <1>6. CASE Rejected \/ Spawn
    BY <1>6 DEF Rejected, Spawn
  <1>7. ASSUME NEW p \in Pipes, Read(p) PROVE TypeOK'
    <2>1. got[p] < wrote[p] /\ got[p] # MaxOutput + 1
      BY <1>7 DEF Read, ReadDone, Cap
    <2>2. /\ wrote[p] \in Nat /\ got[p] \in Nat
          /\ got[p] <= MaxOutput + 1 /\ wrote[p] - got[p] \in 0..PipeCap
      BY Sizes
    <2>3. wrote[p] - (got[p] + 1) \in 0..PipeCap
      BY <2>1, <2>2, OneMore
    <2>4. got[p] + 1 \in Nat /\ got[p] + 1 <= MaxOutput + 1
      <3> HIDE DEF TypeOK
      <3> QED
        BY <2>1, <2>2
    <2>5. got' = [got EXCEPT ![p] = got[p] + 1]
          /\ UNCHANGED <<pc, error, child, at, wrote, open, failed>>
      BY <1>7 DEF Read
    <2>6. got' \in [Pipes -> Nat]
      BY <2>4, <2>5
    <2>7. ASSUME NEW q \in Pipes
          PROVE  got'[q] <= MaxOutput + 1 /\ wrote[q] - got'[q] \in 0..PipeCap
      BY <2>3, <2>4, <2>5
    <2>8. QED
      BY <2>5, <2>6, <2>7
  <1>8. ASSUME NEW p \in Pipes, ReadFails(p) PROVE TypeOK'
    BY <1>8 DEF ReadFails
  <1>9. CASE ReadingDone \/ Timeout
    BY <1>9 DEF ReadingDone, Timeout
  <1>10. CASE Kill \/ Reap
    BY <1>10 DEF Kill, Reap
  <1>11. QED
    BY <1>1, <1>2, <1>3, <1>4, <1>5, <1>6, <1>7, <1>8, <1>9, <1>10 DEF Next, Child, Agent

\* Every reachable state is well typed: the agent never holds more than one unit
\* above its output limit, whatever the child writes.
THEOREM TypeCorrect == Spec => []TypeOK
  BY InitType, NextType, PTL DEF Spec

-----------------------------------------------------------------------------
(* The readers and the child.                                              *)

LEMMA InitReader == Init => ReaderInv
  BY DEF Init, ReaderInv, ChildIsGone

LEMMA NextReader == TypeOK /\ ReaderInv /\ [Next]_vars => ReaderInv'
  <1> SUFFICES ASSUME TypeOK, ReaderInv, [Next]_vars PROVE ReaderInv'
    OBVIOUS
  <1> USE DEF TypeOK, ReaderInv, ChildIsGone, ReadDone
  <1>1. CASE UNCHANGED vars
    BY <1>1 DEF vars
  <1>2. ASSUME NEW p \in Pipes, BeginWrite(p) PROVE ReaderInv'
    BY <1>2 DEF BeginWrite, AgentVars
  <1>3. ASSUME NEW p \in Pipes, Write(p) PROVE ReaderInv'
    <2>1. p \in open /\ child = "running"
      BY <1>3, NoPipeComputes DEF Write
    <2>2. ASSUME NEW q \in Pipes, ReadDone(q) PROVE ReadDone(q)'
      BY <1>3, <2>1, <2>2 DEF Write, AgentVars, Cap
    <2>3. QED
      BY <1>3, <2>1, <2>2 DEF Write, AgentVars
  <1>4. ASSUME NEW p \in Pipes, ClosePipe(p) PROVE ReaderInv'
    BY <1>4 DEF ClosePipe, AgentVars
  <1>5. CASE Exit
    BY <1>5 DEF Exit, AgentVars
  <1>6. CASE Rejected \/ Spawn
    BY <1>6 DEF Rejected, Spawn
  <1>7. ASSUME NEW p \in Pipes, Read(p) PROVE ReaderInv'
    BY <1>7 DEF Read
  <1>8. ASSUME NEW p \in Pipes, ReadFails(p) PROVE ReaderInv'
    BY <1>8 DEF ReadFails
  <1>9. CASE ReadingDone \/ Timeout
    BY <1>9 DEF ReadingDone, Timeout
  <1>10. CASE Kill \/ Reap
    BY <1>10 DEF Kill, Reap
  <1>11. QED
    BY <1>1, <1>2, <1>3, <1>4, <1>5, <1>6, <1>7, <1>8, <1>9, <1>10 DEF Next, Child, Agent

\* The inductive invariant: once a reader is done no output can reach its pipe
\* unread, and a child that has ended holds no pipe.
THEOREM ReaderInvariant == Spec => []ReaderInv
  <1>1. Init => ReaderInv
    BY InitReader
  <1>2. TypeOK /\ ReaderInv /\ [Next]_vars => ReaderInv'
    BY NextReader
  <1>3. QED
    BY <1>1, <1>2, TypeCorrect, PTL DEF Spec

\* A command's process does not outlive a verdict about its run.
THEOREM ChildCorrect == Spec => []ChildIsGone
  <1>1. ReaderInv => ChildIsGone
    BY DEF ReaderInv
  <1>2. QED
    BY <1>1, ReaderInvariant, PTL

\* A command that ran to its end is reported with all of its output, or said to
\* be truncated because there was more than max_output_bytes.
THEOREM OutputCorrect == Spec => []CompleteUnlessTruncated
  <1>1. TypeOK /\ ReaderInv => CompleteUnlessTruncated
    <2> SUFFICES ASSUME TypeOK, ReaderInv, error = "exited", NEW p \in Pipes
                 PROVE  /\ Truncated(p) <=> wrote[p] > MaxOutput
                        /\ ~Truncated(p) => got[p] = wrote[p]
      BY DEF CompleteUnlessTruncated
    <2>1. ReadDone(p) /\ got[p] \in Nat /\ wrote[p] \in Nat /\ got[p] <= wrote[p]
      BY ExecutorAssumption DEF TypeOK, ReaderInv
    <2>2. QED
      BY <2>1, ExecutorAssumption DEF ReadDone, Cap, Truncated
  <1>2. QED
    BY <1>1, TypeCorrect, ReaderInvariant, PTL
=============================================================================
