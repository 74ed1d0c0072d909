---------------------------- MODULE RoundsProofs ----------------------------
(* Theorems about Rounds, for any number of threads, loops and sizes. *)
EXTENDS Rounds, FiniteSetTheorems, TLAPS

LEMMA NType == N \in Nat /\ N > 0
  BY TbsAssumption, FS_CardinalityType, FS_EmptySet DEF N

\* The number of threads that execute is a number.
LEMMA RunningFinite == IsFiniteSet(Running) /\ Cardinality(Running) \in Nat
  BY TbsAssumption, FS_Subset, FS_CardinalityType DEF Running

-----------------------------------------------------------------------------
\* The variables keep their types: no semaphore is taken below zero and main
\* counts no further than the number of its threads.
THEOREM TypeCorrect == Spec => []TypeOK
<1>1. Init => TypeOK
  BY NType, ProgramsAssumption DEF Init, TypeOK
<1>2. TypeOK /\ [Next]_vars => TypeOK'
  <2> SUFFICES ASSUME TypeOK, [Next]_vars PROVE TypeOK'
    OBVIOUS
  <2> USE NType, LoopsAssumption, ProgramsAssumption DEF TypeOK, Sweep
  <2>1. CASE PostToken
    BY <2>1 DEF PostToken
  <2>2. CASE Collect
    BY <2>2 DEF Collect, AfterRounds
  <2>3. CASE Report
    BY <2>3 DEF Report
  <2>4. CASE Resize
    BY <2>4 DEF Resize
  <2>5. CASE Join
    BY <2>5 DEF Join
  <2>6. ASSUME NEW t \in Tbs, Begin(t) PROVE TypeOK'
    BY <2>6 DEF Begin
  <2>7. ASSUME NEW t \in Tbs, Finish(t) PROVE TypeOK'
    BY <2>7 DEF Finish
  <2>8. ASSUME NEW t \in Tbs, ReadTotal(t) \/ WriteTotal(t) PROVE TypeOK'
    BY <2>8 DEF ReadTotal, WriteTotal
  <2>9. CASE UNCHANGED vars
    BY <2>9 DEF vars
  <2> QED
    BY <2>1, <2>2, <2>3, <2>4, <2>5, <2>6, <2>7, <2>8, <2>9
       DEF Next, Main, Thread, Ended
<1> QED
  BY <1>1, <1>2, PTL DEF Spec

-----------------------------------------------------------------------------
\* A thread that takes a token joins those that execute ...
LEMMA BeginGrows ==
  ASSUME NEW t \in Tbs, TypeOK, Begin(t)
  PROVE  Cardinality(Running') = Cardinality(Running) + 1
<1>1. Running' = Running \cup {t} /\ t \notin Running
  BY DEF Running, Begin, TypeOK
<1> QED
  BY <1>1, RunningFinite, FS_AddElement

\* ... and leaves them when it ends its execution.
LEMMA FinishShrinks ==
  ASSUME NEW t \in Tbs, TypeOK, Finish(t)
  PROVE  Cardinality(Running') = Cardinality(Running) - 1
<1>1. Running' = Running \ {t} /\ t \in Running
  <2>1. t \in Running
    BY DEF Running, Finish
  <2>2. at'[t] # "run"
    BY DEF Finish, TypeOK
  <2>3. \A u \in Tbs \ {t} : at'[u] = at[u]
    BY DEF Finish, TypeOK
  <2> QED
    BY <2>1, <2>2, <2>3 DEF Running
<1> QED
  BY <1>1, RunningFinite, FS_RemoveElement

\* No token is lost or forged, whichever threads take them.
THEOREM TokensAreBalanced == Spec => []TokensBalanced
<1>1. Init => TokensBalanced
  <2> SUFFICES ASSUME Init PROVE TokensBalanced
    OBVIOUS
  <2>1. Running = {}
    BY DEF Init, Running
  <2> QED
    BY <2>1, FS_EmptySet DEF Init, TokensBalanced, Outstanding
<1>2. TypeOK /\ TokensBalanced /\ [Next]_vars => TokensBalanced'
  <2> SUFFICES ASSUME TypeOK, TokensBalanced, [Next]_vars PROVE TokensBalanced'
    OBVIOUS
  <2> USE NType, RunningFinite DEF TokensBalanced, Outstanding, Sweep
  <2>0. ASSUME UNCHANGED at PROVE Running' = Running
    BY <2>0 DEF Running
  <2>1. CASE PostToken
    <3>1. Running' = Running
      BY <2>0, <2>1 DEF PostToken
    <3> QED
      BY <2>1, <3>1 DEF PostToken, TypeOK
  <2>2. CASE Collect
    <3>1. Running' = Running
      BY <2>0, <2>2 DEF Collect
    <3>2. mainSem' = mainSem - 1 /\ thSem' = thSem
      BY <2>2 DEF Collect
    <3>3. Outstanding' = Outstanding - 1
      BY <2>2 DEF Collect, AfterRounds, TypeOK
    <3> QED
      BY <3>1, <3>2, <3>3 DEF TypeOK
  <2>3. CASE Report
    <3>1. Running' = Running /\ UNCHANGED <<thSem, mainSem, count>>
      BY <2>0, <2>3 DEF Report
    <3>2. Outstanding' = Outstanding
      BY <2>3, <3>1 DEF Report, TypeOK
    <3> QED
      BY <3>1, <3>2
  <2>4. CASE Resize
    <3>1. Running' = Running /\ UNCHANGED <<thSem, mainSem, count>>
      BY <2>0, <2>4 DEF Resize
    <3>2. Outstanding' = Outstanding
      BY <2>4, <3>1 DEF Resize, TypeOK
    <3> QED
      BY <3>1, <3>2
  <2>5. CASE Join
    <3>1. Running' = Running /\ UNCHANGED <<thSem, mainSem, count>>
      BY <2>0, <2>5 DEF Join
    <3>2. Outstanding' = Outstanding
      BY <2>5, <3>1 DEF Join, TypeOK
    <3> QED
      BY <3>1, <3>2
  <2>6. ASSUME NEW t \in Tbs, Begin(t) PROVE TokensBalanced'
    <3>1. Cardinality(Running') = Cardinality(Running) + 1 /\ thSem' = thSem - 1 /\ mainSem' = mainSem
      BY <2>6, BeginGrows DEF Begin
    <3>2. Outstanding' = Outstanding
      BY <2>6 DEF Begin
    <3> QED
      BY <3>1, <3>2 DEF TypeOK
  <2>7. ASSUME NEW t \in Tbs, Finish(t) PROVE TokensBalanced'
    <3>1. Cardinality(Running') = Cardinality(Running) - 1 /\ mainSem' = mainSem + 1 /\ thSem' = thSem
      BY <2>7, FinishShrinks DEF Finish
    <3>2. Outstanding' = Outstanding
      BY <2>7 DEF Finish
    <3> QED
      BY <3>1, <3>2 DEF TypeOK
  <2>8. ASSUME NEW t \in Tbs, ReadTotal(t) \/ WriteTotal(t) PROVE TokensBalanced'
    <3>1. Running' = Running
      BY <2>8 DEF ReadTotal, WriteTotal, Running, TypeOK
    <3> QED
      BY <2>8, <3>1 DEF ReadTotal, WriteTotal
  <2>9. CASE UNCHANGED vars
    BY <2>0, <2>9 DEF vars
  <2> QED
    BY <2>1, <2>2, <2>3, <2>4, <2>5, <2>6, <2>7, <2>8, <2>9
       DEF Next, Main, Thread, Ended
<1> QED
  BY <1>1, <1>2, TypeCorrect, PTL DEF Spec

\* Between two rounds main has the rank, and its buffers, to itself: every
\* token is back, so that no thread executes or can start to.
THEOREM QuiescentBetweenRounds == Spec => []Quiescent
<1>1. TypeOK /\ TokensBalanced => Quiescent
  <2> SUFFICES ASSUME TypeOK, TokensBalanced, Alone
               PROVE  Running = {} /\ thSem = 0 /\ mainSem = 0
    BY DEF Quiescent
  <2>1. thSem + Cardinality(Running) + mainSem = 0
    BY DEF Alone, TokensBalanced, Outstanding, TypeOK
  <2>2. thSem = 0 /\ mainSem = 0 /\ Cardinality(Running) = 0
    BY <2>1, RunningFinite DEF TypeOK
  <2> QED
    BY <2>2, RunningFinite, FS_EmptySet
<1> QED
  BY <1>1, TypeCorrect, TokensAreBalanced, PTL
=============================================================================
