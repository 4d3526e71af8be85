-------------------------- MODULE AlarmPool_proofs --------------------------
(***************************************************************************)
(* Theorems about AlarmPool, for every number of passes and threads: with  *)
(* fewer nesting jobs than threads the pool cannot lock itself up.         *)
(***************************************************************************)
EXTENDS AlarmPool, FiniteSetTheorems, TLAPS

\* Fewer jobs than threads call back into the pool.
FewNest == IsFiniteSet(Pass \X NestingChannel)
           /\ Cardinality(Pass \X NestingChannel) < PoolSize

\* Every step of the pool and its passes keeps the types.
LEMMA TypeStep == TypeOK /\ [Next]_vars => TypeOK'
<1> SUFFICES ASSUME TypeOK, [Next]_vars PROVE TypeOK'
    OBVIOUS
<1> USE PoolAssumption
<1>1. ASSUME Start PROVE TypeOK'
  <2>1. Head(queue) \in Item /\ Tail(queue) \in Seq(Item)
    BY <1>1 DEF Start, TypeOK
  <2> QED BY <1>1, <2>1 DEF Start, TypeOK, Places
<1>2. ASSUME NEW p \in Pass, Begin(p) PROVE TypeOK'
    BY <1>2 DEF Begin, TypeOK, Item
<1>3. ASSUME NEW p \in Pass, ClaimDone(p) PROVE TypeOK'
  <2>1. PICK C \in SUBSET Channel :
            /\ place' = [j \in Job |-> IF j[1] = p /\ j[2] \in C THEN "claimed" ELSE place[j]]
            /\ IF C # {}
               THEN pass' = [pass EXCEPT ![p] = "sending"] /\ UNCHANGED queue
               ELSE /\ pass' = [pass EXCEPT ![p] = "finishing"]
                    /\ queue' = Append(queue, <<p, None, "finish">>)
    BY <1>3 DEF ClaimDone
  <2>2. place' \in [Job -> Places]
    BY <2>1 DEF TypeOK, Places
  <2>3. pass' \in [Pass -> {"idle", "claiming", "sending", "finishing", "done"}]
    BY <2>1 DEF TypeOK
  <2>4. <<p, None, "finish">> \in Item /\ queue \in Seq(Item)
    BY DEF Item, TypeOK
  <2>5. queue' = queue \/ queue' = Append(queue, <<p, None, "finish">>)
    BY <2>1
  <2>6. queue' \in Seq(Item)
    BY <2>4, <2>5
  <2> QED BY <1>3, <2>2, <2>3, <2>6 DEF ClaimDone, TypeOK
<1>4. ASSUME NEW p \in Pass, PassDone(p) PROVE TypeOK'
    BY <1>4 DEF PassDone, TypeOK
<1>5. ASSUME NEW j \in Job PROVE Send(j) \in Item /\ Nested(j) \in Item
    BY DEF Job, Item, Send, Nested
<1>6. ASSUME NEW j \in Job, Submit(j) PROVE TypeOK'
    BY <1>5, <1>6 DEF Submit, TypeOK, Places
<1>7. ASSUME NEW j \in Job, Nest(j) PROVE TypeOK'
  <2>1. PICK n \in 1 .. MaxCalls : rest' = [rest EXCEPT ![j] = n]
    BY <1>7 DEF Nest
  <2> QED BY <1>5, <1>7, <2>1 DEF Nest, TypeOK, Places
<1>8. ASSUME NEW j \in Job, NestedDone(j) PROVE TypeOK'
  <2>1. rest' = [rest EXCEPT ![j] = @ - 1] /\ rest[j] >= 1
    BY <1>8 DEF NestedDone, AfterNested, TypeOK
  <2>2. rest' \in [Job -> 0 .. MaxCalls]
    BY <2>1 DEF TypeOK
  <2>3. place' \in [Job -> Places]
    BY <1>8 DEF NestedDone, AfterNested, TypeOK, Places
  <2>4. queue' = queue \/ queue' = Append(queue, Nested(j))
    BY <1>8 DEF NestedDone, AfterNested
  <2>5. Nested(j) \in Item /\ queue \in Seq(Item)
    BY <1>5 DEF TypeOK
  <2>6. queue' \in Seq(Item)
    BY <2>4, <2>5
  <2> QED BY <1>8, <2>2, <2>3, <2>6 DEF NestedDone, TypeOK
<1>9. ASSUME NEW j \in Job, TransportDone(j) PROVE TypeOK'
    BY <1>5, <1>9 DEF TransportDone, TypeOK, Places
<1>10. ASSUME NEW j \in Job, SendDone(j) PROVE TypeOK'
    BY <1>10 DEF SendDone, TypeOK, Places
<1>11. CASE UNCHANGED vars
    BY <1>11 DEF vars, TypeOK
<1> QED BY <1>1, <1>2, <1>3, <1>4, <1>6, <1>7, <1>8, <1>9, <1>10, <1>11 DEF Next, JobStep

\* The queue, the threads and the places of the jobs keep their types
\* (im_db_thread, _run_claimed, dispatch_einsatzinfo_mail).
THEOREM PoolTypeCorrect == Spec => []TypeOK
<1>1. Init => TypeOK
    BY PoolAssumption DEF Init, TypeOK, Places
<1> QED BY <1>1, TypeStep, PTL DEF Spec

-----------------------------------------------------------------------------
\* The strengthening: threads are counted correctly, and whoever waits for a
\* nested call is a job of a nesting channel.
NestersWait == \A j \in Job : place[j] \in {"waiting", "transport"} \/ rest[j] # 0
                    => j \in Pass \X NestingChannel
PoolInv ==
    /\ IsFiniteSet(running) /\ Cardinality(running) <= PoolSize
    /\ NestersWait

\* A thread that ends leaves no more threads in use than before.
LEMMA Shrink ==
    ASSUME IsFiniteSet(running), Cardinality(running) <= PoolSize, NEW x,
           running' = running \ {x}
    PROVE  IsFiniteSet(running') /\ Cardinality(running') <= PoolSize
<1>1. Cardinality(running) \in Nat /\ PoolSize \in Nat
    BY FS_CardinalityType, PoolAssumption
<1>2. IsFiniteSet(running') /\ Cardinality(running') \in Nat
      /\ Cardinality(running') <= Cardinality(running)
    BY FS_Subset, FS_CardinalityType
<1> QED BY <1>1, <1>2

\* The invariant of the pool is inductive.
LEMMA PoolStep == TypeOK /\ PoolInv /\ [Next]_vars => PoolInv'
<1> SUFFICES ASSUME TypeOK, PoolInv, [Next]_vars PROVE PoolInv'
    OBVIOUS
<1> USE DEF PoolInv
<1>1. ASSUME Start PROVE PoolInv'
  <2>1. running' = running \cup {Head(queue)}
    BY <1>1 DEF Start
  <2>2. Cardinality(running) \in Nat /\ PoolSize \in Nat /\ Cardinality(running) < PoolSize
    BY <1>1, FS_CardinalityType, PoolAssumption DEF Start, Free
  <2>3. IsFiniteSet(running') /\ (Cardinality(running') = Cardinality(running)
                                  \/ Cardinality(running') = Cardinality(running) + 1)
    BY <2>1, FS_AddElement
  <2>4. Cardinality(running') <= PoolSize
    BY <2>2, <2>3
  <2>5. NestersWait'
    BY <1>1 DEF Start, NestersWait, TypeOK
  <2> QED BY <2>3, <2>4, <2>5
<1>2. ASSUME NEW p \in Pass, Begin(p) PROVE PoolInv'
    BY <1>2 DEF Begin, NestersWait
<1>3. ASSUME NEW p \in Pass, ClaimDone(p) PROVE PoolInv'
  <2>1. NestersWait'
    BY <1>3 DEF ClaimDone, NestersWait, TypeOK
  <2> QED BY <1>3, <2>1, Shrink DEF ClaimDone
<1>4. ASSUME NEW p \in Pass, PassDone(p) PROVE PoolInv'
  <2>1. NestersWait'
    BY <1>4 DEF PassDone, NestersWait
  <2> QED BY <1>4, <2>1, Shrink DEF PassDone
<1>5. ASSUME NEW j \in Job, Submit(j) PROVE PoolInv'
    BY <1>5 DEF Submit, NestersWait, TypeOK
<1>6. ASSUME NEW j \in Job, Nest(j) PROVE PoolInv'
    BY <1>6 DEF Nest, NestersWait, TypeOK, Job
<1>7. ASSUME NEW j \in Job, NestedDone(j) PROVE PoolInv'
  <2>1. rest[j] >= 1 /\ rest' = [rest EXCEPT ![j] = @ - 1]
    BY <1>7 DEF NestedDone, AfterNested, TypeOK
  <2>2. j \in Pass \X NestingChannel
    BY <2>1 DEF NestersWait
  <2>3. \A k \in Job : k # j => place'[k] = place[k] /\ rest'[k] = rest[k]
    BY <1>7, <2>1 DEF NestedDone, AfterNested, TypeOK
  <2>4. NestersWait'
    BY <2>2, <2>3 DEF NestersWait
  <2> QED BY <1>7, <2>4, Shrink DEF NestedDone
<1>8. ASSUME NEW j \in Job, TransportDone(j) PROVE PoolInv'
    BY <1>8 DEF TransportDone, NestersWait, TypeOK
<1>9. ASSUME NEW j \in Job, SendDone(j) PROVE PoolInv'
  <2>1. NestersWait'
    BY <1>9 DEF SendDone, NestersWait, TypeOK
  <2> QED BY <1>9, <2>1, Shrink DEF SendDone
<1>10. CASE UNCHANGED vars
    BY <1>10 DEF vars, NestersWait
<1> QED BY <1>1, <1>2, <1>3, <1>4, <1>5, <1>6, <1>7, <1>8, <1>9, <1>10 DEF Next, JobStep

\* Fewer nesting jobs than threads: no thread pool is ever filled with threads
\* that wait for the pool (the 12 threads of ALARM_POOL bear 11 mail jobs).
THEOREM PoolMovesHolds == ASSUME FewNest PROVE Spec => []PoolMoves
<1>1. Init => PoolInv
  <2>1. PoolSize \in Nat
    BY PoolAssumption
  <2> QED BY <2>1, FS_EmptySet DEF Init, PoolInv, NestersWait
<1>2. TypeOK /\ PoolInv => PoolMoves
  <2> SUFFICES ASSUME TypeOK, PoolInv, ~PoolMoves PROVE FALSE
    OBVIOUS
  <2> DEFINE Mail == Pass \X NestingChannel
             F == [x \in running |-> <<x[1], x[2]>>]
  <2>1. Cardinality(running) \in Nat /\ PoolSize \in Nat /\ ~(Cardinality(running) < PoolSize)
    BY FS_CardinalityType, PoolAssumption DEF PoolMoves, Free, PoolInv
  <2>2. \A x \in running : \E j \in Mail : x = <<j[1], j[2], "send">>
    BY DEF PoolMoves, PoolInv, NestersWait, Send
  <2>3. F \in Injection(running, Mail)
    <3>1. \A x \in running : <<x[1], x[2]>> \in Mail /\ x = <<x[1], x[2], "send">>
      BY <2>2
    <3> QED BY <3>1 DEF Injection, IsInjective
  <2>4. IsFiniteSet(Mail) /\ Cardinality(Mail) < PoolSize /\ Cardinality(Mail) \in Nat
    BY FS_CardinalityType DEF FewNest
  <2>5. Cardinality(running) <= Cardinality(Mail)
    BY <2>3, <2>4, FS_Injection
  <2> QED BY <2>1, <2>4, <2>5
<1> QED BY <1>1, <1>2, PoolStep, PoolTypeCorrect, PTL DEF Spec
=============================================================================
