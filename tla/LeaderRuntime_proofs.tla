------------------------ MODULE LeaderRuntime_proofs ------------------------
(***************************************************************************)
(* Theorems about LeaderRuntime, for every number of workers, loops and    *)
(* detached tasks.                                                         *)
(***************************************************************************)
EXTENDS LeaderRuntime, TLAPS

USE DEF workVars

-----------------------------------------------------------------------------
(* Types. *)

\* task.cancel() leaves every task in one of its states.
LEMMA CancelType ==
    ASSUME TypeOK, NEW w \in Worker, NEW T, CancelTasks(w, T)
    PROVE  /\ task' \in [Worker -> [Task -> TaskState]]
           /\ pool' \in [Worker -> [Task -> PoolState]]
           /\ remote' \in [Worker -> [Task -> RemoteState]]
           /\ executor' \in [Worker -> SUBSET Task]
<1>1. \A s \in TaskState : Cancelled(s) \in TaskState
    BY Zenon DEF Cancelled, TaskState
<1>2. task' \in [Worker -> [Task -> TaskState]]
    BY <1>1 DEF TypeOK, CancelTasks
<1>3. pool' \in [Worker -> [Task -> PoolState]]
    BY DEF TypeOK, CancelTasks, PoolState
<1> QED BY <1>2, <1>3 DEF TypeOK, CancelTasks

\* Every step of tasks, threads and shutdowns keeps the types.
LEMMA TypeStep == TypeOK /\ [Next]_vars => TypeOK'
<1> SUFFICES ASSUME TypeOK, [Next]_vars PROVE TypeOK'
    OBVIOUS
<1> USE DEF TypeOK, TaskState, PoolState, RemoteState, Life
<1>1. ASSUME NEW w \in Worker, TryLeadership(w) PROVE TypeOK'
    <2>1. task' \in [Worker -> [Task -> TaskState]]
        <3>1. CASE UNCHANGED task
            BY <3>1
        <3>2. CASE task' = [task EXCEPT ![w] = [t \in Task |-> IF t \in Root THEN "active" ELSE @[t]]]
            BY <3>2
        <3> QED BY <1>1, <3>1, <3>2 DEF TryLeadership
    <2>2. lock' \in Worker \cup {None} /\ leader' \in [Worker -> BOOLEAN]
        BY <1>1 DEF TryLeadership
    <2> QED BY <1>1, <2>1, <2>2 DEF TryLeadership
<1>2. ASSUME NEW w \in Worker, Stop(w) PROVE TypeOK'
    BY <1>2, CancelType DEF Stop
<1>3. ASSUME NEW w \in Worker, RootsEnded(w) PROVE TypeOK'
    BY <1>3 DEF RootsEnded
<1>4. ASSUME NEW w \in Worker, CancelChildren(w) PROVE TypeOK'
    BY <1>4, CancelType DEF CancelChildren
<1>5. ASSUME NEW w \in Worker, ChildrenEnded(w) PROVE TypeOK'
    BY <1>5 DEF ChildrenEnded
<1>6. ASSUME NEW w \in Worker, Release(w) PROVE TypeOK'
    BY <1>6 DEF Release
<1>7. ASSUME NEW w \in Worker, Crash(w) PROVE TypeOK'
    BY <1>7 DEF Crash
<1>8. ASSUME NEW w \in Worker, NEW t \in Task, CallThread(w, t) PROVE TypeOK'
    BY <1>8 DEF CallThread
<1>9. ASSUME NEW w \in Worker, NEW t \in Task, CallExecutor(w, t) PROVE TypeOK'
    <2>1. executor' \in [Worker -> SUBSET Task]
        BY <1>9 DEF CallExecutor
    <2>2. task' \in [Worker -> [Task -> TaskState]] /\ remote' \in [Worker -> [Task -> RemoteState]]
        <3>1. CASE task' = [task EXCEPT ![w][t] = "default"] /\ UNCHANGED remote
            BY <3>1
        <3>2. CASE remote' = [remote EXCEPT ![w][t] = "default"] /\ UNCHANGED task
            BY <3>2
        <3> QED BY <1>9, <3>1, <3>2 DEF CallExecutor
    <2> QED BY <1>9, <2>1, <2>2 DEF CallExecutor
<1>10. ASSUME NEW w \in Worker, NEW t \in Task, CallLoop(w, t) PROVE TypeOK'
    BY <1>10 DEF CallLoop
<1>11. ASSUME NEW w \in Worker, NEW t \in Task, Nest(w, t) PROVE TypeOK'
    BY <1>11 DEF Nest
<1>12. ASSUME NEW w \in Worker, NEW t \in Task, TaskReturns(w, t) PROVE TypeOK'
    BY <1>12 DEF TaskReturns
<1>13. ASSUME NEW w \in Worker, NEW t \in Task, NEW c \in Child, Spawn(w, t, c) PROVE TypeOK'
    BY <1>13 DEF Spawn, Task
<1>14. ASSUME NEW w \in Worker, NEW t \in Task, ThreadReturns(w, t) PROVE TypeOK'
    BY <1>14 DEF ThreadReturns
<1>15. ASSUME NEW w \in Worker, NEW t \in Task, ExecutorReturns(w, t) PROVE TypeOK'
    BY <1>15 DEF ExecutorReturns
<1>16. ASSUME NEW w \in Worker, NEW t \in Task, NestedReturns(w, t) PROVE TypeOK'
    BY <1>16 DEF NestedReturns
<1>17. ASSUME NEW w \in Worker, NEW t \in Task, LoopReturns(w, t) PROVE TypeOK'
    BY <1>17 DEF LoopReturns
<1>18. CASE UNCHANGED vars
    BY <1>18 DEF vars
<1> QED
    BY <1>1, <1>2, <1>3, <1>4, <1>5, <1>6, <1>7, <1>8, <1>9, <1>10, <1>11, <1>12, <1>13, <1>14,
       <1>15, <1>16, <1>17, <1>18 DEF Next, Shutdown, TaskStep, ThreadStep

\* Tasks, threads and the lifespan of every worker keep their types
\* (background_runtime.py, loop_thread_io.py).
THEOREM RuntimeTypeCorrect == Spec => []TypeOK
<1>1. Init => TypeOK
    BY DEF Init, TypeOK, TaskState, PoolState, RemoteState, Life
<1> QED BY <1>1, TypeStep, PTL DEF Spec

-----------------------------------------------------------------------------
(* Leader work runs under the lock. *)

Dead(w, t) == task[w][t] \in {"off", "ended"}

\* is_leader and the flock agree.
Leads == \A w \in Worker : leader[w] <=> lock = w

\* A pool thread has a task that waits for it, and a coroutine on the event loop
\* that is not cancelled has its pool thread: whoever awaits the tasks awaits them all.
Awaited ==
    \A w \in Worker, t \in Task :
        /\ pool[w][t] # None => task[w][t] \in {"thread", "draining"}
        /\ remote[w][t] \in {"running", "default", "nested"} => pool[w][t] # None

\* What has ended in each phase of the shutdown.
Phases ==
    \A w \in Worker :
        /\ life[w] \in {"children", "executor", "gone"} => \A t \in Root : Dead(w, t)
        /\ life[w] \in {"executor", "gone"} => \A t \in Child : Dead(w, t)
        /\ life[w] = "gone" => executor[w] = {}

\* Without the lock a worker has no tasks and no threads.
Locked == \A w \in Worker : lock # w => executor[w] = {} /\ \A t \in Task : Dead(w, t)

LockInv == Leads /\ Awaited /\ Phases /\ Locked

\* The steps of tasks and threads: no task comes to life and no thread is handed
\* to the executor except for a worker whose loops are alive.
WorkStep(w) ==
    /\ UNCHANGED <<lock, leader, life>>
    /\ \A x \in Worker, t \in Task : Dead(x, t) => Dead(x, t)' \/ (x = w /\ t \in Child)
    /\ \A x \in Worker : executor'[x] \subseteq executor[x] \/ x = w
    /\ \/ \E t \in Task : ~Dead(w, t)
       \/ /\ \A t \in Task : Dead(w, t) => Dead(w, t)'
          /\ executor'[w] \subseteq executor[w]

\* im_db_thread, to_thread and auf_event_loop keep the pool threads awaited.
LEMMA AwaitedStep ==
    ASSUME TypeOK, Awaited, NEW w \in Worker, NEW t \in Task, TaskStep(w, t) \/ ThreadStep(w, t)
    PROVE  Awaited'
<1> USE DEF TypeOK, Awaited, None
<1>1. CASE CallThread(w, t)
    BY <1>1 DEF CallThread
<1>2. CASE CallExecutor(w, t)
    <2>1. CASE task[w][t] = "active" /\ task' = [task EXCEPT ![w][t] = "default"] /\ UNCHANGED remote
        BY <1>2, <2>1 DEF CallExecutor
    <2>2. CASE remote[w][t] = "running" /\ remote' = [remote EXCEPT ![w][t] = "default"]
               /\ UNCHANGED task
        BY <1>2, <2>2 DEF CallExecutor
    <2> QED BY <1>2, <2>1, <2>2 DEF CallExecutor
<1>3. CASE CallLoop(w, t)
    BY <1>3 DEF CallLoop
<1>4. CASE Nest(w, t)
    BY <1>4 DEF Nest
<1>5. CASE TaskReturns(w, t)
    BY <1>5 DEF TaskReturns
<1>6. ASSUME NEW c \in Child, Spawn(w, t, c) PROVE Awaited'
    BY <1>6 DEF Spawn, Task
<1>7. CASE ThreadReturns(w, t)
    BY <1>7 DEF ThreadReturns
<1>8. CASE ExecutorReturns(w, t)
    BY <1>8 DEF ExecutorReturns
<1>9. CASE NestedReturns(w, t)
    BY <1>9 DEF NestedReturns
<1>10. CASE LoopReturns(w, t)
    BY <1>10 DEF LoopReturns
<1> QED BY <1>1, <1>2, <1>3, <1>4, <1>5, <1>6, <1>7, <1>8, <1>9, <1>10 DEF TaskStep, ThreadStep

\* Only a task that is alive, or the coroutine of its pool thread, starts work.
LEMMA WorkGrows ==
    ASSUME TypeOK, Awaited, NEW w \in Worker, NEW t \in Task, TaskStep(w, t) \/ ThreadStep(w, t)
    PROVE  WorkStep(w)
<1> USE DEF TypeOK, Awaited, WorkStep, Dead, None
<1>0. OnLoop(w, t) => ~Dead(w, t)
    BY DEF OnLoop
<1>1. CASE CallThread(w, t)
    BY <1>1 DEF CallThread
<1>2. CASE CallExecutor(w, t)
    <2>1. ~Dead(w, t)
        BY <1>0, <1>2 DEF CallExecutor, OnLoop
    <2>2. \A x \in Worker, u \in Task : Dead(x, u) => Dead(x, u)'
        <3>1. CASE task' = [task EXCEPT ![w][t] = "default"]
            BY <2>1, <3>1
        <3>2. CASE UNCHANGED task
            BY <3>2
        <3> QED BY <1>2, <3>1, <3>2 DEF CallExecutor
    <2>3. \A x \in Worker : executor'[x] \subseteq executor[x] \/ x = w
        BY <1>2 DEF CallExecutor
    <2> QED BY <1>2, <2>1, <2>2, <2>3 DEF CallExecutor
<1>3. CASE CallLoop(w, t)
    BY <1>3 DEF CallLoop
<1>4. CASE Nest(w, t)
    BY <1>4 DEF Nest
<1>5. CASE TaskReturns(w, t)
    BY <1>5 DEF TaskReturns
<1>6. ASSUME NEW c \in Child, Spawn(w, t, c) PROVE WorkStep(w)
    BY <1>0, <1>6 DEF Spawn, Task
<1>7. CASE ThreadReturns(w, t)
    BY <1>7 DEF ThreadReturns
<1>8. CASE ExecutorReturns(w, t)
    BY <1>8 DEF ExecutorReturns
<1>9. CASE NestedReturns(w, t)
    BY <1>9 DEF NestedReturns
<1>10. CASE LoopReturns(w, t)
    BY <1>10 DEF LoopReturns
<1> QED BY <1>1, <1>2, <1>3, <1>4, <1>5, <1>6, <1>7, <1>8, <1>9, <1>10 DEF TaskStep, ThreadStep

\* The work of tasks and threads stays within what the phases of the shutdown and
\* the lock allow: children need a task that is alive to detach them.
LEMMA WorkKeepsLock ==
    ASSUME TypeOK, LockInv, Awaited', NEW w \in Worker, WorkStep(w)
    PROVE  LockInv'
<1> USE DEF WorkStep
<1>1. Leads'
    BY DEF LockInv, Leads
<1>2. ASSUME NEW x \in Worker, \A t \in Task : Dead(x, t)
      PROVE  /\ \A t \in Task : Dead(x, t)'
             /\ executor'[x] \subseteq executor[x]
    <2>1. CASE x = w
        BY <1>2, <2>1, Zenon
    <2>2. CASE x # w
        BY <1>2, <2>2, Zenon
    <2> QED BY <2>1, <2>2
<1>3. Phases'
    <2> SUFFICES ASSUME NEW x \in Worker
                 PROVE  /\ life[x] \in {"children", "executor", "gone"} => \A t \in Root : Dead(x, t)'
                        /\ life[x] \in {"executor", "gone"} => \A t \in Child : Dead(x, t)'
                        /\ life[x] = "gone" => executor'[x] = {}
        BY Zenon DEF Phases
    <2>1. life[x] \in {"children", "executor", "gone"} => \A t \in Root : Dead(x, t)'
        BY TaskAssumption, Zenon DEF LockInv, Phases, Task
    <2>2. life[x] \in {"executor", "gone"} => \A t \in Task : Dead(x, t)
        BY Zenon DEF LockInv, Phases, Task
    <2>3. life[x] \in {"executor", "gone"} => \A t \in Child : Dead(x, t)'
        BY <1>2, <2>2, Zenon DEF Task
    <2>4. life[x] = "gone" => executor[x] = {}
        BY DEF LockInv, Phases
    <2> QED BY <1>2, <2>1, <2>2, <2>3, <2>4
<1>4. Locked'
    BY <1>2 DEF LockInv, Locked
<1> QED BY <1>1, <1>3, <1>4 DEF LockInv

\* Cancelling tasks revives none and leaves no pool thread without a task.
LEMMA CancelKeepsAwaited ==
    ASSUME TypeOK, Awaited, NEW w \in Worker, NEW T, CancelTasks(w, T)
    PROVE  /\ Awaited'
           /\ \A x \in Worker, t \in Task : Dead(x, t) => Dead(x, t)'
<1>1. Cancelled("thread") = "draining" /\ Cancelled("draining") = "draining"
    BY DEF Cancelled
<1>2. Cancelled("off") = "off" /\ Cancelled("ended") = "ended"
    BY DEF Cancelled
<1>3. \A x \in Worker, t \in Task :
        task'[x][t] = IF x = w /\ t \in T THEN Cancelled(task[x][t]) ELSE task[x][t]
    BY DEF TypeOK, CancelTasks
<1>4. \A x \in Worker, t \in Task :
        pool'[x][t] = IF x = w /\ t \in T /\ pool[x][t] # None THEN "aborting" ELSE pool[x][t]
    BY DEF TypeOK, CancelTasks
<1>5. remote' = remote
    BY DEF CancelTasks
<1>6. \A x \in Worker, t \in Task : Dead(x, t) => Dead(x, t)'
    BY <1>2, <1>3 DEF Dead
<1>7. Awaited'
    BY <1>1, <1>3, <1>4, <1>5 DEF Awaited, None
<1> QED BY <1>6, <1>7

\* The inductive step of LockInv.
LEMMA LockStep == TypeOK /\ LockInv /\ [Next]_vars => LockInv'
<1> SUFFICES ASSUME TypeOK, LockInv, [Next]_vars PROVE LockInv'
    OBVIOUS
<1> USE DEF LockInv
<1>1. ASSUME NEW w \in Worker, TryLeadership(w) PROVE LockInv'
    <2>1. lock = None /\ lock' = w /\ life[w] = "serving" /\ life' = life /\ executor' = executor
          /\ pool' = pool /\ remote' = remote
        BY <1>1 DEF TryLeadership
    <2>2. Leads'
        <3>1. leader'[w] /\ \A x \in Worker : x # w => leader'[x] = leader[x]
            BY <1>1 DEF TryLeadership, TypeOK
        <3>2. \A x \in Worker : ~leader[x]
            BY <2>1, WorkerAssumption DEF Leads
        <3> QED BY <2>1, <3>1, <3>2 DEF Leads
    <2>3. \A x \in Worker, t \in Task : x # w => task'[x][t] = task[x][t]
        BY <1>1 DEF TryLeadership, TypeOK
    <2>4. \A t \in Task : pool[w][t] = None
        BY <2>1, WorkerAssumption DEF Locked, Dead, Awaited, None
    <2>5. Awaited'
        BY <2>1, <2>3, <2>4 DEF Awaited
    <2>6. Phases'
        BY <2>1, <2>3 DEF Phases, Dead, Task
    <2>7. Locked'
        BY <2>1, <2>3, WorkerAssumption DEF Locked, Dead
    <2> QED BY <2>2, <2>5, <2>6, <2>7
<1>2. ASSUME NEW w \in Worker, Stop(w) \/ CancelChildren(w) PROVE LockInv'
    <2>1. PICK T : CancelTasks(w, T)
        BY <1>2 DEF Stop, CancelChildren
    <2>2. Awaited' /\ \A x \in Worker, t \in Task : Dead(x, t) => Dead(x, t)'
        BY <2>1, CancelKeepsAwaited
    <2>3. UNCHANGED <<lock, leader, executor>>
        BY <1>2 DEF Stop, CancelChildren, CancelTasks
    <2>4. \A x \in Worker : life'[x] = life[x] \/ life'[x] = "roots"
        BY <1>2 DEF Stop, CancelChildren, TypeOK
    <2>5. Phases'
        BY <2>2, <2>3, <2>4 DEF Phases, Task
    <2> QED BY <2>2, <2>3, <2>5 DEF Leads, Locked
<1>3. ASSUME NEW w \in Worker, RootsEnded(w) \/ ChildrenEnded(w) PROVE LockInv'
    <2>1. UNCHANGED <<lock, leader, workVars>>
        BY <1>3 DEF RootsEnded, ChildrenEnded
    <2>2. \A x \in Worker, t \in Task : Dead(x, t)' = Dead(x, t)
        BY <2>1 DEF Dead
    <2>3. CASE RootsEnded(w)
        <3>1. \A t \in Root : Dead(w, t)
            BY <2>3 DEF RootsEnded, Alive, Dead
        <3>2. life' = [life EXCEPT ![w] = "children"]
            BY <2>3 DEF RootsEnded
        <3>3. Phases'
            BY <2>1, <2>2, <3>1, <3>2 DEF Phases, TypeOK, Task
        <3> QED BY <2>1, <2>2, <3>3 DEF Leads, Locked, Awaited
    <2>4. CASE ChildrenEnded(w)
        <3>1. \A t \in Child : Dead(w, t)
            BY <2>4 DEF ChildrenEnded, Alive, Dead
        <3>2. life[w] = "children" /\ life' = [life EXCEPT ![w] = "executor"]
            BY <2>4 DEF ChildrenEnded
        <3>3. Phases'
            BY <2>1, <2>2, <3>1, <3>2 DEF Phases, TypeOK, Task
        <3> QED BY <2>1, <2>2, <3>3 DEF Leads, Locked, Awaited
    <2> QED BY <1>3, <2>3, <2>4
<1>4. ASSUME NEW w \in Worker, Release(w) PROVE LockInv'
    <2>1. life[w] = "executor" /\ life' = [life EXCEPT ![w] = "gone"] /\ UNCHANGED workVars
        BY <1>4 DEF Release
    <2>2. \A t \in Task : Dead(w, t)
        BY <2>1 DEF Phases, Task
    <2>3. executor[w] = {}
        BY <1>4 DEF Release, Drained, Leads, Locked
    <2>4. \A x \in Worker, t \in Task : Dead(x, t)' = Dead(x, t)
        BY <2>1 DEF Dead
    <2>5. Leads' /\ \A x \in Worker : lock' # x => lock # x \/ x = w
        BY <1>4, WorkerAssumption DEF Release, TypeOK, Leads
    <2>6. Phases'
        BY <2>1, <2>2, <2>3, <2>4 DEF Phases, TypeOK, Task
    <2>7. Locked'
        BY <2>1, <2>2, <2>3, <2>4, <2>5 DEF Locked
    <2> QED BY <2>1, <2>5, <2>6, <2>7 DEF Awaited
<1>5. ASSUME NEW w \in Worker, Crash(w) PROVE LockInv'
    <2>1. \A t \in Task : task'[w][t] = "off" /\ pool'[w][t] = None /\ remote'[w][t] = None
        BY <1>5 DEF Crash, TypeOK
    <2>2. executor'[w] = {} /\ life'[w] = "gone"
        BY <1>5 DEF Crash, TypeOK
    <2>3. \A x \in Worker : x # w =>
            task'[x] = task[x] /\ pool'[x] = pool[x] /\ remote'[x] = remote[x]
            /\ executor'[x] = executor[x] /\ life'[x] = life[x]
        BY <1>5 DEF Crash, TypeOK
    <2>4. Leads' /\ \A x \in Worker : lock' # x => lock # x \/ x = w
        BY <1>5, WorkerAssumption DEF Crash, TypeOK, Leads
    <2>5. Awaited'
        BY <2>1, <2>3 DEF Awaited, None
    <2>6. \A t \in Task : Dead(w, t)'
        BY <2>1 DEF Dead
    <2>7. \A x \in Worker, t \in Task : Dead(x, t) => Dead(x, t)'
        BY <2>3, <2>6 DEF Dead
    <2>8. Phases'
        BY <2>2, <2>3, <2>6, <2>7 DEF Phases, Task
    <2>9. Locked'
        BY <2>2, <2>3, <2>4, <2>6, <2>7 DEF Locked
    <2> QED BY <2>4, <2>5, <2>8, <2>9
<1>6. ASSUME NEW w \in Worker, NEW t \in Task, TaskStep(w, t) \/ ThreadStep(w, t) PROVE LockInv'
    BY <1>6, AwaitedStep, WorkGrows, WorkKeepsLock
<1>7. CASE UNCHANGED vars
    BY <1>7 DEF vars, Leads, Awaited, Phases, Locked, Dead
<1> QED
    BY <1>1, <1>2, <1>3, <1>4, <1>5, <1>6, <1>7 DEF Next, Shutdown

\* Loops, detached tasks, their pool threads and their threads of the default
\* executor run only in the worker that holds the lock (background_runtime.py,
\* "Ein Leader pro Host"; main.py drains before it releases the lock).
THEOREM WorkUnderLockHolds == Spec => []WorkUnderLock
<1>1. Init => LockInv
    <2> SUFFICES ASSUME Init PROVE LockInv
        OBVIOUS
    <2>1. Leads
        BY WorkerAssumption DEF Init, Leads
    <2>2. Awaited /\ Locked
        BY DEF Init, Awaited, Locked, Dead, None
    <2>3. Phases
        BY DEF Init, Phases, Task
    <2> QED BY <2>1, <2>2, <2>3 DEF LockInv
<1>2. TypeOK /\ LockInv => WorkUnderLock
    BY DEF LockInv, Locked, Awaited, Dead, WorkUnderLock, LeaderWork, Alive
<1> QED BY <1>1, <1>2, RuntimeTypeCorrect, LockStep, PTL DEF Spec
=============================================================================
