--------------------------- MODULE LeaderRuntime ---------------------------
(***************************************************************************)
(* The background work of the leader: background_runtime.py with the lock  *)
(* of leader_lock.py, the shutdown in the lifespan of main.py and the      *)
(* threads of loop_thread_io.py.                                           *)
(*                                                                         *)
(* The worker that holds the lock runs the loops (roots) and what they     *)
(* detach (children, create_leader_task).  A task works on the event loop, *)
(* or waits for a thread: im_db_thread() waits for its pool thread even    *)
(* when it is cancelled, to_thread() leaves its thread behind in the       *)
(* default executor.  A pool thread may hand a coroutine back to the event *)
(* loop (auf_event_loop), and that coroutine may use im_db_thread() again. *)
(***************************************************************************)
EXTENDS FiniteSets

CONSTANTS
    Worker,     \* the worker processes of the service
    Root,       \* the loops of _start_background_loops()
    Child       \* bound: the tasks a leader may detach, each once

None == "none"
Task == Root \cup Child

ASSUME WorkerAssumption == None \notin Worker
ASSUME TaskAssumption   == Root \cap Child = {}

VARIABLES
    lock,       \* the worker that holds the flock
    leader,     \* is_leader of each worker
    life,       \* how far the lifespan of each worker is
    task,       \* per worker and task
    pool,       \* the pool thread of a task
    remote,     \* the coroutine a pool thread handed to the event loop
    executor    \* tasks with a thread in the default executor

workVars == <<task, pool, remote, executor>>
vars     == <<lock, leader, life, workVars>>

\* draining: cancelled, waits for its pool thread.
TaskState   == {"off", "active", "thread", "default", "draining", "ended"}
\* aborting: told to stop, still on its way.
PoolState   == {None, "running", "calling", "aborting"}
\* nested, ending: a pool thread of its own runs; ending when cancelled.
RemoteState == {None, "running", "default", "nested", "ending"}
Life        == {"serving", "roots", "children", "executor", "gone"}

TypeOK ==
    /\ lock \in Worker \cup {None}
    /\ leader \in [Worker -> BOOLEAN]
    /\ life \in [Worker -> Life]
    /\ task \in [Worker -> [Task -> TaskState]]
    /\ pool \in [Worker -> [Task -> PoolState]]
    /\ remote \in [Worker -> [Task -> RemoteState]]
    /\ executor \in [Worker -> SUBSET Task]

Init ==
    /\ lock = None
    /\ leader = [w \in Worker |-> FALSE]
    /\ life = [w \in Worker |-> "serving"]
    /\ task = [w \in Worker |-> [t \in Task |-> "off"]]
    /\ pool = [w \in Worker |-> [t \in Task |-> None]]
    /\ remote = [w \in Worker |-> [t \in Task |-> None]]
    /\ executor = [w \in Worker |-> {}]

-----------------------------------------------------------------------------
(* Becoming leader. *)

\* try_leadership(), tried every two seconds until it succeeds.  When the loops
\* cannot be started the lock is kept and nothing runs.
TryLeadership(w) ==
    /\ life[w] = "serving" /\ ~leader[w]
    /\ lock = None
    /\ lock' = w
    /\ leader' = [leader EXCEPT ![w] = TRUE]
    /\ \/ task' = [task EXCEPT ![w] = [t \in Task |-> IF t \in Root THEN "active" ELSE @[t]]]
       \/ UNCHANGED task
    /\ UNCHANGED <<life, pool, remote, executor>>

-----------------------------------------------------------------------------
(* The work of tasks and threads. *)

\* Code of the leader runs on the event loop: a task, or a coroutine of a thread.
OnLoop(w, t) == task[w][t] = "active" \/ remote[w][t] = "running"

\* create_leader_task(): also a coroutine of a thread inherits the set of children.
Spawn(w, t, c) ==
    /\ OnLoop(w, t)
    /\ c \in Child /\ task[w][c] = "off"
    /\ task' = [task EXCEPT ![w][c] = "active"]
    /\ UNCHANGED <<lock, leader, life, pool, remote, executor>>

\* im_db_thread()
CallThread(w, t) ==
    /\ task[w][t] = "active" /\ pool[w][t] = None /\ remote[w][t] = None
    /\ task' = [task EXCEPT ![w][t] = "thread"]
    /\ pool' = [pool EXCEPT ![w][t] = "running"]
    /\ UNCHANGED <<lock, leader, life, remote, executor>>

\* asyncio.to_thread(), by a task or by the coroutine of its thread.
CallExecutor(w, t) ==
    /\ t \notin executor[w]
    /\ \/ /\ task[w][t] = "active"
          /\ task' = [task EXCEPT ![w][t] = "default"]
          /\ UNCHANGED remote
       \/ /\ remote[w][t] = "running"
          /\ remote' = [remote EXCEPT ![w][t] = "default"]
          /\ UNCHANGED task
    /\ executor' = [executor EXCEPT ![w] = @ \cup {t}]
    /\ UNCHANGED <<lock, leader, life, pool>>

ExecutorReturns(w, t) ==
    /\ t \in executor[w]
    /\ executor' = [executor EXCEPT ![w] = @ \ {t}]
    /\ task' = [task EXCEPT ![w][t] = IF @ = "default" THEN "active" ELSE @]
    /\ remote' = [remote EXCEPT ![w][t] = IF @ = "default" THEN "running" ELSE @]
    /\ UNCHANGED <<lock, leader, life, pool>>

\* auf_event_loop() in a pool thread, and the return of its coroutine.
CallLoop(w, t) ==
    /\ pool[w][t] = "running"
    /\ pool' = [pool EXCEPT ![w][t] = "calling"]
    /\ remote' = [remote EXCEPT ![w][t] = "running"]
    /\ UNCHANGED <<lock, leader, life, task, executor>>

LoopReturns(w, t) ==
    /\ remote[w][t] = "running" /\ pool[w][t] = "calling"
    /\ remote' = [remote EXCEPT ![w][t] = None]
    /\ pool' = [pool EXCEPT ![w][t] = "running"]
    /\ UNCHANGED <<lock, leader, life, task, executor>>

\* The coroutine uses im_db_thread() itself; once cancelled it ends with that thread.
Nest(w, t) ==
    /\ remote[w][t] = "running"
    /\ remote' = [remote EXCEPT ![w][t] = "nested"]
    /\ UNCHANGED <<lock, leader, life, task, pool, executor>>

NestedReturns(w, t) ==
    /\ remote[w][t] \in {"nested", "ending"}
    /\ remote' = [remote EXCEPT ![w][t] = IF @ = "nested" THEN "running" ELSE None]
    /\ UNCHANGED <<lock, leader, life, task, pool, executor>>

\* The pool thread ends: on its own, or because it was told to.  Its coroutine
\* is cancelled and not waited for.
ThreadReturns(w, t) ==
    /\ pool[w][t] \in {"running", "aborting"}
    /\ pool' = [pool EXCEPT ![w][t] = None]
    /\ remote' = [remote EXCEPT ![w][t] = IF @ = "nested" THEN "ending" ELSE None]
    /\ task' = [task EXCEPT ![w][t] = IF @ = "thread" THEN "active" ELSE "ended"]
    /\ UNCHANGED <<lock, leader, life, executor>>

\* A child is done, a loop that is switched off returns.  A loop that failed is
\* started again by supervised_loop() and stays active.
TaskReturns(w, t) ==
    /\ task[w][t] = "active"
    /\ task' = [task EXCEPT ![w][t] = "ended"]
    /\ UNCHANGED <<lock, leader, life, pool, remote, executor>>

-----------------------------------------------------------------------------
(* Shutdown. *)

\* task.cancel(): im_db_thread() tells its thread and waits for it, everything
\* else ends at its await.
BugCancelledName(s) == IF s \in {"active", "thread", "default"} THEN "cancelled" ELSE s
BugCancelledLate(s) == CASE s = "thread" -> "draining" [] s = "active" -> "ended" [] OTHER -> s
BugCancelled(s) == IF s \in {"active", "thread", "default"} THEN "ended" ELSE s
Cancelled(s) ==
    CASE s = "thread" -> "draining"
      [] s \in {"active", "default"} -> "ended"
      [] OTHER -> s

CancelTasks(w, T) ==
    /\ task' = [task EXCEPT ![w] = [t \in Task |-> IF t \in T THEN Cancelled(@[t]) ELSE @[t]]]
    /\ pool' = [pool EXCEPT ![w] =
            [t \in Task |-> IF t \in T /\ @[t] # None THEN "aborting" ELSE @[t]]]
    /\ UNCHANGED <<remote, executor>>

Alive(w, T) == {t \in T : task[w][t] \notin {"off", "ended"}}

\* stop_tasks(): the watcher and all loops are cancelled ...
Stop(w) ==
    /\ life[w] = "serving"
    /\ life' = [life EXCEPT ![w] = "roots"]
    /\ CancelTasks(w, Root)
    /\ UNCHANGED <<lock, leader>>

RootsEnded(w) ==
    /\ life[w] = "roots" /\ Alive(w, Root) = {}
    /\ life' = [life EXCEPT ![w] = "children"]
    /\ UNCHANGED <<lock, leader, workVars>>

\* ... then the children, batch by batch until none is left.  (alarm_outbox_loop
\* has cancelled and awaited its own ones already.)
CancelChildren(w) ==
    /\ life[w] = "children"
    /\ Alive(w, Child) # {}
    /\ \A c \in Child : task[w][c] # "draining"
    /\ CancelTasks(w, Child)
    /\ UNCHANGED <<lock, leader, life>>

ChildrenEnded(w) ==
    /\ life[w] = "children" /\ Alive(w, Child) = {}
    /\ life' = [life EXCEPT ![w] = "executor"]
    /\ UNCHANGED <<lock, leader, workVars>>

\* lifespan: a leader waits for its default executor, then the lock is free.
Drained(w) == leader[w] => executor[w] = {}

Release(w) ==
    /\ life[w] = "executor" /\ Drained(w)
    /\ life' = [life EXCEPT ![w] = "gone"]
    /\ lock' = IF lock = w THEN None ELSE lock
    /\ leader' = [leader EXCEPT ![w] = FALSE]
    /\ UNCHANGED workVars

\* The process dies, its threads with it, the kernel frees the lock.
Crash(w) ==
    /\ life[w] # "gone"
    /\ life' = [life EXCEPT ![w] = "gone"]
    /\ lock' = IF lock = w THEN None ELSE lock
    /\ leader' = [leader EXCEPT ![w] = FALSE]
    /\ task' = [task EXCEPT ![w] = [t \in Task |-> "off"]]
    /\ pool' = [pool EXCEPT ![w] = [t \in Task |-> None]]
    /\ remote' = [remote EXCEPT ![w] = [t \in Task |-> None]]
    /\ executor' = [executor EXCEPT ![w] = {}]

-----------------------------------------------------------------------------
ThreadStep(w, t) ==
    \/ ThreadReturns(w, t) \/ ExecutorReturns(w, t)
    \/ NestedReturns(w, t) \/ LoopReturns(w, t)

TaskStep(w, t) ==
    \/ CallThread(w, t) \/ CallExecutor(w, t) \/ CallLoop(w, t) \/ Nest(w, t)
    \/ TaskReturns(w, t) \/ \E c \in Child : Spawn(w, t, c)

Shutdown(w) ==
    \/ RootsEnded(w) \/ CancelChildren(w) \/ ChildrenEnded(w) \/ Release(w)

Next ==
    \E w \in Worker :
        \/ TryLeadership(w) \/ Stop(w) \/ Shutdown(w) \/ Crash(w)
        \/ \E t \in Task : TaskStep(w, t) \/ ThreadStep(w, t)

\* The watcher keeps trying, threads and coroutines come to an end, a shutdown
\* goes on.  No loop and no child has to end by itself.
Fairness ==
    \A w \in Worker :
        /\ WF_vars(TryLeadership(w)) /\ WF_vars(Shutdown(w))
        /\ \A t \in Task :
            /\ WF_vars(ThreadReturns(w, t)) /\ WF_vars(ExecutorReturns(w, t))
            /\ WF_vars(NestedReturns(w, t)) /\ WF_vars(LoopReturns(w, t))

Spec     == Init /\ [][Next]_vars
LiveSpec == Spec /\ Fairness

-----------------------------------------------------------------------------
\* Loops, children, their pool threads and default-executor threads run only
\* under the lock, so never in two workers (background_runtime.py, "Ein Leader
\* pro Host"; stop_tasks and the drain in lifespan before the release).
LeaderWork(w) ==
    \/ Alive(w, Task) # {}
    \/ executor[w] # {}
    \/ \E t \in Task : pool[w][t] # None
WorkUnderLock == \A w \in Worker : LeaderWork(w) => lock = w

\* An orderly shutdown ends and frees the lock, although loops never return by
\* themselves and children may be detached while it runs.
ShutdownEnds == \A w \in Worker : life[w] = "roots" ~> life[w] = "gone"
=============================================================================
