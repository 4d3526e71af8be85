----------------------------- MODULE AlarmPool -----------------------------
(***************************************************************************)
(* The alarm thread pool of a worker (ALARM_POOL in loop_thread_io.py) and *)
(* the passes of the alarm outbox that run on it.                          *)
(*                                                                         *)
(* im_db_thread() queues a function for the pool and waits for its result. *)
(* The queue is FIFO, a thread is kept until its function returns.  Every  *)
(* channel of an alarm holds a thread until it has a result; the mail      *)
(* sender hands its work back to the event loop, whose coroutine calls     *)
(* im_db_thread() again, for the same pool, while the thread waits.        *)
(***************************************************************************)
EXTENDS Naturals, Sequences, FiniteSets

CONSTANTS
    Pass,       \* runs of process_incident_alarm() in this worker
    Channel,    \* the channels of an alarm
    PoolSize,   \* threads of the pool, 12 in the code
    MaxCalls    \* bound: nested calls of one mail job

None    == "none"
Job     == Pass \X Channel
\* What is queued: listing and claiming the jobs of a pass, the sender of a
\* channel, a nested call of a sender, the closing check of an empty pass.
Item    == Pass \X (Channel \cup {None}) \X {"claim", "send", "nested", "finish"}
Send(j)   == <<j[1], j[2], "send">>
Nested(j) == <<j[1], j[2], "nested">>

ASSUME PoolAssumption == PoolSize \in Nat \ {0} /\ MaxCalls \in Nat \ {0}

VARIABLES
    queue,      \* the work queue of the executor
    running,    \* the items that hold a thread
    pass,       \* what each pass is doing
    place,      \* the place of each channel job
    rest        \* nested calls of a job that are still to come

vars == <<queue, running, pass, place, rest>>

\* waiting: the thread waits for a nested call; transport: for the SMTP server.
Places == {"off", "claimed", "queued", "sending", "waiting", "transport", "returned", "done"}

TypeOK ==
    /\ queue \in Seq(Item)
    /\ running \in SUBSET Item
    /\ pass \in [Pass -> {"idle", "claiming", "sending", "finishing", "done"}]
    /\ place \in [Job -> Places]
    /\ rest \in [Job -> 0 .. MaxCalls]

Init ==
    /\ queue = <<>> /\ running = {}
    /\ pass = [p \in Pass |-> "idle"]
    /\ place = [j \in Job |-> "off"]
    /\ rest = [j \in Job |-> 0]

-----------------------------------------------------------------------------
\* ThreadPoolExecutor: the oldest item gets the next free thread.
Free == Cardinality(running) < PoolSize

Start ==
    /\ queue # <<>> /\ Free
    /\ LET x == Head(queue) IN
        /\ running' = running \cup {x}
        /\ place' = [j \in Job |-> IF x = Send(j) THEN "sending" ELSE place[j]]
    /\ queue' = Tail(queue)
    /\ UNCHANGED <<pass, rest>>

\* process_incident_alarm() begins with _claim_incident_sync() in the pool.
Begin(p) ==
    /\ pass[p] = "idle"
    /\ pass' = [pass EXCEPT ![p] = "claiming"]
    /\ queue' = Append(queue, <<p, None, "claim">>)
    /\ UNCHANGED <<running, place, rest>>

\* The claimed jobs are run side by side, with none the alarm is closed.
ClaimDone(p) ==
    /\ <<p, None, "claim">> \in running
    /\ running' = running \ {<<p, None, "claim">>}
    /\ \E C \in SUBSET Channel :
        /\ place' = [j \in Job |-> IF j[1] = p /\ j[2] \in C THEN "claimed" ELSE place[j]]
        /\ IF C # {}
           THEN pass' = [pass EXCEPT ![p] = "sending"] /\ UNCHANGED queue
           ELSE /\ pass' = [pass EXCEPT ![p] = "finishing"]
                /\ queue' = Append(queue, <<p, None, "finish">>)
    /\ UNCHANGED rest

\* _run_claimed()
Submit(j) ==
    /\ place[j] = "claimed"
    /\ place' = [place EXCEPT ![j] = "queued"]
    /\ queue' = Append(queue, Send(j))
    /\ UNCHANGED <<running, pass, rest>>

\* dispatch_einsatzinfo_mail() prepares the chunks, records each of them and
\* closes the log, every time through im_db_thread(); the other senders use
\* the event loop and the default executor only.
BugNestingChannel == Channel
NestingChannel == {"mail"} \cap Channel

Nest(j) ==
    /\ place[j] = "sending" /\ j[2] \in NestingChannel
    /\ place' = [place EXCEPT ![j] = "waiting"]
    /\ \E n \in 1 .. MaxCalls : rest' = [rest EXCEPT ![j] = n]
    /\ queue' = Append(queue, Nested(j))
    /\ UNCHANGED <<running, pass>>

\* A nested call returns: a chunk is handed to the SMTP server, the log is
\* closed, or the sender has its result.
BugAfterNested(j) ==
    /\ rest' = [rest EXCEPT ![j] = @ + 1]
    /\ \E x \in {"transport", "waiting"} : place' = [place EXCEPT ![j] = x]
    /\ UNCHANGED queue
AfterNested(j) ==
    /\ rest' = [rest EXCEPT ![j] = @ - 1]
    /\ \/ rest[j] = 1 /\ place' = [place EXCEPT ![j] = "returned"] /\ UNCHANGED queue
       \/ rest[j] > 1 /\ place' = [place EXCEPT ![j] = "transport"] /\ UNCHANGED queue
       \/ rest[j] > 1 /\ queue' = Append(queue, Nested(j)) /\ UNCHANGED place

NestedDone(j) ==
    /\ Nested(j) \in running
    /\ running' = running \ {Nested(j)}
    /\ AfterNested(j)
    /\ UNCHANGED pass

\* mail_service.deliver() ended, its outcome is recorded.
TransportDone(j) ==
    /\ place[j] = "transport"
    /\ place' = [place EXCEPT ![j] = "waiting"]
    /\ queue' = Append(queue, Nested(j))
    /\ UNCHANGED <<running, pass, rest>>

\* The sender returns or raises, the result is written, the thread ends.
BugSendDone(j) ==
    /\ place[j] \in {"sending", "returned"}
    /\ place' = [place EXCEPT ![j] = "done"]
    /\ UNCHANGED <<queue, running, pass, rest>>
SendDone(j) ==
    /\ place[j] \in {"sending", "returned"}
    /\ place' = [place EXCEPT ![j] = "done"]
    /\ running' = running \ {Send(j)}
    /\ UNCHANGED <<queue, pass, rest>>

\* gather() returns when every channel has ended.
PassDone(p) ==
    /\ \/ /\ pass[p] = "sending"
          /\ \A c \in Channel : place[<<p, c>>] \in {"off", "done"}
          /\ UNCHANGED running
       \/ /\ <<p, None, "finish">> \in running
          /\ running' = running \ {<<p, None, "finish">>}
    /\ pass' = [pass EXCEPT ![p] = "done"]
    /\ UNCHANGED <<queue, place, rest>>

-----------------------------------------------------------------------------
JobStep(j) == Submit(j) \/ NestedDone(j) \/ TransportDone(j) \/ SendDone(j)

Next ==
    \/ Start
    \/ \E p \in Pass : Begin(p) \/ ClaimDone(p) \/ PassDone(p)
    \/ \E j \in Job : JobStep(j) \/ Nest(j)

\* Threads and the event loop keep running, senders have timeouts.
Fairness ==
    /\ WF_vars(Start)
    /\ \A p \in Pass : WF_vars(ClaimDone(p)) /\ WF_vars(PassDone(p))
    /\ \A j \in Job : WF_vars(JobStep(j))

Spec     == Init /\ [][Next]_vars
LiveSpec == Spec /\ Fairness

-----------------------------------------------------------------------------
\* Work that is queued gets a thread: one is free, or one of the threads works
\* or waits for something outside the pool (loop_thread_io.py: the pool is
\* there so that the channels of an alarm do not wait for other work).
PoolMoves ==
    queue = <<>> \/ Free
        \/ \E x \in running : \A j \in Job : x = Send(j) => place[j] # "waiting"

\* Every pass comes to an end, so every channel gets the result for which it
\* holds its thread.
PassesEnd == \A p \in Pass : pass[p] = "claiming" ~> pass[p] = "done"
=============================================================================
