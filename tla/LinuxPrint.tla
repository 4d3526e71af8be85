----------------------------- MODULE LinuxPrint -----------------------------
(***************************************************************************)
(* Push delivery (linux_print_service.py, the handlers of /ws/gateway,     *)
(* print_watchdog.py): a worker claims a waiting job together with one     *)
(* transport to the connected gateway; a transport that was provably never *)
(* sent may be replaced, any other ends in a report or in uncertain.       *)
(*                                                                         *)
(* The gateway is external: lin is its local journal, which hands a job to *)
(* CUPS at most once (docs/multi-worker/multi-worker-phase4.md).           *)
(***************************************************************************)
EXTENDS PrintJob

CONSTANTS
    Protocols,  \* what the gateway negotiates in its hello
    MaxConn     \* bound: connections of the gateway

ASSUME LinuxPrintAssumption == Protocols \subseteq {1, 2} /\ Protocols # {} /\ MaxConn \in Nat \ {0}

VARIABLES
    conn,     \* agent_connection_id of the gateway, 0 when offline
    connects, \* connections so far
    proto,    \* column print_protocol
    route,    \* the gateway_message of each job: its state, connection, generation, requires_intent
    waiting,  \* dispatch() calls waiting for the outcome of the job
    lin       \* per job, the journal of the gateway

linuxVars == <<conn, connects, proto, route, waiting, lin>>

NoRoute == [state |-> "none", conn |-> 0, gen |-> 0, asks |-> FALSE]

InitLinux ==
    /\ conn = 0 /\ connects = 0 /\ proto = 1
    /\ route = [j \in Jobs |-> NoRoute]
    /\ waiting = {}
    /\ lin = [j \in Jobs |-> "none"]

\* got: received; approved: may be submitted; gave_up: never submitted; handed: CUPS
\* has it.
TypeOKLinux ==
    /\ conn \in 0 .. MaxConn /\ connects \in 0 .. MaxConn /\ proto \in {1, 2}
    /\ route \in [Jobs -> [state : {"none", "queued", "sending", "delivered", "failed", "expired"},
                           conn : 0 .. MaxConn, gen : 0 .. MaxGen, asks : BOOLEAN]]
    /\ waiting \subseteq Jobs
    /\ lin \in [Jobs -> {"none", "got", "approved", "gave_up", "handed", "finished"}]

others   == <<routed, cancels, printed>>
linkVars == <<conn, connects, proto>>

-----------------------------------------------------------------------------
(* The connection. *)

\* presence.begin() resets the protocol, the hello of the gateway sets it.
Connect ==
    /\ connects < MaxConn
    /\ connects' = connects + 1 /\ conn' = connects + 1 /\ proto' = 1
    /\ UNCHANGED <<jobVars, route, waiting, lin>>

Hello ==
    /\ conn # 0
    /\ \E p \in Protocols : p # proto /\ proto' = p
    /\ UNCHANGED <<jobVars, conn, connects, route, waiting, lin>>

Disconnect ==
    /\ conn # 0 /\ Fault
    /\ conn' = 0
    /\ UNCHANGED <<job, routed, owed, cancels, printed, connects, proto, route, waiting, lin>>

-----------------------------------------------------------------------------
(* Dispatch. *)

\* prepare(): status and transport in one transaction, under the locks of gateway
\* and row; dispatch() then waits for an outcome.
Prepare(j) ==
    /\ job[j].status = "queued" /\ job[j].delivery = "push" /\ ~routed[j] /\ conn # 0
    /\ LET g     == job[j].gen + 1
           asks  == proto >= 2
           token == IF asks THEN g ELSE job[j].token
       IN /\ job' = [job EXCEPT ![j].status = "sent", ![j].token = token, ![j].gen = g,
                                ![j].phase = IF token # 0 THEN "prepared" ELSE "dispatched"]
          /\ route' = [route EXCEPT ![j] = [state |-> "queued", conn |-> conn, gen |-> g,
                                            asks |-> asks]]
    /\ waiting' = waiting \cup {j}
    /\ UNCHANGED <<others, owed, faults, linkVars, lin>>

\* run_once(): an exception before a transport exists ends the job.
PrepareRaises(j) ==
    /\ job[j].status = "queued" /\ route[j].state = "none" /\ Fault
    /\ job' = [job EXCEPT ![j].status = "failed"]
    /\ UNCHANGED <<others, owed, linuxVars>>

\* _claim(): by the worker that has the socket of the connection.
ClaimRoute(j) ==
    /\ route[j].state = "queued"
    /\ \E expired \in BOOLEAN :
          route' = [route EXCEPT ![j].state =
                       IF conn = route[j].conn /\ ~expired THEN "sending" ELSE "expired"]
    /\ UNCHANGED <<jobVars, linkVars, waiting, lin>>

\* The send: it may fail after the gateway has got the message.  The gateway
\* ignores a job it knows.
Sent(j) ==
    /\ route[j].state = "sending"
    /\ \E ok, arrived \in BOOLEAN :
          /\ ok => arrived
          /\ Arrives(ok)
          /\ route' = [route EXCEPT ![j].state = IF ok THEN "delivered" ELSE "failed"]
          /\ conn' = IF ok THEN conn ELSE IF conn = route[j].conn THEN 0 ELSE conn
          /\ lin' = IF arrived /\ lin[j] = "none" THEN [lin EXCEPT ![j] = "got"] ELSE lin
    /\ UNCHANGED <<job, owed, others, connects, proto, waiting>>

\* dispatch() sees the failed transport.
MarkTransportUncertain(j) ==
    /\ j \in waiting /\ route[j].state = "failed" /\ job[j].status \in {"sent", "printing"}
    /\ job' = [job EXCEPT ![j].status = "uncertain"]
    /\ UNCHANGED <<others, owed, faults, linuxVars>>

\* dispatch() returns: after its 20 s, at a new status, or with its worker.
WaitEnds(j) ==
    /\ j \in waiting
    /\ waiting' = waiting \ {j}
    /\ owed' = IF job[j].status = "failed" THEN [owed EXCEPT ![j] = @ + 1] ELSE owed
    /\ UNCHANGED <<job, others, faults, linkVars, route, lin>>

\* reconcile(), under the lock of the row.
ReconcileQueued(j) ==
    /\ job[j].delivery = "push" /\ job[j].status = "queued"
    /\ job' = [job EXCEPT ![j].status = "failed"]
    /\ UNCHANGED <<others, owed, faults, linuxVars>>

Unsent(j) == route[j].state \in {"queued", "expired"}

ReconcileUnsent(j) ==
    /\ job[j].delivery = "push" /\ job[j].status \in {"sent", "printing"} /\ Unsent(j)
    /\ job' = [job EXCEPT ![j].status = IF job[j].gen < MaxPush THEN "queued" ELSE "failed"]
    /\ route' = [route EXCEPT ![j] = NoRoute]
    /\ UNCHANGED <<others, owed, faults, linkVars, waiting, lin>>

\* reconcile() after the deadline of the transport, or print_watchdog on a row that
\* has not changed for 30 minutes (escalate_stale_job).
ReconcileSilent(j) ==
    /\ job[j].delivery = "push" /\ job[j].status \in {"sent", "printing"}
    /\ job' = [job EXCEPT ![j].status = "uncertain"]
    /\ UNCHANGED <<others, owed, faults, linuxVars>>

-----------------------------------------------------------------------------
(* What the gateway sends. *)

ReceiveAck(j) ==
    /\ conn # 0 /\ lin[j] \notin {"none", "finished"}
    /\ job[j].delivery = "push" /\ job[j].status = "sent" /\ job[j].phase \in {"dispatched", "prepared"}
    /\ job' = [job EXCEPT ![j].phase = "received"]
    /\ UNCHANGED <<others, owed, faults, linuxVars>>

\* print_intent(), with the token and generation of the message, which have the
\* same number.
LinuxIntent(j) ==
    /\ lin[j] = "got" /\ route[j].asks /\ conn # 0
    /\ \E expired \in BOOLEAN :
       LET fenced  == /\ job[j].delivery = "push" /\ job[j].status = "sent"
                      /\ job[j].token = route[j].gen /\ job[j].gen = route[j].gen
           granted == fenced /\ ~expired /\ job[j].phase \in {"prepared", "received", "submitting"}
       IN /\ job' = IF granted THEN [job EXCEPT ![j].phase = "submitting"] ELSE job
          /\ \E answered \in BOOLEAN :
                /\ Arrives(answered)
                /\ lin' = IF ~answered THEN lin
                          ELSE [lin EXCEPT ![j] = IF granted THEN "approved" ELSE "finished"]
    /\ UNCHANGED <<others, owed, linkVars, route, waiting>>

\* An old gateway, or one that got the job in the old protocol, does not ask.
LinuxProceeds(j) ==
    /\ lin[j] = "got" /\ ~route[j].asks
    /\ lin' = [lin EXCEPT ![j] = "approved"]
    /\ UNCHANGED <<jobVars, linkVars, route, waiting>>

\* The artifact: a render error is recorded for the row, the gateway tries again
\* or gives up.
LinuxFetchFails(j) ==
    /\ lin[j] = "got" /\ Fault
    /\ \E rendered, again \in BOOLEAN :
          /\ job' = IF rendered THEN job ELSE [job EXCEPT ![j] = AfterRenderError(@)]
          /\ lin' = IF again THEN lin ELSE [lin EXCEPT ![j] = "gave_up"]
    /\ UNCHANGED <<others, owed, linkVars, route, waiting>>

LinuxSubmit(j) ==
    /\ lin[j] = "approved"
    /\ \/ lin' = [lin EXCEPT ![j] = "handed"] /\ printed' = [printed EXCEPT ![j] = @ + 1]
       \/ lin' = [lin EXCEPT ![j] = "gave_up"] /\ UNCHANGED printed
    /\ UNCHANGED <<job, routed, owed, cancels, faults, linkVars, route, waiting>>

LinuxReports(j) ==
    CASE lin[j] = "gave_up" -> [status : {"failed"}, proof : BOOLEAN]
      [] lin[j] = "handed"  -> [status : {"printing", "done", "failed", "uncertain"}, proof : {FALSE}]
      [] OTHER -> {}

\* _apply_job_status(), under the lock of the row.
StatusAfter(j, r) ==
    IF r.status = "failed" /\ ~(proto >= 2 /\ r.proof /\ job[j].phase # "spooled")
    THEN "uncertain" ELSE r.status

BugIgnored(j, r) == job[j].token # 0 /\ job[j].phase \in {"prepared", "received"} /\ r.status \in {"printing", "done"}
Ignored(j, r) ==
    \/ ~Live(j)
    \/ job[j].token # 0 /\ job[j].phase \in {"prepared", "received"} /\ r.status \in {"printing", "done"}

JobStatus(j, r) ==
    /\ conn # 0 /\ r \in LinuxReports(j)
    /\ IF Ignored(j, r) THEN UNCHANGED <<job, owed>>
       ELSE LET after == StatusAfter(j, r)
            IN /\ job' = [job EXCEPT ![j].status = after,
                                     ![j].phase = IF after \in {"printing", "done"} THEN "spooled" ELSE @]
               /\ owed' = IF after = "failed" THEN [owed EXCEPT ![j] = @ + 1] ELSE owed
    /\ \E acked \in BOOLEAN :
          /\ Arrives(acked)
          /\ lin' = IF acked /\ r.status # "printing" THEN [lin EXCEPT ![j] = "finished"] ELSE lin
    /\ UNCHANGED <<others, linkVars, route, waiting>>

CloudLinux(j) ==
    \/ Prepare(j) \/ PrepareRaises(j) \/ ClaimRoute(j) \/ Sent(j)
    \/ MarkTransportUncertain(j) \/ WaitEnds(j)
    \/ ReconcileQueued(j) \/ ReconcileUnsent(j) \/ ReconcileSilent(j)
    \/ ReceiveAck(j) \/ LinuxIntent(j) \/ (\E r \in LinuxReports(j) : JobStatus(j, r))

LocalLinux(j) == LinuxProceeds(j) \/ LinuxFetchFails(j) \/ LinuxSubmit(j)

NextLinux == Connect \/ Hello \/ Disconnect \/ \E j \in Jobs : CloudLinux(j) \/ LocalLinux(j)
=============================================================================
