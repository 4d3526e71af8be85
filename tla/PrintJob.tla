------------------------------ MODULE PrintJob ------------------------------
(***************************************************************************)
(* The rows of print_job and what any worker, renderer or user does to     *)
(* them whatever their delivery (print_dispatcher.py, gateway_api.py,      *)
(* ui_gateway.py): replacement of a failed job, render errors,             *)
(* cancellation, resolution, and the move of a waiting job from push to    *)
(* lease delivery.  PrintAgent and LinuxPrint add the two deliveries,      *)
(* PrintSystem composes them.                                              *)
(*                                                                         *)
(* attempts and lease_generation are raised by the same two statements, so *)
(* gen stands for both; a lease_token is drawn with each generation and is *)
(* modelled by its number, 0 for NULL.  Time is not modelled: a deadline   *)
(* (queued_at, lease_expires_at, agent_contact_at, expires_at) may have    *)
(* passed whenever the code looks at it.                                   *)
(***************************************************************************)
EXTENDS Naturals, FiniteSets

CONSTANTS
    Jobs,         \* bound: rows of print_job, the first order and its successors
    Original,     \* the row that exists at the start
    Agents,       \* Windows print agents
    Routes,       \* per job, the agents with a route to its printer
    Routed,       \* sets of jobs whose routes may be active at the start
    Linux,        \* the Linux gateway
    None,         \* NULL
    Cancelled,    \* bound: jobs a user may cancel
    MaxAttempts,  \* MAX_AGENT_ATTEMPTS
    MaxPush,      \* transports of a push job
    MaxFaults     \* bound: crashes, lost answers and lost calls

JOB_TERMINAL == {"done", "failed", "canceled"}
ENDED        == JOB_TERMINAL \cup {"uncertain"}
HANDED_OVER  == {"submitting", "spooled"}
Holders      == Agents \cup {Linux}
MaxGen       == IF MaxPush > MaxAttempts THEN MaxPush ELSE MaxAttempts

ASSUME PrintJobAssumption ==
    /\ Original \in Jobs /\ IsFiniteSet(Jobs)
    /\ None \notin Jobs \cup Holders /\ Linux \notin Agents
    /\ Routes \in [Jobs -> SUBSET Agents] /\ Routed \subseteq SUBSET Jobs
    /\ MaxAttempts \in Nat \ {0} /\ MaxPush \in Nat \ {0} /\ MaxFaults \in Nat

VARIABLES
    job,      \* the rows
    routed,   \* per job, its printer has an active agent route
    owed,     \* pending calls of dispatch_fallback_for_failed_job, per job
    cancels,  \* cancel requests that have read a row that was not terminal
    printed,  \* how often the job was handed to a spooler
    faults    \* faults so far

jobVars == <<job, routed, owed, cancels, printed, faults>>

Row == [status : ENDED \cup {"absent", "queued", "sent", "printing"},
        phase : HANDED_OVER \cup {None, "leased", "fetching", "dispatched", "prepared", "received"},
        delivery : {"lease", "push"}, source : {"rule", "manual"}, parent : Jobs \cup {None},
        token : 0 .. MaxGen, gen : 0 .. MaxGen, holder : Agents \cup {None},
        ref : BOOLEAN]

NewRow(status, source, parent, lease) ==
    [status |-> status, phase |-> None, delivery |-> IF lease THEN "lease" ELSE "push",
     source |-> source, parent |-> parent, token |-> 0, gen |-> 0, holder |-> None,
     ref |-> FALSE]

\* A rule has ordered the original; printers have agent routes or not.
InitJobs ==
    /\ \E on \in Routed : routed = [j \in Jobs |-> j \in on]
    /\ job = [j \in Jobs |-> NewRow(IF j = Original THEN "queued" ELSE "absent", "rule", None,
                                    routed[j])]
    /\ owed = [j \in Jobs |-> 0]
    /\ cancels = {} /\ faults = 0
    /\ printed = [j \in Jobs |-> 0]

TypeOKJobs ==
    /\ job \in [Jobs -> Row]
    /\ routed \in [Jobs -> BOOLEAN]
    /\ owed \in [Jobs -> Nat]
    /\ cancels \subseteq Jobs
    /\ printed \in [Jobs -> Nat]
    /\ faults \in 0 .. MaxFaults

Fault == faults < MaxFaults /\ faults' = faults + 1

\* A message, answer or call of which the sender cannot tell whether it
\* arrived: arrives, or is lost at the price of a fault.
Arrives(ok) == IF ok THEN faults' = faults ELSE Fault

Live(j) == job[j].status \notin ENDED \cup {"absent"}

-----------------------------------------------------------------------------
(* Replacement jobs. *)

\* create_print_job() for a successor of j: the idempotency key of the source
\* names the parent, so the second caller gets the row that exists.
Successors(j, source) == {k \in Jobs : job[k].parent = j /\ job[k].source = source}

CreateJob(rows, j, source) ==
    IF Successors(j, source) # {} THEN job' = rows
    ELSE \E k \in Jobs :
            /\ job[k].status = "absent"
            /\ job' = [rows EXCEPT ![k] = NewRow("queued", source, j, routed[k])]

\* _dispatch_fallback_for_failed_job_sync(): only for a failed job of a rule
\* that is not itself a replacement.
MayBeReplaced(j) == job[j].status = "failed" /\ job[j].source = "rule" /\ job[j].parent = None

DispatchFallback(j) ==
    /\ owed[j] > 0
    /\ owed' = [owed EXCEPT ![j] = @ - 1]
    /\ IF MayBeReplaced(j) THEN CreateJob(job, j, "rule") ELSE UNCHANGED job
    /\ UNCHANGED <<routed, cancels, printed, faults>>

\* A worker dies with a call it had still to make.
FallbackLost(j) ==
    /\ owed[j] > 0
    /\ owed' = [owed EXCEPT ![j] = @ - 1]
    /\ Fault
    /\ UNCHANGED <<job, routed, cancels, printed>>

-----------------------------------------------------------------------------
(* Users and renderers. *)

\* cancel_print_job() reads the row without a lock ...
CancelRead(j) ==
    /\ job[j].status \notin JOB_TERMINAL \cup {"absent"}
    /\ j \in Cancelled \ cancels
    /\ cancels' = cancels \cup {j}
    /\ UNCHANGED <<job, routed, owed, printed, faults>>

\* ... and writes the status it has decided on by primary key.
CancelWrite(j) ==
    /\ j \in cancels
    /\ cancels' = cancels \ {j}
    /\ job' = [job EXCEPT ![j].status = "canceled"]
    /\ UNCHANGED <<routed, owed, printed, faults>>

Actions == {"reprint", "done", "discard"}

\* resolve_uncertain_job(), under a row lock.
Resolve(j, action) ==
    /\ job[j].status \in {"uncertain"} \cup (IF action = "reprint" THEN {"failed"} ELSE {})
    /\ LET rows == [job EXCEPT ![j].status = IF action = "done" THEN "done" ELSE "canceled"]
       IN IF action = "reprint" THEN CreateJob(rows, j, "manual") ELSE job' = rows
    /\ UNCHANGED <<routed, owed, cancels, printed, faults>>

\* mark_job_failed(): a renderer of the artifact found that it cannot.
AfterRenderError(row) ==
    IF row.status \in ENDED THEN row
    ELSE [row EXCEPT !.status = IF \/ row.phase \in HANDED_OVER
                                   \/ /\ row.delivery = "push" /\ row.token = 0
                                      /\ row.status \in {"sent", "printing"}
                                THEN "uncertain" ELSE "failed"]

\* enqueue_for_agents(): called wherever a waiting push job of a printer with
\* an agent route is met (_prepare_dispatch, prepare, pending).
EnqueueForAgents(j) ==
    /\ routed[j]
    /\ job[j].status = "queued" /\ job[j].delivery = "push"
    /\ job' = [job EXCEPT ![j].delivery = "lease"]
    /\ UNCHANGED <<routed, owed, cancels, printed, faults>>

\* An administrator gives the printer of j an agent route.
RouteActivated(j) ==
    /\ ~routed[j] /\ Fault
    /\ routed' = [routed EXCEPT ![j] = TRUE]
    /\ UNCHANGED <<job, owed, cancels, printed>>

NextJobs ==
    \E j \in Jobs :
        \/ DispatchFallback(j) \/ FallbackLost(j)
        \/ CancelRead(j) \/ CancelWrite(j)
        \/ \E action \in Actions : Resolve(j, action)
        \/ EnqueueForAgents(j) \/ RouteActivated(j)
=============================================================================
