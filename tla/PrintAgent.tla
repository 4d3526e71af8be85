----------------------------- MODULE PrintAgent -----------------------------
(***************************************************************************)
(* Lease delivery (print_agent_service.py, print_agent_loop.py and the     *)
(* handlers of /ws/print-agent): agents lease a waiting job, ask for the   *)
(* print intent before the spooler gets it, and report.  Every worker      *)
(* sweeps.                                                                 *)
(*                                                                         *)
(* The agents themselves are external: win is the part of their journal    *)
(* that the protocol of docs/konzepte/print-agent-architektur.md rests on. *)
(***************************************************************************)
EXTENDS PrintJob

VARIABLES
    win,  \* per agent and job, the state of its journal and the lease it is for
    call  \* per agent, the job_status call that has read the row

agentVars == <<win, call>>

BEFORE_HANDOVER == {"leased", "fetching"}

\* granted: leased, artifact not yet submitted.  fetch_failed, rejected, unclear:
\* a failure of that kind has still to be reported.  approved: intent granted.
\* handed: the spooler has it; spooled: and the journal says so; printing: and
\* that was confirmed.
WinState == {"none", "granted", "fetch_failed", "approved", "rejected", "unclear",
             "handed", "spooled", "printing"}

Report == [status : {"printing", "done", "failed", "canceled", "uncertain"},
           phase : {"fetching", "submitting", "spooled"}, ref : BOOLEAN, proof : BOOLEAN]

NoCall == [j |-> None, gen |-> 0, phase |-> None,
           report |-> [status |-> "failed", phase |-> "fetching", ref |-> FALSE, proof |-> FALSE]]

NoLease == [st |-> "none", gen |-> 0]

InitAgent ==
    /\ win = [a \in Agents |-> [j \in Jobs |-> NoLease]]
    /\ call = [a \in Agents |-> NoCall]

TypeOKAgent ==
    /\ win \in [Agents -> [Jobs -> [st : WinState, gen : 0 .. MaxGen]]]
    /\ call \in [Agents -> [j : Jobs, report : Report, phase : HANDED_OVER \cup BEFORE_HANDOVER,
                            gen : 0 .. MaxGen] \cup {NoCall}]

\* The fence of renew, print_intent and apply_agent_status: agent and token.
Owns(a, j) == job[j].holder = a /\ job[j].token = win[a][j].gen /\ job[j].token # 0

\* _agent_call() serialises the calls of one agent on its gateway row.
Free(a) == call[a].j = None

Journal(a, j, st) == win' = [win EXCEPT ![a][j] = IF st = "none" THEN NoLease ELSE [@ EXCEPT !.st = st]]

rest == <<routed, owed, cancels, printed>>

-----------------------------------------------------------------------------
(* The cloud: lease, renew, intent. *)

Released(row) ==
    [row EXCEPT !.status = "queued", !.phase = None, !.holder = None, !.token = 0]

\* lease_jobs(): the conditional update, and the grant on its way.  Which of
\* the ready routes goes first is a matter of time (darf_leasen).
Lease(a, j) ==
    /\ Free(a)
    /\ routed[j] /\ a \in Routes[j]
    /\ job[j].delivery = "lease" /\ job[j].status = "queued"
    /\ LET g == job[j].gen + 1
       IN /\ job' = [job EXCEPT ![j].status = "sent", ![j].phase = "leased", ![j].holder = a,
                                ![j].token = g, ![j].gen = g]
          /\ \E granted \in BOOLEAN :
                /\ Arrives(granted)
                /\ IF granted THEN win' = [win EXCEPT ![a][j] = [st |-> "granted", gen |-> g]]
                              ELSE UNCHANGED win
    /\ UNCHANGED <<rest, call>>

\* renew() and resume(): a lease that holds gets more time; for any other the agent
\* is told to abandon, and does so before it has submitted.
Renew(a, j) ==
    /\ Free(a) /\ win[a][j].st = "granted"
    /\ ~(Owns(a, j) /\ job[j].status \in {"sent", "printing"})
    /\ Journal(a, j, "none")
    /\ UNCHANGED <<job, rest, faults, call>>

\* print_intent(): the conditional update; a repetition in submitting is granted
\* again, any other agent has to abandon.
Intent(a, j) ==
    /\ Free(a) /\ win[a][j].st = "granted"
    /\ \E expired \in BOOLEAN :
       LET fresh   == /\ Owns(a, j) /\ job[j].status = "sent" /\ job[j].phase \in BEFORE_HANDOVER
                      /\ ~expired
           granted == fresh \/ (Owns(a, j) /\ job[j].status = "sent" /\ job[j].phase = "submitting")
       IN /\ job' = IF fresh THEN [job EXCEPT ![j].phase = "submitting"] ELSE job
          /\ \E answered \in BOOLEAN :
                /\ Arrives(answered)
                /\ IF answered THEN Journal(a, j, IF granted THEN "approved" ELSE "none")
                               ELSE UNCHANGED win
    /\ UNCHANGED <<rest, call>>

-----------------------------------------------------------------------------
(* The cloud: job_status. *)

ReportsOf(st) ==
    CASE st = "fetch_failed" -> [status : {"failed"}, phase : {"fetching"}, ref : {FALSE}, proof : BOOLEAN]
      [] st = "rejected" -> [status : {"failed"}, phase : {"submitting"}, ref : {FALSE}, proof : BOOLEAN]
      [] st = "unclear"  -> [status : {"failed", "uncertain"}, phase : {"submitting"}, ref : {FALSE},
                             proof : {FALSE}]
      [] st = "spooled"  -> [status : {"printing"}, phase : {"spooled"}, ref : {TRUE}, proof : {FALSE}]
      [] st = "printing" -> [status : {"done", "failed", "canceled"}, phase : {"spooled"}, ref : {TRUE},
                             proof : {FALSE}]
      [] OTHER -> {}

\* The journal once the report is acknowledged; without the ack it is repeated.
Acked(a, j, r, acked) ==
    /\ Arrives(acked)
    /\ IF acked THEN Journal(a, j, IF r.status = "printing" THEN "printing" ELSE "none")
                ELSE UNCHANGED win

\* apply_agent_status() up to the update: a stale or ended row ends the call.
StatusRead(a, j, r) ==
    /\ Free(a) /\ r \in ReportsOf(win[a][j].st)
    /\ IF Owns(a, j) /\ job[j].status \notin ENDED
       THEN /\ call' = [call EXCEPT ![a] = [j |-> j, report |-> r, phase |-> job[j].phase,
                                            gen |-> job[j].gen]]
            /\ UNCHANGED <<win, faults>>
       ELSE /\ \E acked \in BOOLEAN : Acked(a, j, r, acked)
            /\ UNCHANGED call
    /\ UNCHANGED <<job, rest>>

\* The row apply_agent_status() decides on, from the phase it has read.
BugSafelyRejected(row, c) ==
    /\ c.report.phase \in BEFORE_HANDOVER \cup {"submitting"}
    /\ c.phase \in BEFORE_HANDOVER \cup {"submitting"}
    /\ ~row.ref /\ ~c.report.ref
SafelyRejected(row, c) ==
    /\ c.report.proof
    /\ c.report.phase \in BEFORE_HANDOVER \cup {"submitting"}
    /\ c.phase \in BEFORE_HANDOVER \cup {"submitting"}
    /\ ~row.ref /\ ~c.report.ref

AfterReport(row, c) ==
    LET r == c.report
    IN  CASE r.status = "printing" ->
                 [row EXCEPT !.status = "printing", !.phase = "spooled", !.ref = @ \/ r.ref]
          [] r.status \in {"done", "canceled", "uncertain"} -> [row EXCEPT !.status = r.status]
          [] r.status = "failed" ->
                 IF SafelyRejected(row, c) THEN [row EXCEPT !.status = "failed"]
                 ELSE IF c.phase \notin BEFORE_HANDOVER THEN [row EXCEPT !.status = "uncertain"]
                 ELSE IF row.gen < MaxAttempts THEN Released(row)
                 ELSE [row EXCEPT !.status = "failed"]

\* The update repeats the fence, with the token of the report, and the phase and
\* generation it has read; what the journal says by now does not matter.
StatusWrite(a) ==
    /\ ~Free(a)
    /\ LET c == call[a]
           j == c.j
           wins == /\ job[j].holder = a /\ job[j].token = c.gen /\ job[j].token # 0
                   /\ job[j].status \notin ENDED
                   /\ job[j].phase = c.phase /\ job[j].gen = c.gen
           after == AfterReport(job[j], c)
       IN /\ job' = IF wins THEN [job EXCEPT ![j] = after] ELSE job
          /\ owed' = IF wins /\ after.status = "failed" THEN [owed EXCEPT ![j] = @ + 1] ELSE owed
          /\ \E acked \in BOOLEAN : Acked(a, j, c.report, acked)
    /\ call' = [call EXCEPT ![a] = NoCall]
    /\ UNCHANGED <<routed, cancels, printed>>

\* The worker of the socket dies inside the call; the report is repeated.
StatusLost(a) ==
    /\ ~Free(a) /\ Fault
    /\ call' = [call EXCEPT ![a] = NoCall]
    /\ UNCHANGED <<job, rest, win>>

-----------------------------------------------------------------------------
(* sweep(), in every worker: each case reads rows and repeats its conditions in the *)
(* update, so reading and writing count as one step.                                *)

Waits(j, status, phase) ==
    /\ job[j].delivery = "lease"
    /\ job[j].status \in status /\ job[j].phase \in phase

BugSweepSubmitting(j) ==
    /\ Waits(j, {"sent"}, BEFORE_HANDOVER \cup {"submitting"})
    /\ job' = [job EXCEPT ![j] = IF @.gen < MaxAttempts THEN Released(@) ELSE [@ EXCEPT !.status = "failed"]]
    /\ UNCHANGED <<rest, faults, agentVars>>
BugSweepEndless(j) ==
    /\ Waits(j, {"sent"}, BEFORE_HANDOVER)
    /\ job' = [job EXCEPT ![j] = Released(@)]
    /\ UNCHANGED <<rest, faults, agentVars>>
SweepLapsed(j) ==
    /\ Waits(j, {"sent"}, BEFORE_HANDOVER)
    /\ IF job[j].gen < MaxAttempts
       THEN /\ job' = [job EXCEPT ![j] = Released(@)]
            /\ UNCHANGED owed
       ELSE /\ job' = [job EXCEPT ![j].status = "failed"]
            /\ owed' = [owed EXCEPT ![j] = @ + 1]
    /\ UNCHANGED <<routed, cancels, printed, faults, agentVars>>

BugSweepSilent(j) ==
    /\ Waits(j, {"printing"}, HANDED_OVER) /\ ~job[j].ref
    /\ job' = [job EXCEPT ![j].status = "uncertain"]
    /\ UNCHANGED <<rest, faults, agentVars>>
\* With a reference into the spooler the row only gets a hint.
SweepSilent(j) ==
    /\ Waits(j, {"sent", "printing"}, HANDED_OVER)
    /\ ~(job[j].status = "printing" /\ job[j].ref)
    /\ job' = [job EXCEPT ![j].status = "uncertain"]
    /\ UNCHANGED <<rest, faults, agentVars>>

SweepQueued(j) ==
    /\ job[j].delivery = "lease" /\ job[j].status = "queued"
    /\ job' = [job EXCEPT ![j].status = "failed"]
    /\ owed' = [owed EXCEPT ![j] = @ + 1]
    /\ UNCHANGED <<routed, cancels, printed, faults, agentVars>>

-----------------------------------------------------------------------------
(* The agents (external). *)

\* The artifact cannot be fetched, because the renderer fails or for another reason.
FetchFails(a, j) ==
    /\ win[a][j].st = "granted"
    /\ Journal(a, j, "fetch_failed")
    /\ \E rendered \in BOOLEAN :
          job' = IF rendered THEN job ELSE [job EXCEPT ![j] = AfterRenderError(@)]
    /\ UNCHANGED <<rest, faults, call>>

Submit(a, j) ==
    /\ win[a][j].st = "approved"
    /\ \/ Journal(a, j, "handed") /\ printed' = [printed EXCEPT ![j] = @ + 1]
       \/ Journal(a, j, "rejected") /\ UNCHANGED printed
    /\ UNCHANGED <<job, routed, owed, cancels, faults, call>>

Spooled(a, j) ==
    /\ win[a][j].st = "handed"
    /\ Journal(a, j, "spooled")
    /\ UNCHANGED <<job, rest, faults, call>>

\* After a restart a job not yet approved is dropped, one in submitting is looked
\* for in the spooler and never printed again.
AgentRestart(a) ==
    /\ Free(a) /\ Fault
    /\ \E found \in BOOLEAN :
          win' = [win EXCEPT ![a] = [j \in Jobs |->
             CASE @[j].st \in {"granted", "fetch_failed"} -> NoLease
               [] @[j].st = "handed" /\ found -> [@[j] EXCEPT !.st = "spooled"]
               [] @[j].st \in {"approved", "handed"} -> [@[j] EXCEPT !.st = "unclear"]
               [] OTHER -> @[j]]]
    /\ UNCHANGED <<job, rest, call>>

\* The agent drops a job, because it was told to cancel it or its journal is gone.
Drop(a, j) ==
    /\ Fault
    /\ win[a][j].st # "none"
    /\ Journal(a, j, "none")
    /\ UNCHANGED <<job, rest, call>>

CloudAgent(a) ==
    \/ \E j \in Jobs : Lease(a, j) \/ Renew(a, j) \/ Intent(a, j)
                       \/ \E r \in ReportsOf(win[a][j].st) : StatusRead(a, j, r)
    \/ StatusWrite(a) \/ StatusLost(a)

Sweep(j) == SweepLapsed(j) \/ SweepSilent(j) \/ SweepQueued(j)

LocalAgent(a) ==
    \/ \E j \in Jobs : FetchFails(a, j) \/ Submit(a, j) \/ Spooled(a, j) \/ Drop(a, j)
    \/ AgentRestart(a)

NextAgent ==
    \/ \E a \in Agents : CloudAgent(a) \/ LocalAgent(a)
    \/ \E j \in Jobs : Sweep(j)
=============================================================================
