---------------------------- MODULE PrintSystem ----------------------------
(***************************************************************************)
(* Both deliveries on the same rows: a job may be pushed, move to lease    *)
(* delivery while it waits, fail, be replaced, and the replacement may go  *)
(* the other way.                                                          *)
(***************************************************************************)
EXTENDS PrintAgent, LinuxPrint, FiniteSetsExt

vars == <<jobVars, agentVars, linuxVars>>

TypeOK == TypeOKJobs /\ TypeOKAgent /\ TypeOKLinux

Init == InitJobs /\ InitAgent /\ InitLinux

Next ==
    \/ NextJobs /\ UNCHANGED <<agentVars, linuxVars>>
    \/ NextAgent /\ UNCHANGED linuxVars
    \/ NextLinux /\ UNCHANGED agentVars

Spec == Init /\ [][Next]_vars

-----------------------------------------------------------------------------
(* Fairness: the loops of the workers run (sweep, reconcile, print_watchdog), so a   *)
(* deadline is noticed; a call that was begun ends; an agent goes on with a job that *)
(* it does not lose.                                                                 *)

AgentStep(a, j) ==
    /\ \/ Intent(a, j) \/ Submit(a, j) \/ Spooled(a, j)
       \/ \E r \in ReportsOf(win[a][j].st) : StatusRead(a, j, r)
    /\ UNCHANGED linuxVars

Loops(j) ==
    \/ EnqueueForAgents(j) /\ UNCHANGED <<agentVars, linuxVars>>
    \/ Sweep(j) /\ UNCHANGED linuxVars
    \/ /\ ReconcileQueued(j) \/ ReconcileUnsent(j) \/ ReconcileSilent(j)
       /\ UNCHANGED agentVars

Fairness ==
    /\ \A j \in Jobs : WF_vars(Loops(j))
    /\ \A a \in Agents : WF_vars(StatusWrite(a) /\ UNCHANGED linuxVars)
    /\ \A a \in Agents, j \in Jobs : WF_vars(AgentStep(a, j))

LiveSpec == Spec /\ Fairness

-----------------------------------------------------------------------------
(* Properties. *)

\* What an order of a rule puts on paper without a person asking for it: the job
\* and the jobs that replace it.
Copies(j) == MapThenSumSet(LAMBDA k : printed[k], {j} \cup Successors(j, "rule"))

\* The system never reprints on its own (resolve_uncertain_job, ui_gateway.py:1488):
\* whatever is leased again, transported again or replaced, at most one copy exists.
NoBlindReprint == \A j \in Jobs : Copies(j) <= 1

\* Whoever may hand the job to a spooler still holds it, and no sweep, report or
\* render error has put the row where the job is given to somebody else.
ApprovedHolds ==
    \A a \in Agents, j \in Jobs :
        win[a][j].st \in {"approved", "handed"} =>
            Owns(a, j) /\ job[j].status \notin {"queued", "failed", "absent"}

\* An outcome stands: reports, sweeps, reconciliation and render errors leave a
\* terminal or uncertain row alone; only a person changes it.
OutcomeStands ==
    [][\A j \in Jobs : job[j].status \in ENDED /\ job'[j].status # job[j].status
                       => CancelWrite(j) \/ \E action \in Actions : Resolve(j, action)]_vars

\* Every job comes to an end, or to the spooler that has it: no crash, lost call,
\* dead agent or gateway leaves it waiting.
EveryJobSettles ==
    \A j \in Jobs : [](job[j].status = "queued" =>
        <>(job[j].status \in ENDED \/ (job[j].status = "printing" /\ job[j].ref)))
=============================================================================
