---------------------------- MODULE AlarmOutbox ----------------------------
(***************************************************************************)
(* The alarm outbox of one incident (app/services/alarm_outbox.py).        *)
(*                                                                         *)
(* An incident is alarmed over several channels.  Every channel is one row *)
(* of incident_alarm_job, and process_incident_alarm() works through those *)
(* rows: the request that created the incident runs it at once, the leader *)
(* runs it again every five seconds while a row is due, and nothing keeps  *)
(* the two apart but the conditional UPDATEs on the rows.                  *)
(*                                                                         *)
(* A PASS is one run of process_incident_alarm() in some worker process.   *)
(* For every job it is in one of the places below (pc).  Every step is one *)
(* database transaction or one external call, as in the code.              *)
(*                                                                         *)
(*   off       the pass does not deal with the job                         *)
(*   listed    read by _claim_incident_sync(), its claim still to come     *)
(*   fenced    the stale-claim UPDATE has run, the claiming UPDATE has not  *)
(*   won       the claim is committed, attempt_count is still to be read   *)
(*   ready     (job.id, attempt_count) is in the pass's list               *)
(*   calling   the sender runs, nothing has left the system                *)
(*   posted    the sender runs, the message has left the system            *)
(*   closing   the result is committed, _finish_if_done() begins           *)
(*   waiting   all jobs were seen terminal, waits for _ABSCHLUSS_SPERRE     *)
(*   writing   holds _ABSCHLUSS_SPERRE and found no alarm_finished entry    *)
(***************************************************************************)
EXTENDS Naturals, FiniteSets

CONSTANTS
    Channel,    \* the channels of the incident, a subset of CHANNELS
    Variant,    \* the first alarm and the follow-up alarms (column variant)
    First,      \* the variant "" of the first alarm
    LoopPass,   \* passes the alarm outbox loop of a leader may start
    RequestPass,\* passes a request starts as its background task
    ProcOf,     \* the worker process a pass runs in
    Sweep,      \* the part of a pass that is not about one job
    MaxResend,  \* bound: manual Teams resends
    MaxPoll,    \* bound: attempt_count up to which an SMS log stays pending
    MaxFault    \* bound: crashes, cancellations and lost results

CHANNELS == {"sms", "push", "teams", "mail"}
TERMINAL == {"sent", "suppressed", "failed", "uncertain"}
Status   == {"none", "pending", "retry", "sending"} \cup TERMINAL
Job      == Channel \X Variant
Pass     == LoopPass \cup RequestPass
Thread   == Job \cup {Sweep}
Process  == {ProcOf[p] : p \in Pass}
Place    == {"off", "listed", "fenced", "won", "ready", "calling", "posted",
             "closing", "waiting", "writing"}

ASSUME ChannelAssumption == Channel \subseteq CHANNELS
ASSUME SweepAssumption   == Sweep \notin Job
ASSUME VariantAssumption == First \in Variant
ASSUME BoundAssumption   == MaxResend \in Nat /\ MaxPoll \in Nat /\ MaxFault \in Nat

VARIABLES
    status,     \* column status; "none" while the row does not exist
    attempt,    \* column attempt_count
    elapsed,    \* jobs whose next_attempt_at, or lease_until, has been reached
    phase,      \* what each pass is doing
    visible,    \* per pass, the jobs whose deadline had been reached at its `now'
    pc,         \* per pass and job, its place
    gen,        \* per pass and job, the generation handed to _run_claimed()
    delivered,  \* how often a message of the job left the system
    finished,   \* number of incident.alarm_finished audit entries
    resends,    \* manual Teams resends so far
    faults      \* crashes, cancellations and lost results so far

jobVars  == <<status, attempt, elapsed>>
passVars == <<phase, visible, pc, gen>>
logVars  == <<delivered, finished, resends, faults>>
vars     == <<jobVars, passVars, logVars>>

Exists(j)     == status[j] # "none"
BugAllTerminal == (\E j \in Job : Exists(j)) /\ \A j \in Job : status[j] \notin {"pending", "sending"}
AllTerminal   == /\ \E j \in Job : Exists(j)
                 /\ \A j \in Job : Exists(j) => status[j] \in TERMINAL
TeamsFirst    == <<"teams", First>>
Waiting(j)    == status[j] \in {"pending", "retry"}
\* retry delays of _retry_at(): so many attempts may end in an exception
\* before the next one makes the job fail.
Delays == [teams |-> 5, push |-> 2, sms |-> 2, mail |-> 3]

TypeOK ==
    /\ status \in [Job -> Status]
    /\ attempt \in [Job -> Nat]
    /\ elapsed \in SUBSET Job
    /\ phase \in [Pass -> {"idle", "called", "claiming", "running", "cancelled"}]
    /\ visible \in [Pass -> SUBSET Job]
    /\ pc \in [Pass -> [Thread -> Place]]
    /\ gen \in [Pass -> [Job -> Nat]]
    /\ delivered \in [Job -> Nat]
    /\ finished \in Nat /\ resends \in Nat /\ faults \in Nat

Init ==
    /\ status = [j \in Job |-> "none"]
    /\ attempt = [j \in Job |-> 0]
    /\ elapsed = {}
    /\ phase = [p \in Pass |-> "idle"]
    /\ visible = [p \in Pass |-> {}]
    /\ pc = [p \in Pass |-> [t \in Thread |-> "off"]]
    /\ gen = [p \in Pass |-> [j \in Job |-> 0]]
    /\ delivered = [j \in Job |-> 0]
    /\ finished = 0 /\ resends = 0 /\ faults = 0

\* A job gets a deadline later than any `now' a pass has taken so far.
NewDeadline(j) ==
    /\ elapsed' = elapsed \ {j}
    /\ visible' = [p \in Pass |-> visible[p] \ {j}]

\* Threads end; their generation was a local variable.
Leave(gone) ==
    /\ pc' = [p \in Pass |-> [t \in Thread |-> IF <<p, t>> \in gone THEN "off" ELSE pc[p][t]]]
    /\ gen' = [p \in Pass |-> [j \in Job |-> IF <<p, j>> \in gone THEN 0 ELSE gen[p][j]]]

-----------------------------------------------------------------------------
(* Creating the jobs. *)

\* enqueue_incident_alarm() for the first alarm, enqueue_nachalarmierung() for a
\* follow-up: the missing channels of a variant, all in the caller's
\* transaction.  A suppressed alarm is born terminal.  The request that created
\* the incident starts a pass in its own worker, other sources leave the jobs
\* to the loop.
Enqueue(v, suppressed, passes) ==
    LET new == {j \in Job : j[2] = v /\ ~Exists(j)} IN
    /\ new # {}
    /\ \A p \in passes : phase[p] = "idle"
    /\ status' = [j \in Job |-> IF j \notin new THEN status[j]
                                ELSE IF suppressed THEN "suppressed" ELSE "pending"]
    /\ elapsed' = elapsed \cup new
    /\ visible' = [p \in Pass |-> visible[p] \ new]
    /\ phase' = [p \in Pass |-> IF p \in passes THEN "called" ELSE phase[p]]
    /\ UNCHANGED <<attempt, pc, gen, logVars>>

\* teams_manuell_erneut(): the crew asks again for a Teams card that failed or
\* whose delivery is unknown; the request starts a pass.
Resend(passes) ==
    /\ TeamsFirst \in Job
    /\ resends < MaxResend
    /\ status[TeamsFirst] \in {"uncertain", "failed"}
    /\ \A p \in passes : phase[p] = "idle"
    /\ status' = [status EXCEPT ![TeamsFirst] = "pending"]
    /\ elapsed' = elapsed \cup {TeamsFirst}
    /\ visible' = [p \in Pass |-> visible[p] \ {TeamsFirst}]
    /\ phase' = [p \in Pass |-> IF p \in passes THEN "called" ELSE phase[p]]
    /\ resends' = resends + 1
    /\ UNCHANGED <<attempt, pc, gen, delivered, finished, faults>>

-----------------------------------------------------------------------------
(* Starting a pass and claiming the jobs. *)

\* run_alarm_outbox_once(): the incident has a due job and no pass of this
\* loop is still working on it.
BugLoopCall(p) ==
    /\ p \in LoopPass
    /\ phase[p] = "idle"
    /\ \E j \in elapsed : Waiting(j)
    /\ phase' = [phase EXCEPT ![p] = "called"]
    /\ UNCHANGED <<jobVars, visible, pc, gen, logVars>>

LoopCall(p) ==
    /\ p \in LoopPass
    /\ phase[p] = "idle"
    /\ \E j \in elapsed : Waiting(j) \/ status[j] = "sending"
    /\ phase' = [phase EXCEPT ![p] = "called"]
    /\ UNCHANGED <<jobVars, visible, pc, gen, logVars>>

\* _claim_incident_sync(): takes `now', then reads the jobs of the incident.
List(p) ==
    /\ phase[p] = "called"
    /\ phase' = [phase EXCEPT ![p] = "claiming"]
    /\ visible' = [visible EXCEPT ![p] = elapsed]
    /\ pc' = [pc EXCEPT ![p] = [t \in Thread |-> IF t \in Job /\ Exists(t) THEN "listed" ELSE pc[p][t]]]
    /\ UNCHANGED <<jobVars, gen, logVars>>

\* The jobs are claimed one after the other.
NoClaimOpen(p) == \A j \in Job : pc[p][j] \notin {"fenced", "won"}

\* First transaction of _claim_once(): whoever held an expired claim may have
\* sent, so the job is given up.  SMS skip it, their sub-jobs are idempotent.
Stale(p, j) == status[j] = "sending" /\ j \in visible[p]

BugGiveUpStale(p, j) ==
    /\ pc[p][j] = "listed" /\ NoClaimOpen(p)
    /\ j[1] # "sms"
    /\ status' = [status EXCEPT ![j] = IF Stale(p, j) THEN "retry" ELSE @]
    /\ pc' = [pc EXCEPT ![p][j] = "fenced"]
    /\ UNCHANGED <<attempt, elapsed, phase, visible, gen, logVars>>

GiveUpStale(p, j) ==
    /\ pc[p][j] = "listed" /\ NoClaimOpen(p)
    /\ j[1] # "sms"
    /\ status' = [status EXCEPT ![j] = IF Stale(p, j) THEN "uncertain" ELSE @]
    /\ pc' = [pc EXCEPT ![p][j] = "fenced"]
    /\ UNCHANGED <<attempt, elapsed, phase, visible, gen, logVars>>

\* Second transaction of _claim_once().
BugEligibleDue(p, j) == j \in visible[p] /\ Waiting(j)
Eligible(p, j) ==
    /\ j \in visible[p]
    /\ Waiting(j) \/ (j[1] = "sms" /\ status[j] = "sending")

Claim(p, j) ==
    /\ IF j[1] = "sms" THEN pc[p][j] = "listed" /\ NoClaimOpen(p)
                       ELSE pc[p][j] = "fenced"
    /\ \/ /\ Eligible(p, j)
          /\ status' = [status EXCEPT ![j] = "sending"]
          /\ attempt' = [attempt EXCEPT ![j] = @ + 1]
          /\ NewDeadline(j)
          /\ pc' = [pc EXCEPT ![p][j] = "won"]
       \/ /\ ~Eligible(p, j)
          /\ pc' = [pc EXCEPT ![p][j] = "off"]
          /\ UNCHANGED <<jobVars, visible>>
    /\ UNCHANGED <<phase, gen, logVars>>

\* The commit of the claim expired the loaded row: job.attempt_count is read
\* again, by a statement of its own.
ReadGeneration(p, j) ==
    /\ pc[p][j] = "won"
    /\ gen' = [gen EXCEPT ![p][j] = attempt[j]]
    /\ pc' = [pc EXCEPT ![p][j] = "ready"]
    /\ UNCHANGED <<jobVars, phase, visible, logVars>>

\* process_incident_alarm() has its list and runs it; with nothing claimed it
\* only checks whether the incident is done.
ClaimsDone(p) == \A j \in Job : pc[p][j] \notin {"listed", "fenced", "won"}

Launch(p) ==
    /\ phase[p] = "claiming" /\ ClaimsDone(p)
    /\ phase' = [phase EXCEPT ![p] = "running"]
    /\ pc' = [pc EXCEPT ![p][Sweep] =
                IF \E j \in Job : pc[p][j] = "ready" THEN @ ELSE "closing"]
    /\ visible' = [visible EXCEPT ![p] = {}]
    /\ UNCHANGED <<jobVars, gen, logVars>>

\* The pass was cancelled while its thread claimed: the list is lost.
DropList(p) ==
    /\ phase[p] = "cancelled" /\ ClaimsDone(p)
    /\ phase' = [phase EXCEPT ![p] = "idle"]
    /\ Leave({p} \X Job)
    /\ visible' = [visible EXCEPT ![p] = {}]
    /\ UNCHANGED <<jobVars, logVars>>

-----------------------------------------------------------------------------
(* Sending. *)

\* A result may only be written, and a sender only started, for the generation
\* that still holds the job.
BugHoldsAny(p, j)    == attempt[j] = gen[p][j]
Holds(p, j) == status[j] = "sending" /\ attempt[j] = gen[p][j]

\* _run_claimed_ablauf(): loads the job and starts the sender of the channel.
Load(p, j) ==
    /\ phase[p] = "running"
    /\ pc[p][j] = "ready"
    /\ \/ /\ Holds(p, j)
          /\ pc' = [pc EXCEPT ![p][j] = "calling"]
          /\ UNCHANGED gen
       \/ /\ ~Holds(p, j)
          /\ Leave({<<p, j>>})
    /\ UNCHANGED <<jobVars, phase, visible, logVars>>

\* The message leaves the system: the card is posted, the push or a mail chunk
\* handed over.  An SMS creates its log and the sub-jobs at most once, under
\* the row lock of the incident; later calls find the log and only read it.
Deliver(p, j) ==
    /\ pc[p][j] = "calling"
    /\ delivered' = [delivered EXCEPT ![j] = IF j[1] = "sms" THEN 1 ELSE @ + 1]
    /\ pc' = [pc EXCEPT ![p][j] = "posted"]
    /\ UNCHANGED <<jobVars, phase, visible, gen, finished, resends, faults>>

\* How the sender of a channel can end, before and after the message left.
\*   teams  connection errors and 429 are raised; once posted, an unreadable
\*          answer is uncertain, or suppressed when it cannot be decoded
\*   push   _send_incident_push() swallows errors: sent without a delivery
\*   mail   a chunk that fails is raised, even after earlier chunks were sent
\*   sms    an undecided log is a retry, up to MaxPoll
BugResultsTimeout(j, place) ==
    {"suppressed", "failed", "uncertain", "sent", "exception"}
Results(j, place) ==
    CASE j[1] = "teams" /\ place = "calling" -> {"suppressed", "failed", "uncertain", "exception"}
      [] j[1] = "teams" /\ place = "posted"  -> {"sent", "uncertain", "suppressed"}
      [] j[1] = "push"  /\ place = "calling" -> {"suppressed", "sent", "exception"}
      [] j[1] = "push"  /\ place = "posted"  -> {"sent"}
      [] j[1] = "mail"  /\ place = "calling" -> {"suppressed", "sent", "exception"}
      [] j[1] = "mail"  /\ place = "posted"  -> {"sent", "exception"}
      [] j[1] = "sms"   /\ place = "calling" -> {"suppressed", "exception"}
      [] j[1] = "sms"   /\ place = "posted"  -> {"sent", "failed", "uncertain", "exception"}
              \cup IF attempt[j] <= MaxPoll THEN {"retry"} ELSE {}
      [] OTHER -> {}

\* _retry_at(): the delay list of the channel is indexed with attempt_count.
BugAfterException(j) == IF attempt[j] <= Delays[j[1]] THEN "retry" ELSE "error"
AfterException(j) == IF attempt[j] <= Delays[j[1]] THEN "retry" ELSE "failed"

\* The fenced UPDATE with the result.  A worker that lost the job rolls back
\* and ends, without looking whether the incident is done.
Record(p, j) ==
    /\ pc[p][j] \in {"calling", "posted"}
    /\ \/ /\ Holds(p, j)
          /\ \E r \in Results(j, pc[p][j]) :
                status' = [status EXCEPT ![j] = IF r = "exception" THEN AfterException(j) ELSE r]
          /\ NewDeadline(j)
          /\ pc' = [pc EXCEPT ![p][j] = "closing"]
          /\ UNCHANGED gen
       \/ /\ ~Holds(p, j)
          /\ Leave({<<p, j>>})
          /\ UNCHANGED <<status, elapsed, visible>>
    /\ UNCHANGED <<attempt, phase, logVars>>

-----------------------------------------------------------------------------
(* Finishing the alarm of the incident. *)

\* _finish_if_done(): first read, in the session of the thread.
BugCheckDone(p, t) ==
    /\ pc[p][t] = "closing"
    /\ IF t = Sweep /\ AllTerminal THEN pc' = [pc EXCEPT ![p][t] = "waiting"] /\ UNCHANGED gen
                                  ELSE Leave({<<p, t>>})
    /\ UNCHANGED <<jobVars, phase, visible, logVars>>
CheckDone(p, t) ==
    /\ pc[p][t] = "closing"
    /\ \/ /\ AllTerminal
          /\ pc' = [pc EXCEPT ![p][t] = "waiting"]
          /\ UNCHANGED gen
       \/ /\ ~AllTerminal
          /\ Leave({<<p, t>>})
    /\ UNCHANGED <<jobVars, phase, visible, logVars>>

\* _ABSCHLUSS_SPERRE is a lock of the process; under it a fresh session looks
\* for an alarm_finished entry.
BugLockFree(p) == TRUE
LockFree(p) == \A q \in Pass, t \in Thread : ProcOf[q] = ProcOf[p] => pc[q][t] # "writing"
EnterFinish(p, t) ==
    /\ pc[p][t] = "waiting"
    /\ LockFree(p)
    /\ \/ /\ finished = 0
          /\ pc' = [pc EXCEPT ![p][t] = "writing"]
          /\ UNCHANGED gen
       \/ /\ finished > 0
          /\ Leave({<<p, t>>})
    /\ UNCHANGED <<jobVars, phase, visible, logVars>>

WriteFinished(p, t) ==
    /\ pc[p][t] = "writing"
    /\ finished' = finished + 1
    /\ Leave({<<p, t>>})
    /\ UNCHANGED <<jobVars, phase, visible, delivered, resends, faults>>

EndPass(p) ==
    /\ phase[p] = "running"
    /\ \A t \in Thread : pc[p][t] = "off"
    /\ phase' = [phase EXCEPT ![p] = "idle"]
    /\ UNCHANGED <<jobVars, visible, pc, gen, logVars>>

-----------------------------------------------------------------------------
(* Time and faults. *)

\* next_attempt_at or lease_until of a job is reached.  A sender that hangs
\* outlives its five minute lease.
Elapse(j) ==
    /\ Waiting(j) \/ status[j] = "sending"
    /\ j \notin elapsed
    /\ elapsed' = elapsed \cup {j}
    /\ UNCHANGED <<status, attempt, passVars, logVars>>

\* A worker process dies: its passes are gone, the rows stay.
Crash(w) ==
    /\ faults < MaxFault
    /\ faults' = faults + 1
    /\ phase' = [p \in Pass |-> IF ProcOf[p] = w THEN "idle" ELSE phase[p]]
    /\ Leave({x \in Pass \X Thread : ProcOf[x[1]] = w})
    /\ visible' = [p \in Pass |-> IF ProcOf[p] = w THEN {} ELSE visible[p]]
    /\ UNCHANGED <<jobVars, delivered, finished, resends>>

\* A leader that shuts down cancels the passes of its loop.  Senders are
\* cancelled at their await; the claiming thread runs to its end, but its list
\* is never worked off; closing threads run to their end.
Cancel(p) ==
    /\ faults < MaxFault
    /\ p \in LoopPass
    /\ phase[p] \in {"called", "claiming", "running"}
    /\ faults' = faults + 1
    /\ phase' = [phase EXCEPT ![p] = CASE @ = "called"   -> "idle"
                                       [] @ = "claiming" -> "cancelled"
                                       [] OTHER          -> @]
    /\ Leave({<<p, j>> : j \in {k \in Job : /\ phase[p] = "running"
                                      /\ pc[p][k] \in {"ready", "calling", "posted"}}})
    /\ UNCHANGED <<jobVars, visible, delivered, finished, resends>>

\* A database error while a thread writes its result or the finish entry:
\* rollback, the thread ends.
LoseWrite(p, t) ==
    /\ faults < MaxFault
    /\ pc[p][t] \in {"calling", "posted", "closing", "waiting", "writing"}
    /\ faults' = faults + 1
    /\ Leave({<<p, t>>})
    /\ UNCHANGED <<jobVars, phase, visible, delivered, finished, resends>>

-----------------------------------------------------------------------------
AtMostOneRequest == {P \in SUBSET RequestPass : Cardinality(P) <= 1}

PassStep(p) ==
    \/ List(p) \/ Launch(p) \/ DropList(p) \/ EndPass(p)
    \/ \E j \in Job : GiveUpStale(p, j) \/ Claim(p, j) \/ ReadGeneration(p, j)
                        \/ Load(p, j) \/ Record(p, j)
    \/ \E t \in Thread : CheckDone(p, t) \/ EnterFinish(p, t) \/ WriteFinished(p, t)

Next ==
    \/ \E v \in Variant, s \in BOOLEAN, P \in AtMostOneRequest : Enqueue(v, s, P)
    \/ \E P \in AtMostOneRequest : Resend(P)
    \/ \E p \in Pass : LoopCall(p) \/ PassStep(p) \/ Cancel(p)
    \/ \E p \in Pass, j \in Job : Deliver(p, j)
    \/ \E p \in Pass, t \in Thread : LoseWrite(p, t)
    \/ \E j \in Job : Elapse(j)
    \/ \E w \in Process : Crash(w)

\* The event loop and the thread pools of a live worker keep running, senders
\* have timeouts, deadlines are reached, and some worker holds the leader lock
\* and runs the loop.  Nobody has to enqueue, resend, deliver or fail.
Fairness ==
    /\ \A p \in Pass : WF_vars(PassStep(p))
    /\ \A p \in LoopPass : WF_vars(LoopCall(p))
    /\ \A j \in Job : WF_vars(Elapse(j))

Spec     == Init /\ [][Next]_vars
LiveSpec == Spec /\ Fairness

-----------------------------------------------------------------------------
(* Properties. *)

\* The claimed job is in the hands of the pass.
InHand(p, j) == pc[p][j] \in {"won", "ready", "calling", "posted"}

\* Nobody asked for the job a second time.
NotResent(j) == j = TeamsFirst => resends = 0

\* Channels without idempotent sub-jobs are never handed to a second worker
\* after a possible send (_claim_once): at most one pass has the job in hand,
\* whatever became of leases, crashes and late results.
SoleSender ==
    \A j \in Job : j[1] # "sms" /\ NotResent(j) =>
        \A p, q \in Pass : InHand(p, j) /\ InHand(q, j) => p = q

\* Teams cards are repeated automatically only after a certain rejection: a job
\* that waits for another attempt, or failed, has not sent anything.  The same
\* holds for push.
RetryMeansUnsent ==
    \A j \in Job : j[1] \in {"teams", "push"} /\ NotResent(j)
                   /\ status[j] \in {"none", "pending", "retry", "failed"}
        => delivered[j] = 0

\* At most once when in doubt: one card or push per job, and one more card for
\* every time the crew asked for it.
PostBudget ==
    \A j \in Job : j[1] \in {"teams", "push", "sms"} =>
        delivered[j] <= 1 + (IF j = TeamsFirst THEN resends ELSE 0)

\* The incident is reported finished when every channel has its final result,
\* not while one is still to be retried.
FinishedMeansSettled ==
    finished > 0 /\ resends = 0 /\ (\A j \in Job : j[2] # First => status[j] = "none")
        => \A j \in Job : j[2] = First => status[j] \in TERMINAL

\* incident.alarm_finished is written once, also when channels finish at the
\* same moment (_ABSCHLUSS_SPERRE).
FinishedOnce == finished <= 1

\* A final result stands: late results and new passes never change it, only the
\* crew can ask for an uncertain or failed Teams card again.
TerminalStands ==
    [][\A j \in Job : status[j] \in TERMINAL /\ status'[j] # status[j] =>
          /\ j = TeamsFirst /\ status[j] \in {"uncertain", "failed"}
          /\ resends' = resends + 1]_vars

\* Every job gets a final result, through crashes, cancellations and lost writes.
EveryJobSettles ==
    \A j \in Job : Exists(j) ~> status[j] \in TERMINAL

\* Once all jobs are settled the incident is reported finished, unless a crash, a
\* cancellation or a lost write fell in between.  (An alarm suppressed from birth
\* has no due job, the loop never looks at it.)
FinishIsReported ==
    (AllTerminal /\ \E j \in Job : attempt[j] > 0) ~> (finished > 0 \/ faults > 0)
=============================================================================
