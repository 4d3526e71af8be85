------------------------- MODULE PrintSystem_proofs -------------------------
(***************************************************************************)
(* Theorems about PrintSystem, for any jobs, agents, routes, connections   *)
(* and bounds.                                                             *)
(***************************************************************************)
EXTENDS PrintSystem, TLAPS

\* A waiting row can be leased or transported once more; one with a holder has been leased.
Fit(r) ==
    /\ r.status = "queued" => r.gen < MaxGen
    /\ r.holder # None => r.delivery = "lease" /\ r.phase \in HANDED_OVER \cup BEFORE_HANDOVER
RowsFit == \A j \in Jobs : Fit(job[j])

RowsOK == job \in [Jobs -> Row] /\ RowsFit

\* The bounds of attempts and transports; some generation is always left for the first one.
LEMMA MaxGenFact == /\ MaxGen \in Nat /\ MaxAttempts \in Nat /\ MaxPush \in Nat
                    /\ MaxAttempts <= MaxGen /\ MaxPush <= MaxGen /\ 0 < MaxGen
  BY PrintJobAssumption DEF MaxGen

\* A row that create_print_job() has just written.
LEMMA NewRowTyped ==
    ASSUME NEW status \in {"queued", "absent"}, NEW source \in {"rule", "manual"},
           NEW parent \in Jobs \cup {None}, NEW lease \in BOOLEAN
    PROVE  /\ NewRow(status, source, parent, lease) \in Row
           /\ Fit(NewRow(status, source, parent, lease))
           /\ NewRow(status, source, parent, lease).status = status
  <1>1. 0 \in 0 .. MaxGen
    BY MaxGenFact
  <1> QED
    BY <1>1, MaxGenFact DEF NewRow, Row, Fit

\* The first order and the empty journals have their types.
LEMMA InitTyped == Init => TypeOK /\ RowsFit
  <1> SUFFICES ASSUME Init PROVE TypeOK /\ RowsFit
    OBVIOUS
  <1> USE DEF Init, InitJobs, InitAgent, InitLinux
  <1>1. routed \in [Jobs -> BOOLEAN]
    OBVIOUS
  <1>2. job \in [Jobs -> Row] /\ RowsFit
    <2>1. \A j \in Jobs : LET r == NewRow(IF j = Original THEN "queued" ELSE "absent", "rule", None, routed[j])
                          IN r \in Row /\ Fit(r)
      BY <1>1, NewRowTyped
    <2> QED
      BY <2>1 DEF RowsFit
  <1>3. TypeOKJobs
    BY <1>1, <1>2, PrintJobAssumption DEF TypeOKJobs
  <1>4. TypeOKAgent
    BY MaxGenFact DEF TypeOKAgent, NoLease, WinState
  <1>5. TypeOKLinux
    BY MaxGenFact, LinuxPrintAssumption DEF TypeOKLinux, NoRoute
  <1> QED
    BY <1>2, <1>3, <1>4, <1>5 DEF TypeOK

\* One row changes, or a successor is created.
LEMMA RowSet ==
    ASSUME RowsOK, NEW j \in Jobs, NEW r \in Row, Fit(r),
           job' = [job EXCEPT ![j] = r]
    PROVE  RowsOK'
  BY DEF RowsOK, RowsFit

\* Writing a status alone leaves a row well-formed and its other columns as they were.
LEMMA StatusSet ==
    ASSUME RowsOK, NEW j \in Jobs,
           NEW st \in ENDED \cup {"sent", "printing"}
    PROVE  LET r == [job[j] EXCEPT !.status = st]
           IN /\ [job EXCEPT ![j].status = st] = [job EXCEPT ![j] = r]
              /\ r \in Row /\ r.status = st
              /\ r.phase = job[j].phase /\ r.delivery = job[j].delivery /\ r.token = job[j].token
              /\ r.gen = job[j].gen /\ r.holder = job[j].holder /\ r.ref = job[j].ref
              /\ Fit(r)
  <1>1. job[j] \in Row /\ Fit(job[j])
    BY DEF RowsOK, RowsFit
  <1>2. st # "queued"
    BY DEF ENDED, JOB_TERMINAL
  <1> QED
    BY <1>1, <1>2 DEF Row, RowsOK, Fit

\* create_print_job() keeps the rows well-formed, whether it finds a successor or makes one.
LEMMA Created ==
    ASSUME RowsOK, routed \in [Jobs -> BOOLEAN], NEW rows, rows \in [Jobs -> Row],
           \A k \in Jobs : Fit(rows[k]),
           NEW j \in Jobs, NEW source \in {"rule", "manual"}, CreateJob(rows, j, source)
    PROVE  RowsOK'
  <1>1. CASE job' = rows
    BY <1>1 DEF RowsOK, RowsFit
  <1>2. ASSUME NEW k \in Jobs, job' = [rows EXCEPT ![k] = NewRow("queued", source, j, routed[k])]
        PROVE  RowsOK'
    <2>1. LET r == NewRow("queued", source, j, routed[k]) IN r \in Row /\ Fit(r)
      BY NewRowTyped
    <2> QED
      BY <1>2, <2>1 DEF RowsOK, RowsFit
  <1> QED
    BY <1>1, <1>2 DEF CreateJob

\* mark_job_failed() ends a row that has not ended, as uncertain once it was handed over.
LEMMA RenderTyped ==
    ASSUME NEW r \in Row
    PROVE  /\ AfterRenderError(r) \in Row /\ (Fit(r) => Fit(AfterRenderError(r)))
           /\ AfterRenderError(r).status \in ENDED
           /\ r.status \in ENDED => AfterRenderError(r).status = r.status
           /\ AfterRenderError(r).holder = r.holder /\ AfterRenderError(r).token = r.token
           /\ AfterRenderError(r).delivery = r.delivery
           /\ r.status \notin ENDED /\ r.phase \in HANDED_OVER => AfterRenderError(r).status = "uncertain"
  <1>1. CASE r.status \in ENDED
    BY <1>1 DEF AfterRenderError
  <1>2. CASE r.status \notin ENDED
    <2> DEFINE st == IF \/ r.phase \in HANDED_OVER
                        \/ /\ r.delivery = "push" /\ r.token = 0
                           /\ r.status \in {"sent", "printing"}
                     THEN "uncertain" ELSE "failed"
    <2>1. AfterRenderError(r) = [r EXCEPT !.status = st]
      BY <1>2 DEF AfterRenderError
    <2>2. st \in ENDED /\ (r.phase \in HANDED_OVER => st = "uncertain")
      BY DEF ENDED, JOB_TERMINAL
    <2>3. st # "queued"
      BY <2>2 DEF ENDED, JOB_TERMINAL
    <2> HIDE DEF st
    <2> QED
      BY <1>2, <2>1, <2>2, <2>3 DEF Row, Fit
  <1> QED
    BY <1>1, <1>2

\* A row put back into the queue can be leased again while attempts are left.
LEMMA ReleasedTyped ==
    ASSUME NEW r \in Row
    PROVE  /\ Released(r) \in Row /\ Released(r).status = "queued" /\ Released(r).gen = r.gen
           /\ Released(r).delivery = r.delivery
           /\ r.gen < MaxGen => Fit(Released(r))
  <1>1. 0 \in 0 .. MaxGen
    BY MaxGenFact
  <1> QED
    BY <1>1 DEF Released, Row, Fit

-----------------------------------------------------------------------------
(* Types. *)

\* Replacement, cancellation, resolution and the move to lease delivery keep the types.
LEMMA JobsTyped ==
    ASSUME TypeOKJobs, RowsFit, NextJobs
    PROVE  TypeOKJobs' /\ RowsFit'
  <1>1. /\ RowsOK /\ routed \in [Jobs -> BOOLEAN] /\ owed \in [Jobs -> Nat] /\ cancels \subseteq Jobs
        /\ printed \in [Jobs -> Nat] /\ faults \in 0 .. MaxFaults
    BY DEF TypeOKJobs, RowsOK
  <1>2. Fault => faults' \in 0 .. MaxFaults
    BY <1>1, PrintJobAssumption DEF Fault
  <1> DEFINE Rest == /\ routed' \in [Jobs -> BOOLEAN] /\ owed' \in [Jobs -> Nat] /\ cancels' \subseteq Jobs
                     /\ printed' \in [Jobs -> Nat] /\ faults' \in 0 .. MaxFaults
  <1>3. UNCHANGED job => RowsOK'
    BY <1>1 DEF RowsOK, RowsFit
  <1>4. ASSUME NEW j \in Jobs, DispatchFallback(j) PROVE RowsOK' /\ Rest
    <2>1. Rest
      BY <1>1, <1>4 DEF DispatchFallback
    <2>2. ASSUME CreateJob(job, j, "rule") PROVE RowsOK'
      BY <1>1, <2>2, Created DEF RowsOK, RowsFit
    <2> QED
      BY <1>3, <1>4, <2>1, <2>2 DEF DispatchFallback
  <1>5. ASSUME NEW j \in Jobs, FallbackLost(j) \/ CancelRead(j) \/ RouteActivated(j) PROVE RowsOK' /\ Rest
    <2>1. Rest
      <3>1. CASE FallbackLost(j)
        BY <1>1, <1>2, <3>1 DEF FallbackLost
      <3>2. CASE CancelRead(j)
        BY <1>1, <3>2 DEF CancelRead
      <3>3. CASE RouteActivated(j)
        BY <1>1, <1>2, <3>3 DEF RouteActivated
      <3> QED
        BY <1>5, <3>1, <3>2, <3>3
    <2>2. UNCHANGED job
      BY <1>5 DEF FallbackLost, CancelRead, RouteActivated
    <2> QED
      BY <1>3, <2>1, <2>2
  <1>6. ASSUME NEW j \in Jobs, NEW st \in ENDED, job' = [job EXCEPT ![j].status = st] PROVE RowsOK'
    <2>1. LET r == [job[j] EXCEPT !.status = st]
          IN job' = [job EXCEPT ![j] = r] /\ r \in Row /\ Fit(r)
      BY <1>1, <1>6, StatusSet
    <2> QED
      BY <1>1, <2>1, RowSet
  <1>7. ASSUME NEW j \in Jobs, CancelWrite(j) PROVE RowsOK' /\ Rest
    BY <1>1, <1>6, <1>7 DEF CancelWrite, ENDED, JOB_TERMINAL
  <1>8. ASSUME NEW j \in Jobs, NEW action \in Actions, Resolve(j, action) PROVE RowsOK' /\ Rest
    <2> DEFINE st == IF action = "done" THEN "done" ELSE "canceled"
               rows == [job EXCEPT ![j].status = st]
    <2>1. Rest
      BY <1>1, <1>8 DEF Resolve
    <2>2. st \in ENDED /\ st # "queued"
      BY DEF ENDED, JOB_TERMINAL
    <2>3. /\ rows \in [Jobs -> Row]
          /\ \A k \in Jobs : Fit(rows[k])
      <3> HIDE DEF st
      <3>1. LET r == [job[j] EXCEPT !.status = st] IN rows = [job EXCEPT ![j] = r] /\ r \in Row /\ Fit(r)
        BY <1>1, <2>2, StatusSet
      <3> QED
        BY <1>1, <2>2, <3>1 DEF RowsOK, RowsFit
    <2>4. CreateJob(rows, j, "manual") \/ job' = rows
      BY <1>8 DEF Resolve
    <2> HIDE DEF rows
    <2>5. ASSUME CreateJob(rows, j, "manual") PROVE RowsOK'
      BY <1>1, <2>3, <2>5, Created
    <2>6. ASSUME job' = rows PROVE RowsOK'
      BY <2>3, <2>6 DEF RowsOK, RowsFit
    <2> QED
      BY <2>1, <2>4, <2>5, <2>6
  <1>9. ASSUME NEW j \in Jobs, EnqueueForAgents(j) PROVE RowsOK' /\ Rest
    <2> DEFINE r == [job[j] EXCEPT !.delivery = "lease"]
    <2>1. r \in Row /\ Fit(r)
      <3>1. job[j] \in Row /\ Fit(job[j])
        BY <1>1 DEF RowsOK, RowsFit
      <3> QED
        BY <3>1 DEF Row, Fit
    <2>2. job' = [job EXCEPT ![j] = r]
      BY <1>9 DEF EnqueueForAgents
    <2> QED
      BY <1>1, <1>9, <2>1, <2>2, RowSet DEF EnqueueForAgents
  <1>10. RowsOK' /\ Rest
    BY <1>4, <1>5, <1>7, <1>8, <1>9 DEF NextJobs
  <1> QED
    BY <1>10 DEF RowsOK, TypeOKJobs

\* What each step of the lease delivery makes of the row.
LEMMA ReportTyped ==
    ASSUME NEW r \in Row, Fit(r), NEW c, c.report \in Report
    PROVE  /\ AfterReport(r, c) \in Row
           /\ Fit(AfterReport(r, c))
           /\ AfterReport(r, c).status # "absent"
           /\ AfterReport(r, c).delivery = r.delivery
  <1>1. /\ c.report.status \in {"printing", "done", "failed", "canceled", "uncertain"}
        /\ c.report.ref \in BOOLEAN
    BY DEF Report
  <1>2. CASE c.report.status = "printing"
    <2> DEFINE ref == r.ref \/ c.report.ref
    <2>1. AfterReport(r, c) = [r EXCEPT !.status = "printing", !.phase = "spooled", !.ref = ref]
      BY <1>2 DEF AfterReport
    <2>2. ref \in BOOLEAN
      OBVIOUS
    <2> HIDE DEF ref
    <2> QED
      BY <2>1, <2>2 DEF Row, HANDED_OVER, Fit
  <1>3. ASSUME NEW st \in ENDED, AfterReport(r, c) = [r EXCEPT !.status = st]
        PROVE  /\ AfterReport(r, c) \in Row /\ AfterReport(r, c).status \in ENDED
               /\ AfterReport(r, c).delivery = r.delivery /\ Fit(AfterReport(r, c))
    <2>1. st # "queued"
      BY DEF ENDED, JOB_TERMINAL
    <2> QED
      BY <1>3, <2>1 DEF Row, Fit
  <1>4. CASE c.report.status \in {"done", "canceled", "uncertain"}
    <2>1. AfterReport(r, c) = [r EXCEPT !.status = c.report.status]
      BY <1>4 DEF AfterReport
    <2> QED
      BY <1>3, <1>4, <2>1 DEF ENDED, JOB_TERMINAL
  <1>5. CASE c.report.status = "failed"
    <2>1. \/ \E st \in {"failed", "uncertain"} : AfterReport(r, c) = [r EXCEPT !.status = st]
          \/ AfterReport(r, c) = Released(r) /\ r.gen < MaxAttempts
      BY <1>5 DEF AfterReport
    <2> QED
      BY <1>3, <2>1, ReleasedTyped, MaxGenFact DEF ENDED, JOB_TERMINAL, Row
  <1> QED
    BY <1>1, <1>2, <1>3, <1>4, <1>5 DEF ENDED, JOB_TERMINAL

\* A journal entry that an agent rewrites keeps its type.
LEMMA JournalTyped ==
    ASSUME TypeOKAgent, NEW a \in Agents, NEW j \in Jobs, NEW st \in WinState, Journal(a, j, st)
    PROVE  win' \in [Agents -> [Jobs -> [st : WinState, gen : 0 .. MaxGen]]]
  <1>1. win[a] \in [Jobs -> [st : WinState, gen : 0 .. MaxGen]]
    BY DEF TypeOKAgent
  <1>2. PICK l \in [st : WinState, gen : 0 .. MaxGen] : win' = [win EXCEPT ![a][j] = l]
    <2>1. NoLease \in [st : WinState, gen : 0 .. MaxGen]
      BY MaxGenFact DEF NoLease, WinState
    <2>2. [win[a][j] EXCEPT !.st = st] \in [st : WinState, gen : 0 .. MaxGen]
      BY <1>1
    <2> QED
      BY <2>1, <2>2 DEF Journal
  <1> QED
    BY <1>1, <1>2 DEF TypeOKAgent

\* A report is one of job_status, sent from a state that has something to report.
LEMMA ReportsTyped ==
    ASSUME NEW st, NEW r \in ReportsOf(st)
    PROVE  /\ r \in Report
           /\ st \in {"fetch_failed", "rejected", "unclear", "spooled", "printing"}
  <1>1. CASE st \in {"fetch_failed", "rejected", "unclear", "spooled", "printing"}
    <2>1. r \in [status : {"printing", "done", "failed", "canceled", "uncertain"},
                 phase : {"fetching", "submitting", "spooled"}, ref : BOOLEAN, proof : BOOLEAN]
      BY <1>1 DEF ReportsOf
    <2> QED
      BY <1>1, <2>1 DEF Report
  <1>2. CASE st \notin {"fetch_failed", "rejected", "unclear", "spooled", "printing"}
    BY <1>2 DEF ReportsOf
  <1> QED
    BY <1>1, <1>2

\* The acknowledgement of a report keeps the journals typed.
LEMMA AckedTyped ==
    ASSUME TypeOKAgent, NEW a \in Agents, NEW j \in Jobs, NEW r, NEW acked \in BOOLEAN, Acked(a, j, r, acked)
    PROVE  win' \in [Agents -> [Jobs -> [st : WinState, gen : 0 .. MaxGen]]]
  <1>1. CASE acked
    BY <1>1, JournalTyped DEF Acked, WinState
  <1>2. CASE ~acked
    BY <1>2 DEF Acked, TypeOKAgent
  <1> QED
    BY <1>1, <1>2

\* Every step of the lease delivery keeps the types.
LEMMA AgentTyped ==
    ASSUME TypeOKJobs, RowsFit, TypeOKAgent, NextAgent
    PROVE  TypeOKJobs' /\ RowsFit' /\ TypeOKAgent'
  <1> DEFINE Calls == [j : Jobs, report : Report, phase : HANDED_OVER \cup BEFORE_HANDOVER,
                       gen : 0 .. MaxGen] \cup {NoCall}
             Wins  == [Agents -> [Jobs -> [st : WinState, gen : 0 .. MaxGen]]]
             Rest  == /\ routed' = routed /\ owed' \in [Jobs -> Nat] /\ cancels' = cancels
                      /\ printed' \in [Jobs -> Nat] /\ faults' \in 0 .. MaxFaults
                      /\ call' \in [Agents -> Calls] /\ win' \in Wins
  <1>1. /\ RowsOK /\ routed \in [Jobs -> BOOLEAN] /\ owed \in [Jobs -> Nat] /\ cancels \subseteq Jobs
        /\ printed \in [Jobs -> Nat] /\ faults \in 0 .. MaxFaults
        /\ call \in [Agents -> Calls] /\ win \in Wins
    BY DEF TypeOKJobs, TypeOKAgent, RowsOK
  <1>2. Fault => faults' \in 0 .. MaxFaults
    BY <1>1, PrintJobAssumption DEF Fault
  <1>3. ASSUME NEW ok, Arrives(ok) PROVE faults' \in 0 .. MaxFaults
    BY <1>1, <1>2, <1>3 DEF Arrives
  <1>4. UNCHANGED job => RowsOK'
    BY <1>1 DEF RowsOK, RowsFit
  <1>5. \A j \in Jobs : job[j] \in Row
    BY <1>1 DEF RowsOK
  <1>s. \A j \in Jobs : Fit(job[j])
    BY DEF RowsFit
  <1> HIDE DEF Calls
  <1>6. NoCall \in Calls
    BY DEF Calls
  <1>7. ASSUME NEW a \in Agents, NEW j \in Jobs, Lease(a, j) PROVE RowsOK' /\ Rest
    <2> DEFINE g == job[j].gen + 1
               r == [job[j] EXCEPT !.status = "sent", !.phase = "leased", !.holder = a, !.token = g, !.gen = g]
    <2>1. g \in 0 .. MaxGen
      BY <1>5, <1>s, <1>7, MaxGenFact DEF Lease, Fit, Row
    <2>2. job' = [job EXCEPT ![j] = r]
      BY <1>7 DEF Lease
    <2>3. win' \in Wins
      <3>1. UNCHANGED win \/ win' = [win EXCEPT ![a][j] = [st |-> "granted", gen |-> g]]
        BY <1>7 DEF Lease
      <3>2. [st |-> "granted", gen |-> g] \in [st : WinState, gen : 0 .. MaxGen]
        BY <2>1 DEF WinState
      <3>3. win[a] \in [Jobs -> [st : WinState, gen : 0 .. MaxGen]]
        BY <1>1
      <3>4. ASSUME NEW l \in [st : WinState, gen : 0 .. MaxGen], win' = [win EXCEPT ![a][j] = l]
            PROVE  win' \in Wins
        BY <1>1, <3>3, <3>4
      <3> QED
        BY <1>1, <3>1, <3>2, <3>4
    <2> HIDE DEF g
    <2>4. r \in Row /\ Fit(r)
      <3>1. job[j].delivery = "lease" /\ job[j] \in Row
        BY <1>5, <1>7 DEF Lease
      <3> QED
        BY <2>1, <3>1 DEF Row, Fit, BEFORE_HANDOVER
    <2> HIDE DEF r
    <2>5. RowsOK'
      BY <1>1, <2>2, <2>4, RowSet
    <2>6. faults' \in 0 .. MaxFaults /\ UNCHANGED <<rest, call>>
      BY <1>3, <1>7 DEF Lease
    <2> QED
      BY <1>1, <2>3, <2>5, <2>6 DEF rest
  <1>8. ASSUME NEW a \in Agents, NEW j \in Jobs, Renew(a, j) PROVE RowsOK' /\ Rest
    <2>1. win' \in Wins
      BY <1>8, JournalTyped DEF Renew, WinState
    <2> QED
      BY <1>1, <1>4, <1>8, <2>1 DEF Renew, rest
  <1>9. ASSUME NEW a \in Agents, NEW j \in Jobs, Intent(a, j) PROVE RowsOK' /\ Rest
    <2>1. win' \in Wins
      <3>1. UNCHANGED win \/ Journal(a, j, "approved") \/ Journal(a, j, "none")
        BY <1>9 DEF Intent
      <3>2. {"approved", "none"} \subseteq WinState
        BY DEF WinState
      <3> QED
        BY <1>1, <3>1, <3>2, JournalTyped
    <2>2. RowsOK'
      <3> DEFINE r == [job[j] EXCEPT !.phase = "submitting"]
      <3>1. r \in Row /\ Fit(r)
        BY <1>5, <1>s DEF Row, HANDED_OVER, Fit
      <3>3. UNCHANGED job \/ job' = [job EXCEPT ![j] = r]
        BY <1>9 DEF Intent
      <3> HIDE DEF r
      <3> QED
        BY <1>1, <1>4, <3>1, <3>3, RowSet
    <2>3. faults' \in 0 .. MaxFaults /\ UNCHANGED <<rest, call>>
      BY <1>3, <1>9 DEF Intent
    <2> QED
      BY <1>1, <2>1, <2>2, <2>3 DEF rest
  <1>10. ASSUME NEW a \in Agents, NEW j \in Jobs, NEW r \in ReportsOf(win[a][j].st), StatusRead(a, j, r)
         PROVE  RowsOK' /\ Rest
    <2>1. CASE Owns(a, j) /\ job[j].status \notin ENDED
               /\ call' = [call EXCEPT ![a] = [j |-> j, report |-> r, phase |-> job[j].phase, gen |-> job[j].gen]]
               /\ UNCHANGED <<win, faults>>
      <3>1. job[j].phase \in HANDED_OVER \cup BEFORE_HANDOVER
        BY <1>s, <2>1, PrintJobAssumption DEF Owns, Fit, Holders
      <3>2. [j |-> j, report |-> r, phase |-> job[j].phase, gen |-> job[j].gen] \in Calls
        <4>1. r \in Report /\ job[j].gen \in 0 .. MaxGen
          BY <1>5, ReportsTyped DEF Row
        <4> QED
          BY <3>1, <4>1 DEF Calls
      <3> QED
        BY <1>1, <1>4, <1>10, <2>1, <3>2 DEF StatusRead, rest
    <2>2. CASE UNCHANGED call /\ \E acked \in BOOLEAN : Acked(a, j, r, acked)
      <3>1. win' \in Wins /\ faults' \in 0 .. MaxFaults
        BY <1>3, <2>2, AckedTyped DEF Acked
      <3> QED
        BY <1>1, <1>4, <1>10, <2>2, <3>1 DEF StatusRead, rest
    <2> QED
      BY <1>10, <2>1, <2>2 DEF StatusRead
  <1>11. ASSUME NEW a \in Agents, StatusWrite(a) PROVE RowsOK' /\ Rest
    <2> DEFINE c == call[a]
               j == c.j
               after == AfterReport(job[j], c)
    <2>1. j \in Jobs /\ c.report \in Report
      BY <1>1, <1>11 DEF Calls, StatusWrite, Free, NoCall
    <2>2. after \in Row /\ Fit(after)
      BY <1>5, <1>s, <2>1, ReportTyped
    <2>3. /\ UNCHANGED job \/ job' = [job EXCEPT ![j] = after]
          /\ UNCHANGED owed \/ owed' = [owed EXCEPT ![j] = @ + 1]
          /\ call' = [call EXCEPT ![a] = NoCall] /\ UNCHANGED <<routed, cancels, printed>>
          /\ \E acked \in BOOLEAN : Acked(a, j, c.report, acked)
      BY <1>11 DEF StatusWrite
    <2> HIDE DEF after, j, c
    <2>4. RowsOK'
      BY <1>1, <1>4, <2>1, <2>2, <2>3, RowSet
    <2>5. win' \in Wins /\ faults' \in 0 .. MaxFaults
      BY <1>3, <2>1, <2>3, AckedTyped DEF Acked
    <2>6. owed' \in [Jobs -> Nat]
      BY <1>1, <2>1, <2>3
    <2>7. call' \in [Agents -> Calls]
      BY <1>1, <1>6, <2>3
    <2> QED
      BY <1>1, <2>3, <2>4, <2>5, <2>6, <2>7
  <1>12. ASSUME NEW a \in Agents, StatusLost(a) PROVE RowsOK' /\ Rest
    BY <1>1, <1>2, <1>4, <1>6, <1>12 DEF StatusLost, rest
  <1>13. ASSUME NEW j \in Jobs, Sweep(j) PROVE RowsOK' /\ Rest
    <2>1. ASSUME NEW st \in ENDED, job' = [job EXCEPT ![j].status = st] PROVE RowsOK'
      <3>1. LET r == [job[j] EXCEPT !.status = st]
            IN job' = [job EXCEPT ![j] = r] /\ r \in Row /\ Fit(r)
        BY <1>1, <2>1, StatusSet
      <3> QED
        BY <1>1, <3>1, RowSet
    <2>2. ASSUME job' = [job EXCEPT ![j] = Released(@)], job[j].gen < MaxAttempts PROVE RowsOK'
      <3>1. Released(job[j]) \in Row /\ Fit(Released(job[j]))
        BY <1>5, <2>2, ReleasedTyped, MaxGenFact DEF Row
      <3> QED
        BY <1>1, <2>2, <3>1, RowSet
    <2>3. RowsOK'
      BY <1>13, <2>1, <2>2 DEF Sweep, SweepLapsed, SweepSilent, SweepQueued, ENDED, JOB_TERMINAL
    <2>4. /\ UNCHANGED owed \/ owed' = [owed EXCEPT ![j] = @ + 1]
          /\ UNCHANGED <<routed, cancels, printed, faults, win, call>>
      BY <1>13 DEF Sweep, SweepLapsed, SweepSilent, SweepQueued, rest, agentVars
    <2> QED
      BY <1>1, <2>3, <2>4
  <1>14. ASSUME NEW a \in Agents, NEW j \in Jobs, FetchFails(a, j) PROVE RowsOK' /\ Rest
    <2>1. win' \in Wins
      BY <1>14, JournalTyped DEF FetchFails, WinState
    <2>2. UNCHANGED job \/ job' = [job EXCEPT ![j] = AfterRenderError(job[j])]
      BY <1>14 DEF FetchFails
    <2>3. RowsOK'
      BY <1>1, <1>4, <1>5, <1>s, <2>2, RenderTyped, RowSet
    <2> QED
      BY <1>1, <1>14, <2>1, <2>3 DEF FetchFails, rest
  <1>15. ASSUME NEW a \in Agents, NEW j \in Jobs, Submit(a, j) \/ Spooled(a, j) \/ Drop(a, j)
         PROVE RowsOK' /\ Rest
    <2>1. win' \in Wins
      <3>1. PICK st \in {"handed", "rejected", "spooled", "none"} : Journal(a, j, st)
        BY <1>15 DEF Submit, Spooled, Drop
      <3>2. st \in WinState
        BY DEF WinState
      <3> QED
        BY <3>1, <3>2, JournalTyped
    <2>2. UNCHANGED <<job, routed, owed, cancels, call>> /\ faults' \in 0 .. MaxFaults
      BY <1>1, <1>2, <1>15 DEF Submit, Spooled, Drop, rest
    <2>3. UNCHANGED printed \/ printed' = [printed EXCEPT ![j] = @ + 1]
      BY <1>15 DEF Submit, Spooled, Drop, rest
    <2>4. printed' \in [Jobs -> Nat]
      <3>1. printed \in [Jobs -> Nat] /\ printed[j] + 1 \in Nat
        BY <1>1
      <3> QED
        BY <2>3, <3>1
    <2> QED
      BY <1>1, <1>4, <2>1, <2>2, <2>4
  <1>16. ASSUME NEW a \in Agents, AgentRestart(a) PROVE RowsOK' /\ Rest
    <2>1. win' \in Wins
      <3> DEFINE T == [st : WinState, gen : 0 .. MaxGen]
                 After(found, j) == CASE win[a][j].st \in {"granted", "fetch_failed"} -> NoLease
                                      [] win[a][j].st = "handed" /\ found -> [win[a][j] EXCEPT !.st = "spooled"]
                                      [] win[a][j].st \in {"approved", "handed"} -> [win[a][j] EXCEPT !.st = "unclear"]
                                      [] OTHER -> win[a][j]
      <3>1. PICK found \in BOOLEAN : win' = [win EXCEPT ![a] = [j \in Jobs |-> After(found, j)]]
        BY <1>16 DEF AgentRestart
      <3>2. ASSUME NEW j \in Jobs PROVE After(found, j) \in T
        <4>1. win[a][j] \in T
          BY <1>1
        <4>2. /\ NoLease \in T /\ [win[a][j] EXCEPT !.st = "spooled"] \in T
              /\ [win[a][j] EXCEPT !.st = "unclear"] \in T
          BY <4>1, MaxGenFact DEF NoLease, WinState
        <4>3. After(found, j) \in {NoLease, [win[a][j] EXCEPT !.st = "spooled"],
                                   [win[a][j] EXCEPT !.st = "unclear"], win[a][j]}
          OBVIOUS
        <4> HIDE DEF T, After
        <4> QED
          BY <4>1, <4>2, <4>3
      <3> HIDE DEF After
      <3> QED
        BY <1>1, <3>1, <3>2
    <2> QED
      BY <1>1, <1>2, <1>4, <1>16, <2>1 DEF AgentRestart, rest
  <1>17. RowsOK' /\ Rest
    BY <1>7, <1>8, <1>9, <1>10, <1>11, <1>12, <1>13, <1>14, <1>15, <1>16 DEF NextAgent, CloudAgent, LocalAgent
  <1> QED
    BY <1>1, <1>17 DEF RowsOK, TypeOKJobs, TypeOKAgent, Calls

\* A row with a transport is a pushed one that nobody can lease; what reached the gateway
\* is never called back.
Pushed ==
    \A j \in Jobs :
        /\ route[j].state # "none" => job[j].delivery = "push" /\ job[j].status \notin {"queued", "absent"}
        /\ lin[j] # "none" => route[j].state \in {"delivered", "failed"}

\* Every step of the push delivery keeps the types.
LEMMA LinuxTyped ==
    ASSUME TypeOKJobs, RowsFit, TypeOKLinux, Pushed, NextLinux
    PROVE  TypeOKJobs' /\ RowsFit' /\ TypeOKLinux'
  <1> DEFINE Lins   == {"none", "got", "approved", "gave_up", "handed", "finished"}
             Route  == [state : {"none", "queued", "sending", "delivered", "failed", "expired"},
                        conn : 0 .. MaxConn, gen : 0 .. MaxGen, asks : BOOLEAN]
             Rest   == /\ routed' = routed /\ owed' \in [Jobs -> Nat] /\ cancels' = cancels
                       /\ printed' \in [Jobs -> Nat] /\ faults' \in 0 .. MaxFaults
             Link   == conn' \in 0 .. MaxConn /\ connects' \in 0 .. MaxConn /\ proto' \in {1, 2}
             Hand   == route' \in [Jobs -> Route] /\ waiting' \subseteq Jobs /\ lin' \in [Jobs -> Lins]
             Goal   == RowsOK' /\ Rest /\ Link /\ Hand
  <1>1. /\ RowsOK /\ routed \in [Jobs -> BOOLEAN] /\ owed \in [Jobs -> Nat] /\ cancels \subseteq Jobs
        /\ printed \in [Jobs -> Nat] /\ faults \in 0 .. MaxFaults
        /\ conn \in 0 .. MaxConn /\ connects \in 0 .. MaxConn /\ proto \in {1, 2}
        /\ route \in [Jobs -> Route] /\ waiting \subseteq Jobs /\ lin \in [Jobs -> Lins]
    BY DEF TypeOKJobs, TypeOKLinux, RowsOK
  <1>2. Fault => faults' \in 0 .. MaxFaults
    BY <1>1, PrintJobAssumption DEF Fault
  <1>3. ASSUME NEW ok, Arrives(ok) PROVE faults' \in 0 .. MaxFaults
    BY <1>1, <1>2, <1>3 DEF Arrives
  <1>4. UNCHANGED job => RowsOK'
    BY <1>1 DEF RowsOK, RowsFit
  <1>5. \A j \in Jobs : job[j] \in Row /\ Fit(job[j])
    BY <1>1 DEF RowsOK, RowsFit
  <1>6. ASSUME NEW j \in Jobs, NEW st \in ENDED \cup {"sent", "printing"}, job' = [job EXCEPT ![j].status = st]
        PROVE  RowsOK'
    <2>1. LET r == [job[j] EXCEPT !.status = st]
          IN job' = [job EXCEPT ![j] = r] /\ r \in Row /\ Fit(r)
      BY <1>1, <1>6, StatusSet
    <2> QED
      BY <1>1, <2>1, RowSet
  <1>7. UNCHANGED linkVars => Link
    BY <1>1 DEF linkVars
  <1>8. ASSUME NEW j \in Jobs, job[j].delivery = "push",
               NEW phase \in {"received", "submitting", "spooled"} \cup {job[j].phase},
               NEW st \in ENDED \cup {"sent", "printing"} \cup {job[j].status},
               job' = [job EXCEPT ![j] = [job[j] EXCEPT !.status = st, !.phase = phase]]
        PROVE  RowsOK'
    <2> DEFINE r == [job[j] EXCEPT !.status = st, !.phase = phase]
    <2>1. job[j] \in Row /\ Fit(job[j]) /\ job[j].holder = None
      BY <1>5, <1>8 DEF Fit
    <2>2. r \in Row
      <3>1. phase \in HANDED_OVER \cup {None, "leased", "fetching", "dispatched", "prepared", "received"}
        BY <2>1 DEF Row, HANDED_OVER
      <3>2. st \in ENDED \cup {"absent", "queued", "sent", "printing"}
        BY <2>1 DEF Row
      <3>3. [job[j] EXCEPT !.status = st] \in Row
        BY <2>1, <3>2 DEF Row
      <3>4. [[job[j] EXCEPT !.status = st] EXCEPT !.phase = phase] \in Row
        BY <3>1, <3>3 DEF Row
      <3> QED
        BY <3>4
    <2>3. r.status = "queued" => job[j].status = "queued"
      BY <1>8, <2>1 DEF Row, ENDED, JOB_TERMINAL
    <2>4. Fit(r)
      BY <2>1, <2>3 DEF Row, Fit
    <2> HIDE DEF r
    <2> QED
      BY <1>1, <1>8, <2>2, <2>4, RowSet DEF r
  <1>9. ASSUME Connect \/ Hello \/ Disconnect PROVE Goal
    <2>1. UNCHANGED <<job, routed, owed, cancels, printed, route, waiting, lin>>
      BY <1>9 DEF Connect, Hello, Disconnect, jobVars
    <2>2. Link /\ faults' \in 0 .. MaxFaults
      BY <1>1, <1>2, <1>9, LinuxPrintAssumption DEF Connect, Hello, Disconnect, jobVars
    <2> QED
      BY <1>1, <1>4, <2>1, <2>2
  <1>10. ASSUME NEW j \in Jobs, Prepare(j) PROVE Goal
    <2> DEFINE g == job[j].gen + 1
               asks == proto >= 2
               token == IF asks THEN g ELSE job[j].token
               phase == IF token # 0 THEN "prepared" ELSE "dispatched"
               r == [job[j] EXCEPT !.status = "sent", !.token = token, !.gen = g, !.phase = phase]
               l == [state |-> "queued", conn |-> conn, gen |-> g, asks |-> asks]
    <2>1. g \in 0 .. MaxGen /\ asks \in BOOLEAN
      BY <1>1, <1>5, <1>10, MaxGenFact DEF Prepare, Fit, Row
    <2>2. token \in 0 .. MaxGen /\ phase \in {"prepared", "dispatched"}
      BY <1>5, <2>1 DEF Row
    <2>3. job' = [job EXCEPT ![j] = r] /\ route' = [route EXCEPT ![j] = l]
      BY <1>10 DEF Prepare
    <2>4. l \in Route
      BY <1>1, <2>1
    <2>5. job[j].delivery = "push"
      BY <1>10 DEF Prepare
    <2> HIDE DEF g, token, phase
    <2>6. r \in Row /\ Fit(r)
      BY <1>5, <2>1, <2>2, <2>5 DEF Row, Fit
    <2> HIDE DEF r, l
    <2>7. RowsOK'
      BY <1>1, <2>3, <2>6, RowSet
    <2>8. Hand
      BY <1>1, <1>10, <2>3, <2>4 DEF Prepare
    <2> QED
      BY <1>1, <1>7, <1>10, <2>7, <2>8 DEF Prepare, others
  <1>11. ASSUME NEW j \in Jobs, PrepareRaises(j) \/ MarkTransportUncertain(j) \/ ReconcileQueued(j) \/ ReconcileSilent(j)
         PROVE Goal
    <2>1. RowsOK'
      BY <1>6, <1>11 DEF PrepareRaises, MarkTransportUncertain, ReconcileQueued, ReconcileSilent, ENDED, JOB_TERMINAL
    <2>2. UNCHANGED <<routed, owed, cancels, printed, conn, connects, proto, route, waiting, lin>>
      BY <1>11 DEF PrepareRaises, MarkTransportUncertain, ReconcileQueued, ReconcileSilent, others, linuxVars
    <2>3. faults' \in 0 .. MaxFaults
      BY <1>1, <1>2, <1>11 DEF PrepareRaises, MarkTransportUncertain, ReconcileQueued, ReconcileSilent
    <2> QED
      BY <1>1, <2>1, <2>2, <2>3
  <1>12. ASSUME NEW j \in Jobs, NEW st \in {"sending", "expired", "delivered", "failed"},
                route' = [route EXCEPT ![j].state = st]
         PROVE  route' \in [Jobs -> Route]
    <2>1. [route[j] EXCEPT !.state = st] \in Route
      BY <1>1
    <2> QED
      BY <1>1, <1>12, <2>1
  <1>13. ASSUME NEW j \in Jobs, NEW st \in Lins, lin' = [lin EXCEPT ![j] = st] PROVE lin' \in [Jobs -> Lins]
    BY <1>1, <1>13
  <1>14. ASSUME NEW j \in Jobs, ClaimRoute(j) PROVE Goal
    <2>1. route' \in [Jobs -> Route]
      BY <1>12, <1>14 DEF ClaimRoute
    <2> QED
      BY <1>1, <1>4, <1>7, <1>14, <2>1 DEF ClaimRoute, jobVars
  <1>15. ASSUME NEW j \in Jobs, Sent(j) PROVE Goal
    <2>1. route' \in [Jobs -> Route]
      BY <1>12, <1>15 DEF Sent
    <2>2. lin' \in [Jobs -> Lins]
      BY <1>1, <1>13, <1>15 DEF Sent
    <2>3. conn' \in 0 .. MaxConn /\ faults' \in 0 .. MaxFaults
      BY <1>1, <1>3, <1>15, LinuxPrintAssumption DEF Sent
    <2> QED
      BY <1>1, <1>4, <1>15, <2>1, <2>2, <2>3 DEF Sent, others
  <1>16. ASSUME NEW j \in Jobs, WaitEnds(j) PROVE Goal
    <2>1. owed' \in [Jobs -> Nat]
      BY <1>1, <1>16 DEF WaitEnds
    <2>2. waiting' \subseteq Jobs /\ UNCHANGED <<job, routed, cancels, printed, faults, route, lin>>
      BY <1>1, <1>16 DEF WaitEnds, others
    <2> QED
      BY <1>1, <1>4, <1>7, <1>16, <2>1, <2>2 DEF WaitEnds
  <1>17. ASSUME NEW j \in Jobs, ReconcileUnsent(j) PROVE Goal
    <2> DEFINE st == IF job[j].gen < MaxPush THEN "queued" ELSE "failed"
               r == [job[j] EXCEPT !.status = st]
    <2>1. r \in Row /\ Fit(r)
      BY <1>5, MaxGenFact DEF Row, Fit, ENDED, JOB_TERMINAL
    <2>2. job' = [job EXCEPT ![j] = r]
      BY <1>17 DEF ReconcileUnsent
    <2>3. NoRoute \in Route
      BY MaxGenFact, LinuxPrintAssumption DEF NoRoute
    <2> HIDE DEF r
    <2>4. RowsOK'
      BY <1>1, <2>1, <2>2, RowSet
    <2>5. Hand
      BY <1>1, <1>17, <2>3 DEF ReconcileUnsent
    <2> QED
      BY <1>1, <1>7, <1>17, <2>4, <2>5 DEF ReconcileUnsent, others
  <1>18. ASSUME NEW j \in Jobs, ReceiveAck(j) PROVE Goal
    <2>1. RowsOK'
      <3>1. job' = [job EXCEPT ![j] = [job[j] EXCEPT !.status = job[j].status, !.phase = "received"]]
        <4>1. [job[j] EXCEPT !.phase = "received"] = [job[j] EXCEPT !.status = job[j].status, !.phase = "received"]
          BY <1>5 DEF Row
        <4> QED
          BY <1>18, <4>1 DEF ReceiveAck
      <3> QED
        BY <1>8, <1>18, <3>1 DEF ReceiveAck
    <2> QED
      BY <1>1, <1>18, <2>1 DEF ReceiveAck, others, linuxVars
  <1>19. ASSUME NEW j \in Jobs, LinuxIntent(j) PROVE Goal
    <2>1. RowsOK'
      <3>1. CASE UNCHANGED job
        BY <1>4, <3>1
      <3>2. CASE job[j].delivery = "push" /\ job' = [job EXCEPT ![j].phase = "submitting"]
        <4>1. [job[j] EXCEPT !.phase = "submitting"] = [job[j] EXCEPT !.status = job[j].status, !.phase = "submitting"]
          BY <1>5 DEF Row
        <4>2. job' = [job EXCEPT ![j] = [job[j] EXCEPT !.status = job[j].status, !.phase = "submitting"]]
          BY <3>2, <4>1
        <4> QED
          BY <1>8, <3>2, <4>2
      <3> QED
        BY <1>19, <3>1, <3>2 DEF LinuxIntent
    <2>2. UNCHANGED lin \/ lin' = [lin EXCEPT ![j] = "approved"] \/ lin' = [lin EXCEPT ![j] = "finished"]
      BY <1>19 DEF LinuxIntent
    <2>3. lin' \in [Jobs -> Lins] /\ faults' \in 0 .. MaxFaults
      BY <1>1, <1>3, <1>19, <2>2 DEF LinuxIntent
    <2> QED
      BY <1>1, <1>7, <1>19, <2>1, <2>3 DEF LinuxIntent, others
  <1>20. ASSUME NEW j \in Jobs, NEW r \in LinuxReports(j), JobStatus(j, r) PROVE Goal
    <2> DEFINE after == StatusAfter(j, r)
               phase == IF after \in {"printing", "done"} THEN "spooled" ELSE job[j].phase
    <2>1. lin[j] # "none" /\ r.status \in {"printing", "done", "failed", "uncertain"}
      BY <1>20 DEF LinuxReports
    <2>2. job[j].delivery = "push"
      BY <2>1 DEF Pushed
    <2>3. after \in ENDED \cup {"printing"}
      BY <2>1 DEF StatusAfter, ENDED, JOB_TERMINAL
    <2>4. phase \in {"spooled"} \cup {job[j].phase}
      OBVIOUS
    <2>5. RowsOK'
      <3>1. UNCHANGED job \/ job' = [job EXCEPT ![j] = [job[j] EXCEPT !.status = after, !.phase = phase]]
        BY <1>1, <1>20 DEF JobStatus, RowsOK
      <3> HIDE DEF after, phase
      <3> QED
        BY <1>4, <1>8, <2>2, <2>3, <2>4, <3>1
    <2>6. UNCHANGED owed \/ owed' = [owed EXCEPT ![j] = @ + 1]
      BY <1>20 DEF JobStatus
    <2>7. UNCHANGED lin \/ lin' = [lin EXCEPT ![j] = "finished"]
      BY <1>20 DEF JobStatus
    <2>8. owed' \in [Jobs -> Nat] /\ lin' \in [Jobs -> Lins] /\ faults' \in 0 .. MaxFaults
      BY <1>1, <1>3, <1>20, <2>6, <2>7 DEF JobStatus
    <2> QED
      BY <1>1, <1>7, <1>20, <2>5, <2>8 DEF JobStatus, others
  <1>21. ASSUME NEW j \in Jobs, LinuxProceeds(j) PROVE Goal
    <2>1. lin' \in [Jobs -> Lins]
      BY <1>13, <1>21 DEF LinuxProceeds
    <2> QED
      BY <1>1, <1>4, <1>7, <1>21, <2>1 DEF LinuxProceeds, jobVars
  <1>22. ASSUME NEW j \in Jobs, LinuxFetchFails(j) PROVE Goal
    <2>1. UNCHANGED job \/ job' = [job EXCEPT ![j] = AfterRenderError(job[j])]
      BY <1>22 DEF LinuxFetchFails
    <2>2. RowsOK'
      BY <1>1, <1>4, <1>5, <2>1, RenderTyped, RowSet
    <2>3. lin' \in [Jobs -> Lins] /\ faults' \in 0 .. MaxFaults
      BY <1>1, <1>2, <1>13, <1>22 DEF LinuxFetchFails
    <2> QED
      BY <1>1, <1>7, <1>22, <2>2, <2>3 DEF LinuxFetchFails, others
  <1>23. ASSUME NEW j \in Jobs, LinuxSubmit(j) PROVE Goal
    <2>1. lin' \in [Jobs -> Lins]
      BY <1>13, <1>23 DEF LinuxSubmit
    <2>2. UNCHANGED printed \/ printed' = [printed EXCEPT ![j] = @ + 1]
      BY <1>23 DEF LinuxSubmit
    <2>3. printed' \in [Jobs -> Nat]
      BY <1>1, <2>2
    <2> QED
      BY <1>1, <1>4, <1>7, <1>23, <2>1, <2>3 DEF LinuxSubmit
  <1>24. Goal
    BY <1>9, <1>10, <1>11, <1>14, <1>15, <1>16, <1>17, <1>18, <1>19, <1>20, <1>21, <1>22, <1>23
       DEF NextLinux, CloudLinux, LocalLinux
  <1> QED
    BY <1>1, <1>24 DEF RowsOK, TypeOKJobs, TypeOKLinux
-----------------------------------------------------------------------------
(* Rows.  A pushed row stays one while its transport exists, a row handed to a *)
(* spooler stays with its agent, an outcome stands.                            *)

\* The holder of such a row may be at its spooler, or has been.
HeldRow(r) ==
    /\ r.delivery = "lease"
    /\ r.status \in {"done", "canceled", "uncertain"} \/ (r.status = "sent" /\ r.phase = "submitting")

StaysPushed(r, s) ==
    r.delivery = "push" /\ r.status \notin {"queued", "absent"} =>
        s.delivery = "push" /\ s.status \notin {"queued", "absent"}
StaysHeld(r, s) == HeldRow(r) => HeldRow(s) /\ s.holder = r.holder /\ s.token = r.token
Stands(r, s)    == r.status \in ENDED => s.status = r.status

AllPushed == \A k \in Jobs : StaysPushed(job[k], job'[k])
AllHeld   == \A k \in Jobs : StaysHeld(job[k], job'[k])
AllStand  == \A k \in Jobs : Stands(job[k], job'[k])

\* A row that is not written keeps its delivery, its holder and its outcome.
LEMMA Stays == ASSUME NEW r PROVE StaysPushed(r, r) /\ StaysHeld(r, r) /\ Stands(r, r)
  BY DEF StaysPushed, StaysHeld, Stands

\* So does every row when none is written.
LEMMA SameRows == ASSUME UNCHANGED job PROVE AllPushed /\ AllHeld /\ AllStand
  BY Stays DEF AllPushed, AllHeld, AllStand

\* What holds of the one row that is written holds of all.
LEMMA OneRow ==
    ASSUME RowsOK, NEW j \in Jobs, NEW s, job' = [job EXCEPT ![j] = s]
    PROVE  /\ StaysPushed(job[j], s) => AllPushed
           /\ StaysHeld(job[j], s) => AllHeld
           /\ Stands(job[j], s) => AllStand
  <1>1. \A k \in Jobs : job'[k] = IF k = j THEN s ELSE job[k]
    BY DEF RowsOK
  <1> QED
    BY <1>1, Stays DEF AllPushed, AllHeld, AllStand

\* A new status that is neither waiting nor absent.
LEMMA NewStatus ==
    ASSUME RowsOK, NEW j \in Jobs, NEW st \in ENDED \cup {"sent", "printing"},
           job' = [job EXCEPT ![j].status = st]
    PROVE  /\ AllPushed
           /\ st \in {"done", "canceled", "uncertain"} \/ ~HeldRow(job[j]) => AllHeld
           /\ job[j].status \notin ENDED => AllStand
  <1> DEFINE s == [job[j] EXCEPT !.status = st]
  <1>1. /\ job' = [job EXCEPT ![j] = s]
        /\ s.status = st /\ s.delivery = job[j].delivery /\ s.token = job[j].token /\ s.holder = job[j].holder
    BY StatusSet
  <1>2. st \notin {"queued", "absent"}
    BY DEF ENDED, JOB_TERMINAL
  <1> HIDE DEF s
  <1>3. StaysPushed(job[j], s)
    BY <1>1, <1>2 DEF StaysPushed
  <1>4. st \in {"done", "canceled", "uncertain"} \/ ~HeldRow(job[j]) => StaysHeld(job[j], s)
    BY <1>1 DEF StaysHeld, HeldRow
  <1>5. job[j].status \notin ENDED => Stands(job[j], s)
    BY DEF Stands
  <1> QED
    BY <1>1, <1>3, <1>4, <1>5, OneRow

\* A row that waits or is absent owes nothing.
LEMMA FromWaiting ==
    ASSUME NEW r, r.status \in {"queued", "absent"}, NEW s
    PROVE  StaysPushed(r, s) /\ StaysHeld(r, s) /\ Stands(r, s)
  <1>1. r.status \notin ENDED /\ ~HeldRow(r)
    BY DEF ENDED, JOB_TERMINAL, HeldRow
  <1> QED
    BY <1>1 DEF StaysPushed, StaysHeld, Stands

\* A row that waits or is absent may be written in any way.
LEMMA WaitingRow ==
    ASSUME RowsOK, NEW j \in Jobs, job[j].status \in {"queued", "absent"}, NEW s,
           job' = [job EXCEPT ![j] = s]
    PROVE  AllPushed /\ AllHeld /\ AllStand
  <1>1. StaysPushed(job[j], s) /\ StaysHeld(job[j], s) /\ Stands(job[j], s)
    BY FromWaiting
  <1> QED
    BY <1>1, OneRow

\* create_print_job() writes an absent row at most.
LEMMA CreatedStays ==
    ASSUME RowsOK, NEW j \in Jobs, NEW source, CreateJob(job, j, source)
    PROVE  AllPushed /\ AllHeld /\ AllStand
  <1>1. ASSUME NEW k \in Jobs, job[k].status = "absent",
               job' = [job EXCEPT ![k] = NewRow("queued", source, j, routed[k])]
        PROVE  AllPushed /\ AllHeld /\ AllStand
    BY <1>1, WaitingRow
  <1> QED
    BY <1>1, SameRows DEF CreateJob

\* A render error respects transports, holders and outcomes of a row in delivery ...
LEMMA RenderStays ==
    ASSUME RowsOK, NEW j \in Jobs, job' = [job EXCEPT ![j] = AfterRenderError(job[j])],
           job[j].status # "queued", job[j].status # "absent"
    PROVE  AllPushed /\ AllHeld /\ AllStand
  <1> DEFINE r == job[j]
             s == AfterRenderError(job[j])
  <1>1. r \in Row
    BY DEF RowsOK
  <1>2. /\ s.status \in ENDED /\ (r.status \in ENDED => s.status = r.status)
        /\ s.holder = r.holder /\ s.token = r.token /\ s.delivery = r.delivery
        /\ r.status \notin ENDED /\ r.phase \in HANDED_OVER => s.status = "uncertain"
    BY <1>1, RenderTyped
  <1>3. job' = [job EXCEPT ![j] = s]
    OBVIOUS
  <1> HIDE DEF s
  <1>4. StaysPushed(r, s) /\ Stands(r, s)
    BY <1>2 DEF StaysPushed, Stands, ENDED, JOB_TERMINAL
  <1>5. StaysHeld(r, s)
    BY <1>2 DEF StaysHeld, HeldRow, HANDED_OVER, ENDED, JOB_TERMINAL
  <1> QED
    BY <1>3, <1>4, <1>5, OneRow

\* ... and of any row.
LEMMA RenderAny ==
    ASSUME RowsOK, NEW j \in Jobs, job' = [job EXCEPT ![j] = AfterRenderError(job[j])]
    PROVE  AllPushed /\ AllHeld /\ AllStand
  <1>1. CASE job[j].status \in {"queued", "absent"}
    BY <1>1, WaitingRow
  <1> QED
    BY <1>1, RenderStays

\* Users, replacements and the move to lease delivery leave pushed and held rows so.
LEMMA JobsStay ==
    ASSUME TypeOKJobs, RowsFit, NextJobs
    PROVE  AllPushed /\ AllHeld
  <1>1. RowsOK
    BY DEF TypeOKJobs, RowsOK
  <1>2. ASSUME NEW j \in Jobs, DispatchFallback(j) PROVE AllPushed /\ AllHeld
    BY <1>1, <1>2, CreatedStays, SameRows DEF DispatchFallback
  <1>3. ASSUME NEW j \in Jobs, FallbackLost(j) \/ CancelRead(j) \/ RouteActivated(j) PROVE AllPushed /\ AllHeld
    <2>1. UNCHANGED job
      BY <1>3 DEF FallbackLost, CancelRead, RouteActivated
    <2> QED
      BY <2>1, SameRows
  <1>4. ASSUME NEW j \in Jobs, CancelWrite(j) PROVE AllPushed /\ AllHeld
    BY <1>1, <1>4, NewStatus DEF CancelWrite, ENDED, JOB_TERMINAL
  <1>5. ASSUME NEW j \in Jobs, NEW action \in Actions, Resolve(j, action) PROVE AllPushed /\ AllHeld
    <2> DEFINE st == IF action = "done" THEN "done" ELSE "canceled"
               rows == [job EXCEPT ![j].status = st]
               s == [job[j] EXCEPT !.status = st]
    <2>1. job[j].status \notin {"queued", "absent"} /\ st \in {"done", "canceled"}
      BY <1>5 DEF Resolve
    <2>2. /\ rows = [job EXCEPT ![j] = s]
          /\ s.status = st /\ s.delivery = job[j].delivery /\ s.token = job[j].token /\ s.holder = job[j].holder
      <3> HIDE DEF st
      <3> QED
        BY <1>1, <2>1, StatusSet DEF ENDED, JOB_TERMINAL
    <2> HIDE DEF s
    <2>3. StaysPushed(job[j], s) /\ StaysHeld(job[j], s)
      <3>1. StaysPushed(job[j], s)
        BY <2>1, <2>2 DEF StaysPushed
      <3>2. StaysHeld(job[j], s)
        BY <2>1, <2>2 DEF StaysHeld, HeldRow
      <3> QED
        BY <3>1, <3>2
    <2>4. \/ job' = rows
          \/ \E k \in Jobs : /\ job[k].status = "absent"
                             /\ job' = [rows EXCEPT ![k] = NewRow("queued", "manual", j, routed[k])]
      BY <1>5 DEF Resolve, CreateJob
    <2> HIDE DEF rows, st
    <2>5. CASE job' = rows
      BY <1>1, <2>2, <2>3, <2>5, OneRow
    <2>6. ASSUME NEW k \in Jobs, job[k].status = "absent",
                 job' = [rows EXCEPT ![k] = NewRow("queued", "manual", j, routed[k])]
          PROVE  AllPushed /\ AllHeld
      <3>1. \A i \in Jobs : \/ i = k
                            \/ i = j /\ job'[i] = s
                            \/ job'[i] = job[i]
        BY <1>1, <2>2, <2>6 DEF RowsOK
      <3> QED
        BY <2>3, <2>6, <3>1, FromWaiting, Stays DEF AllPushed, AllHeld
    <2> QED
      BY <2>4, <2>5, <2>6
  <1>6. ASSUME NEW j \in Jobs, EnqueueForAgents(j) PROVE AllPushed /\ AllHeld
    <2> DEFINE s == [job[j] EXCEPT !.delivery = "lease"]
    <2>1. job' = [job EXCEPT ![j] = s] /\ job[j].status = "queued"
      BY <1>6 DEF EnqueueForAgents
    <2> HIDE DEF s
    <2> QED
      BY <1>1, <2>1, WaitingRow
  <1> QED
    BY <1>2, <1>3, <1>4, <1>5, <1>6 DEF NextJobs

\* What a report makes of the row it was read from.
LEMMA ReportStays ==
    ASSUME NEW r \in Row, NEW c, c.report \in Report, r.delivery = "lease", r.status \notin ENDED
    PROVE  StaysPushed(r, AfterReport(r, c)) /\ Stands(r, AfterReport(r, c))
  BY DEF StaysPushed, Stands

\* sweep() respects transports, holders and outcomes.
LEMMA SweepStays ==
    ASSUME RowsOK, NEW j \in Jobs, Sweep(j)
    PROVE  AllPushed /\ AllHeld /\ AllStand
  <1> DEFINE All == AllPushed /\ AllHeld /\ AllStand
  <1>0. RowsOK
    OBVIOUS
  <1>1. CASE SweepLapsed(j)
    <2>1. /\ job[j].delivery = "lease" /\ job[j].status = "sent" /\ job[j].phase \in BEFORE_HANDOVER
          /\ job' = [job EXCEPT ![j] = Released(job[j])] \/ job' = [job EXCEPT ![j].status = "failed"]
      BY <1>1 DEF SweepLapsed, Waits
    <2>2. ~HeldRow(job[j]) /\ job[j].status \notin ENDED
      BY <2>1 DEF HeldRow, BEFORE_HANDOVER, ENDED, JOB_TERMINAL
    <2>3. ASSUME NEW s, job' = [job EXCEPT ![j] = s] PROVE All
      <3>1. StaysPushed(job[j], s) /\ StaysHeld(job[j], s) /\ Stands(job[j], s)
        BY <2>1, <2>2 DEF StaysPushed, StaysHeld, Stands
      <3> QED
        BY <1>0, <2>3, <3>1, OneRow
    <2>4. CASE job' = [job EXCEPT ![j] = Released(job[j])]
      BY <2>3, <2>4
    <2>5. CASE job' = [job EXCEPT ![j].status = "failed"]
      BY <1>0, <2>2, <2>5, NewStatus DEF ENDED, JOB_TERMINAL
    <2> QED
      BY <2>1, <2>4, <2>5
  <1>2. CASE SweepSilent(j)
    <2>1. /\ job[j].status \in {"sent", "printing"}
          /\ job' = [job EXCEPT ![j].status = "uncertain"]
      BY <1>2 DEF SweepSilent, Waits
    <2> QED
      BY <1>0, <2>1, NewStatus DEF ENDED, JOB_TERMINAL
  <1>3. CASE SweepQueued(j)
    <2>1. /\ job[j].status = "queued"
          /\ job' = [job EXCEPT ![j].status = "failed"]
      BY <1>3 DEF SweepQueued
    <2>2. ~HeldRow(job[j])
      BY <2>1 DEF HeldRow
    <2> QED
      BY <1>0, <2>1, <2>2, NewStatus DEF ENDED, JOB_TERMINAL
  <1> QED
    BY <1>1, <1>2, <1>3 DEF Sweep

\* The lease delivery does so too; only a report of the holder may take a held row away.
LEMMA AgentStays ==
    ASSUME TypeOKJobs, RowsFit, TypeOKAgent, NextAgent
    PROVE  /\ AllPushed /\ AllStand
           /\ \/ AllHeld
              \/ \E a \in Agents : /\ StatusWrite(a) /\ call[a].j \in Jobs /\ job[call[a].j].holder = a
                                   /\ \A k \in Jobs \ {call[a].j} : job'[k] = job[k]
  <1> DEFINE All == AllPushed /\ AllHeld /\ AllStand
  <1>1. RowsOK
    BY DEF TypeOKJobs, RowsOK
  <1>2. \A j \in Jobs : job[j] \in Row /\ Fit(job[j])
    BY <1>1 DEF RowsOK, RowsFit
  <1>3. UNCHANGED job => All
    BY SameRows
  <1>4. ASSUME NEW a \in Agents, NEW j \in Jobs, Lease(a, j) PROVE All
    <2> DEFINE s == [job[j] EXCEPT !.status = "sent", !.phase = "leased", !.holder = a,
                                   !.token = job[j].gen + 1, !.gen = job[j].gen + 1]
    <2>1. job' = [job EXCEPT ![j] = s] /\ job[j].status = "queued"
      BY <1>4 DEF Lease
    <2> HIDE DEF s
    <2> QED
      BY <1>1, <2>1, WaitingRow
  <1>5. ASSUME NEW a \in Agents, NEW j \in Jobs, Intent(a, j) PROVE All
    <2> DEFINE s == [job[j] EXCEPT !.phase = "submitting"]
    <2>1. \/ UNCHANGED job
          \/ job' = [job EXCEPT ![j] = s] /\ job[j].status = "sent" /\ job[j].phase \in BEFORE_HANDOVER
      BY <1>5 DEF Intent
    <2>2. /\ s.status = job[j].status /\ s.delivery = job[j].delivery
      BY <1>2 DEF Row
    <2> HIDE DEF s
    <2>3. ASSUME job[j].status = "sent", job[j].phase \in BEFORE_HANDOVER
          PROVE  StaysPushed(job[j], s) /\ StaysHeld(job[j], s) /\ Stands(job[j], s)
      <3>1. ~HeldRow(job[j])
        BY <2>3 DEF HeldRow, BEFORE_HANDOVER
      <3> QED
        BY <2>2, <3>1 DEF StaysPushed, StaysHeld, Stands
    <2> QED
      BY <1>1, <1>3, <2>1, <2>3, OneRow
  <1>6. ASSUME NEW a \in Agents, StatusWrite(a)
        PROVE  /\ AllPushed /\ AllStand
               /\ \/ AllHeld
                  \/ /\ call[a].j \in Jobs /\ job[call[a].j].holder = a
                     /\ \A k \in Jobs \ {call[a].j} : job'[k] = job[k]
    <2> DEFINE c == call[a]
               j == c.j
               after == AfterReport(job[j], c)
    <2>1. j \in Jobs /\ c.report \in Report
      BY <1>6 DEF TypeOKAgent, StatusWrite, Free, NoCall
    <2>2. \/ UNCHANGED job
          \/ job' = [job EXCEPT ![j] = after] /\ job[j].holder = a /\ job[j].status \notin ENDED
      BY <1>6 DEF StatusWrite
    <2>3. CASE job' = [job EXCEPT ![j] = after] /\ job[j].holder = a /\ job[j].status \notin ENDED
      <3>1. job[j].delivery = "lease"
        BY <1>2, <2>1, <2>3, PrintJobAssumption DEF Fit, Holders
      <3>2. job[j] \in Row
        BY <1>2, <2>1
      <3>3. StaysPushed(job[j], after) /\ Stands(job[j], after)
        <4> HIDE DEF c, j
        <4> QED
          BY <2>1, <2>3, <3>1, <3>2, ReportStays
      <3> HIDE DEF after
      <3>4. AllPushed /\ AllStand
        <4> HIDE DEF c, j
        <4> QED
          BY <1>1, <2>1, <2>3, <3>3, OneRow
      <3>5. \A k \in Jobs \ {j} : job'[k] = job[k]
        BY <1>1, <2>1, <2>3 DEF RowsOK
      <3> QED
        BY <2>1, <2>3, <3>4, <3>5
    <2> QED
      BY <1>3, <2>2, <2>3
  <1>7. ASSUME NEW j \in Jobs, Sweep(j) PROVE All
    BY <1>1, <1>7, SweepStays
  <1>8. ASSUME NEW a \in Agents, NEW j \in Jobs, FetchFails(a, j) PROVE All
    <2>1. UNCHANGED job \/ job' = [job EXCEPT ![j] = AfterRenderError(job[j])]
      BY <1>8 DEF FetchFails
    <2> QED
      BY <1>1, <1>3, <2>1, RenderAny
  <1>9. CASE UNCHANGED job
    BY <1>3, <1>9
  <1>10. \/ UNCHANGED job
         \/ \E a \in Agents : StatusWrite(a) \/ \E j \in Jobs : Lease(a, j) \/ Intent(a, j) \/ FetchFails(a, j)
         \/ \E j \in Jobs : Sweep(j)
    <2>1. ASSUME NEW a \in Agents, NEW j \in Jobs,
                 \/ Renew(a, j) \/ Submit(a, j) \/ Spooled(a, j) \/ Drop(a, j)
                 \/ \E r \in ReportsOf(win[a][j].st) : StatusRead(a, j, r)
          PROVE  UNCHANGED job
      BY <2>1 DEF Renew, Submit, Spooled, Drop, StatusRead
    <2>2. ASSUME NEW a \in Agents, StatusLost(a) \/ AgentRestart(a) PROVE UNCHANGED job
      BY <2>2 DEF StatusLost, AgentRestart
    <2> QED
      BY <2>1, <2>2 DEF NextAgent, CloudAgent, LocalAgent
  <1> QED
    BY <1>4, <1>5, <1>6, <1>7, <1>8, <1>9, <1>10

\* A pushed row that is written on in delivery.
LEMMA PushRow ==
    ASSUME RowsOK, NEW j \in Jobs, NEW s, job' = [job EXCEPT ![j] = s],
           job[j].delivery = "push", s.delivery = "push", s.status \notin {"queued", "absent"},
           job[j].status \notin ENDED
    PROVE  AllPushed /\ AllHeld /\ AllStand
  <1>1. StaysPushed(job[j], s) /\ StaysHeld(job[j], s) /\ Stands(job[j], s)
    BY DEF StaysPushed, StaysHeld, Stands, HeldRow
  <1> QED
    BY <1>1, OneRow

\* Transports that are not replaced keep their rows pushed.
LEMMA TransportsStay ==
    ASSUME Pushed, AllPushed, UNCHANGED route,
           \A k \in Jobs : lin'[k] # "none" => lin[k] # "none"
    PROVE  Pushed'
  BY DEF Pushed, AllPushed, StaysPushed

\* Every step of the push delivery respects held rows and outcomes, and keeps transports
\* with their rows.
LEMMA LinuxStays ==
    ASSUME TypeOKJobs, RowsFit, TypeOKLinux, Pushed, NextLinux
    PROVE  AllHeld /\ AllStand /\ Pushed'
  <1> DEFINE Goal == AllHeld /\ AllStand /\ Pushed'
  <1>1. /\ RowsOK
        /\ \A j \in Jobs : job[j] \in Row /\ Fit(job[j])
    BY DEF TypeOKJobs, RowsOK, RowsFit
  <1>2. /\ \A st, i : route' = [route EXCEPT ![i] = st] =>
              \A k \in Jobs : route'[k] = IF k = i THEN st ELSE route[k]
        /\ \A st, i : lin' = [lin EXCEPT ![i] = st] =>
              \A k \in Jobs : lin'[k] = IF k = i THEN st ELSE lin[k]
    BY DEF TypeOKLinux
  <1>3. ASSUME AllPushed, AllHeld, AllStand, UNCHANGED <<route, lin>> PROVE Goal
    BY <1>3, TransportsStay
  <1>4. ASSUME UNCHANGED <<job, route, lin>> PROVE Goal
    BY <1>3, <1>4, SameRows
  <1>5. CASE Connect \/ Hello \/ Disconnect
    <2>1. UNCHANGED <<job, route, lin>>
      BY <1>5 DEF Connect, Hello, Disconnect, jobVars
    <2> QED
      BY <1>4, <2>1
  <1>6. ASSUME NEW j \in Jobs, Prepare(j) PROVE Goal
    <2>1. /\ job[j].status = "queued" /\ job[j].delivery = "push"
          /\ \E s : /\ job' = [job EXCEPT ![j] = s] /\ s.status = "sent" /\ s.delivery = "push"
          /\ \E l : route' = [route EXCEPT ![j] = l] /\ l.state = "queued"
          /\ UNCHANGED lin
      <3> DEFINE g == job[j].gen + 1
                 asks == proto >= 2
                 token == IF asks THEN g ELSE job[j].token
                 phase == IF token # 0 THEN "prepared" ELSE "dispatched"
                 s == [job[j] EXCEPT !.status = "sent", !.token = token, !.gen = g, !.phase = phase]
                 l == [state |-> "queued", conn |-> conn, gen |-> g, asks |-> asks]
      <3>1. /\ job[j].status = "queued" /\ job[j].delivery = "push" /\ UNCHANGED lin
            /\ job' = [job EXCEPT ![j] = s] /\ route' = [route EXCEPT ![j] = l]
        BY <1>6 DEF Prepare
      <3>2. l.state = "queued"
        OBVIOUS
      <3>3. s.status = "sent" /\ s.delivery = job[j].delivery
        <4> HIDE DEF token, phase, g
        <4> QED
          BY <1>1 DEF Row
      <3> HIDE DEF s, l
      <3> QED
        BY <3>1, <3>2, <3>3
    <2>2. AllHeld /\ AllStand
      BY <1>1, <2>1, WaitingRow
    <2>3. lin[j] = "none"
      BY <2>1 DEF Pushed
    <2>4. \A k \in Jobs \ {j} : job'[k] = job[k] /\ route'[k] = route[k]
      BY <1>1, <1>2, <2>1 DEF RowsOK
    <2>5. job'[j].delivery = "push" /\ job'[j].status = "sent"
      BY <1>1, <2>1 DEF RowsOK
    <2> QED
      BY <2>1, <2>2, <2>3, <2>4, <2>5 DEF Pushed
  <1>7. ASSUME NEW j \in Jobs, PrepareRaises(j) \/ ReconcileQueued(j) PROVE Goal
    <2>1. job[j].status = "queued" /\ job' = [job EXCEPT ![j].status = "failed"] /\ UNCHANGED <<route, lin>>
      BY <1>7 DEF PrepareRaises, ReconcileQueued, linuxVars
    <2>2. ~HeldRow(job[j])
      BY <2>1 DEF HeldRow
    <2> QED
      BY <1>1, <1>3, <2>1, <2>2, NewStatus DEF ENDED, JOB_TERMINAL
  <1>8. ASSUME NEW j \in Jobs, MarkTransportUncertain(j) \/ ReconcileSilent(j) PROVE Goal
    <2>1. /\ job[j].status \in {"sent", "printing"} /\ job' = [job EXCEPT ![j].status = "uncertain"]
          /\ UNCHANGED <<route, lin>>
      BY <1>8 DEF MarkTransportUncertain, ReconcileSilent, linuxVars
    <2> QED
      BY <1>1, <1>3, <2>1, NewStatus DEF ENDED, JOB_TERMINAL
  <1>9. ASSUME NEW j \in Jobs, ClaimRoute(j) PROVE Goal
    <2>1. UNCHANGED job /\ UNCHANGED lin /\ route[j].state = "queued"
      BY <1>9 DEF ClaimRoute, jobVars
    <2>2. \A k \in Jobs : route'[k].state # "none" => route[k].state # "none"
      BY <1>2, <1>9, <2>1 DEF ClaimRoute
    <2>3. lin[j] = "none" /\ \A k \in Jobs \ {j} : route'[k] = route[k]
      BY <1>2, <1>9, <2>1 DEF ClaimRoute, Pushed
    <2> QED
      BY <2>1, <2>2, <2>3, SameRows DEF Pushed
  <1>10. ASSUME NEW j \in Jobs, Sent(j) PROVE Goal
    <2>1. UNCHANGED job /\ route[j].state = "sending"
      BY <1>10 DEF Sent
    <2>2. PICK ok \in BOOLEAN, arrived \in BOOLEAN :
              /\ route' = [route EXCEPT ![j].state = IF ok THEN "delivered" ELSE "failed"]
              /\ lin' = IF arrived /\ lin[j] = "none" THEN [lin EXCEPT ![j] = "got"] ELSE lin
      BY <1>10 DEF Sent
    <2>3. /\ route'[j].state \in {"delivered", "failed"}
          /\ \A k \in Jobs \ {j} : route'[k] = route[k]
      BY <2>2 DEF TypeOKLinux
    <2>4. \A k \in Jobs \ {j} : lin'[k] = lin[k]
      BY <1>2, <2>2
    <2> QED
      BY <2>1, <2>3, <2>4, SameRows DEF Pushed
  <1>11. ASSUME NEW j \in Jobs, WaitEnds(j) PROVE Goal
    BY <1>4, <1>11 DEF WaitEnds
  <1>12. ASSUME NEW j \in Jobs, ReconcileUnsent(j) PROVE Goal
    <2> DEFINE st == IF job[j].gen < MaxPush THEN "queued" ELSE "failed"
               s == [job[j] EXCEPT !.status = st]
    <2>1. /\ job' = [job EXCEPT ![j] = s] /\ route' = [route EXCEPT ![j] = NoRoute] /\ UNCHANGED lin
          /\ job[j].delivery = "push" /\ job[j].status \in {"sent", "printing"}
          /\ route[j].state \in {"queued", "expired"}
      BY <1>12 DEF ReconcileUnsent, Unsent
    <2> HIDE DEF s
    <2>2. lin[j] = "none" /\ NoRoute.state = "none"
      BY <2>1 DEF Pushed, NoRoute
    <2>3. StaysHeld(job[j], s) /\ Stands(job[j], s)
      BY <2>1 DEF StaysHeld, Stands, HeldRow, ENDED, JOB_TERMINAL
    <2>4. AllHeld /\ AllStand
      BY <1>1, <2>1, <2>3, OneRow
    <2>5. \A k \in Jobs \ {j} : job'[k] = job[k] /\ route'[k] = route[k]
      BY <1>1, <1>2, <2>1 DEF RowsOK
    <2>6. route'[j] = NoRoute
      BY <2>1 DEF TypeOKLinux
    <2> QED
      BY <2>1, <2>2, <2>4, <2>5, <2>6 DEF Pushed
  <1>13. ASSUME NEW j \in Jobs, ReceiveAck(j) PROVE Goal
    <2> DEFINE s == [job[j] EXCEPT !.phase = "received"]
    <2>1. /\ job' = [job EXCEPT ![j] = s] /\ job[j].delivery = "push" /\ job[j].status = "sent"
          /\ UNCHANGED <<route, lin>>
      BY <1>13 DEF ReceiveAck, linuxVars
    <2>2. s.delivery = "push" /\ s.status = "sent"
      BY <1>1, <2>1 DEF Row
    <2> HIDE DEF s
    <2> QED
      BY <1>1, <1>3, <2>1, <2>2, PushRow DEF ENDED, JOB_TERMINAL
  <1>14. ASSUME NEW j \in Jobs, LinuxIntent(j) PROVE Goal
    <2> DEFINE s == [job[j] EXCEPT !.phase = "submitting"]
    <2>1. /\ \/ UNCHANGED job
             \/ job' = [job EXCEPT ![j] = s] /\ job[j].delivery = "push" /\ job[j].status = "sent"
          /\ lin[j] = "got" /\ UNCHANGED route
      BY <1>14 DEF LinuxIntent
    <2>2. \A k \in Jobs : lin'[k] # "none" => lin[k] # "none"
      BY <1>2, <1>14 DEF LinuxIntent
    <2>3. s.delivery = job[j].delivery /\ s.status = job[j].status
      BY <1>1 DEF Row
    <2> HIDE DEF s
    <2>4. AllPushed /\ AllHeld /\ AllStand
      BY <1>1, <2>1, <2>3, PushRow, SameRows DEF ENDED, JOB_TERMINAL
    <2> QED
      BY <2>1, <2>2, <2>4, TransportsStay
  <1>15. ASSUME NEW j \in Jobs, NEW r \in LinuxReports(j), JobStatus(j, r) PROVE Goal
    <2> DEFINE after == StatusAfter(j, r)
               phase == IF after \in {"printing", "done"} THEN "spooled" ELSE job[j].phase
               s == [job[j] EXCEPT !.status = after, !.phase = phase]
    <2>1. lin[j] # "none" /\ r.status \in {"printing", "done", "failed", "uncertain"}
      BY DEF LinuxReports
    <2>2. job[j].delivery = "push"
      BY <2>1 DEF Pushed
    <2>3. after \notin {"queued", "absent"}
      BY <2>1 DEF StatusAfter
    <2>4. \/ UNCHANGED job
          \/ job' = [job EXCEPT ![j] = s] /\ job[j].status \notin ENDED
      BY <1>1, <1>15 DEF JobStatus, Ignored, Live, RowsOK
    <2>5. s.delivery = job[j].delivery /\ s.status = after
      <3> HIDE DEF after, phase
      <3> QED
        BY <1>1 DEF Row
    <2> HIDE DEF s, after
    <2>6. AllPushed /\ AllHeld /\ AllStand
      BY <1>1, <2>2, <2>3, <2>4, <2>5, PushRow, SameRows
    <2>7. UNCHANGED route /\ \A k \in Jobs : lin'[k] # "none" => lin[k] # "none"
      BY <1>2, <1>15, <2>1 DEF JobStatus
    <2> QED
      BY <2>6, <2>7, TransportsStay
  <1>16. ASSUME NEW j \in Jobs, LinuxProceeds(j) \/ LinuxSubmit(j) PROVE Goal
    <2>1. UNCHANGED <<job, route>> /\ lin[j] # "none"
      BY <1>16 DEF LinuxProceeds, LinuxSubmit, jobVars
    <2>2. \A k \in Jobs : lin'[k] # "none" => lin[k] # "none"
      BY <1>2, <1>16, <2>1 DEF LinuxProceeds, LinuxSubmit
    <2> QED
      BY <2>1, <2>2, SameRows, TransportsStay
  <1>17. ASSUME NEW j \in Jobs, LinuxFetchFails(j) PROVE Goal
    <2>1. /\ UNCHANGED job \/ job' = [job EXCEPT ![j] = AfterRenderError(job[j])]
          /\ UNCHANGED route /\ lin[j] # "none"
      BY <1>17 DEF LinuxFetchFails
    <2>2. \A k \in Jobs : lin'[k] # "none" => lin[k] # "none"
      BY <1>2, <1>17, <2>1 DEF LinuxFetchFails
    <2> QED
      BY <1>1, <2>1, <2>2, RenderAny, SameRows, TransportsStay
  <1> QED
    BY <1>5, <1>6, <1>7, <1>8, <1>9, <1>10, <1>11, <1>12, <1>13, <1>14, <1>15, <1>16, <1>17
       DEF NextLinux, CloudLinux, LocalLinux
-----------------------------------------------------------------------------
(* The invariant and the theorems. *)

PrintInv == TypeOK /\ RowsFit /\ Pushed

\* At the start nothing is transported.
LEMMA PrintInvInit == Init => PrintInv
  <1> SUFFICES ASSUME Init PROVE PrintInv
    OBVIOUS
  <1>1. Pushed
    BY DEF Init, InitLinux, NoRoute, Pushed
  <1> QED
    BY <1>1, InitTyped DEF PrintInv

\* Types, bounds and transports are kept by every step.
LEMMA PrintInvStep == PrintInv /\ [Next]_vars => PrintInv'
  <1> SUFFICES ASSUME PrintInv, [Next]_vars PROVE PrintInv'
    OBVIOUS
  <1> USE DEF PrintInv, TypeOK
  <1>1. CASE NextJobs /\ UNCHANGED <<agentVars, linuxVars>>
    <2>1. TypeOKAgent' /\ TypeOKLinux'
      BY <1>1 DEF TypeOKAgent, TypeOKLinux, agentVars, linuxVars
    <2>2. Pushed'
      BY <1>1, JobsStay, TransportsStay DEF linuxVars
    <2> QED
      BY <1>1, <2>1, <2>2, JobsTyped
  <1>2. CASE NextAgent /\ UNCHANGED linuxVars
    <2>1. TypeOKLinux'
      BY <1>2 DEF TypeOKLinux, linuxVars
    <2>2. Pushed'
      BY <1>2, AgentStays, TransportsStay DEF linuxVars
    <2> QED
      BY <1>2, <2>1, <2>2, AgentTyped
  <1>3. CASE NextLinux /\ UNCHANGED agentVars
    <2>1. TypeOKAgent'
      BY <1>3 DEF TypeOKAgent, agentVars
    <2> QED
      BY <1>3, <2>1, LinuxStays, LinuxTyped
  <1>4. CASE UNCHANGED vars
    BY <1>4 DEF vars, jobVars, agentVars, linuxVars, TypeOKJobs, TypeOKAgent, TypeOKLinux, RowsFit, Pushed
  <1> QED
    BY <1>1, <1>2, <1>3, <1>4 DEF Next

\* The invariant of rows, journals and transports.
LEMMA PrintInvHolds == Spec => []PrintInv
  BY PrintInvInit, PrintInvStep, PTL DEF Spec

\* The rows of print_job, the journals and the transports keep their types: no lease or
\* transport takes a job past its attempts, and every call that apply_agent_status() has
\* begun names a row that was leased.
THEOREM PrintTypeCorrect == Spec => []TypeOK
  BY PrintInvHolds, PTL DEF PrintInv

\* A report, a sweep, the reconciliation or a render error never changes a row that has
\* ended: apply_agent_status(), sweep(), _apply_job_status(), reconcile() and
\* mark_job_failed() all stop at a terminal or uncertain status.
THEOREM OutcomeStandsHolds == Spec => OutcomeStands
  <1> DEFINE ByPerson(j) == CancelWrite(j) \/ \E action \in Actions : Resolve(j, action)
             Only == \A j \in Jobs : job[j].status \in ENDED /\ job'[j].status # job[j].status
                                    => ByPerson(j)
  <1>1. ASSUME PrintInv, [Next]_vars PROVE [Only]_vars
    <2>0. RowsOK /\ TypeOKJobs /\ RowsFit /\ TypeOKAgent /\ TypeOKLinux /\ Pushed
      BY <1>1 DEF PrintInv, TypeOK, TypeOKJobs, RowsOK
    <2>1. AllStand => Only
      BY DEF AllStand, Stands
    <2>2. CASE NextAgent
      BY <2>0, <2>1, <2>2, AgentStays
    <2>3. CASE NextLinux
      BY <2>0, <2>1, <2>3, LinuxStays
    <2>4. CASE NextJobs
      <3>1. ASSUME NEW j \in Jobs, DispatchFallback(j) PROVE Only
        BY <2>0, <2>1, <3>1, CreatedStays, SameRows DEF DispatchFallback
      <3>2. ASSUME NEW j \in Jobs, FallbackLost(j) \/ CancelRead(j) \/ RouteActivated(j) PROVE Only
        <4>1. UNCHANGED job
          BY <3>2 DEF FallbackLost, CancelRead, RouteActivated
        <4> QED
          BY <2>1, <4>1, SameRows
      <3>3. ASSUME NEW j \in Jobs, CancelWrite(j) PROVE Only
        <4>1. \A k \in Jobs \ {j} : job'[k] = job[k]
          BY <2>0, <3>3 DEF CancelWrite, RowsOK
        <4> QED
          BY <3>3, <4>1
      <3>4. ASSUME NEW j \in Jobs, NEW action \in Actions, Resolve(j, action) PROVE Only
        <4>1. \A k \in Jobs \ {j} : job'[k] = job[k] \/ job[k].status = "absent"
          <5> DEFINE rows == [job EXCEPT ![j].status = IF action = "done" THEN "done" ELSE "canceled"]
          <5>1. \A k \in Jobs \ {j} : rows[k] = job[k]
            BY <2>0 DEF RowsOK
          <5>2. \/ job' = rows
                \/ \E k \in Jobs : /\ job[k].status = "absent"
                                   /\ job' = [rows EXCEPT ![k] = NewRow("queued", "manual", j, routed[k])]
            BY <3>4 DEF Resolve, CreateJob
          <5>3. DOMAIN rows = Jobs
            BY <2>0 DEF RowsOK
          <5> HIDE DEF rows
          <5>4. ASSUME NEW k \in Jobs, NEW s, job[k].status = "absent", job' = [rows EXCEPT ![k] = s]
                PROVE  \A i \in Jobs \ {j} : job'[i] = job[i] \/ job[i].status = "absent"
            BY <5>1, <5>3, <5>4
          <5> QED
            BY <5>1, <5>2, <5>4
        <4>2. "absent" \notin ENDED
          BY DEF ENDED, JOB_TERMINAL
        <4> QED
          BY <3>4, <4>1, <4>2
      <3>5. ASSUME NEW j \in Jobs, EnqueueForAgents(j) PROVE Only
        <4>1. job[j].status \notin ENDED /\ \A k \in Jobs \ {j} : job'[k] = job[k]
          BY <2>0, <3>5 DEF EnqueueForAgents, RowsOK, ENDED, JOB_TERMINAL
        <4> QED
          BY <4>1
      <3> QED
        BY <2>4, <3>1, <3>2, <3>3, <3>4, <3>5 DEF NextJobs
    <2> QED
      BY <1>1, <2>2, <2>3, <2>4 DEF Next
  <1>2. PrintInv /\ [Next]_vars => [Only]_vars
    BY <1>1
  <1>3. Spec => [][Only]_vars
    <2> HIDE DEF Only
    <2> QED
      BY <1>2, PrintInvHolds, PTL DEF Spec
  <1> QED
    BY <1>3 DEF OutcomeStands
-----------------------------------------------------------------------------
(* The agent at its spooler.  It holds the row, in a state no sweep, report or render *)
(* error gives away; and a report of an agent is never about a job it still has at    *)
(* its spooler, so no report of another agent can be fenced in either.                *)

AtSpooler(a, j) == win[a][j].st \in {"approved", "handed"}

SpoolerHolds(a, j) == AtSpooler(a, j) => Owns(a, j) /\ HeldRow(job[j])
Reporting(a) ==
    call[a].j \in Jobs => win[a][call[a].j].st \notin {"granted", "approved", "handed"}

HandoverInv ==
    /\ \A a \in Agents, j \in Jobs : SpoolerHolds(a, j)
    /\ \A a \in Agents : Reporting(a)

\* A rewritten journal entry keeps its generation unless it is dropped; all others stay.
LEMMA JournalSets ==
    ASSUME TypeOKAgent, NEW a \in Agents, NEW j \in Jobs, NEW st, Journal(a, j, st)
    PROVE  /\ win'[a][j].st = st
           /\ st # "none" => win'[a][j].gen = win[a][j].gen
           /\ \A b \in Agents, k \in Jobs : b # a \/ k # j => win'[b][k] = win[b][k]
  <1>1. win[a] \in [Jobs -> [st : WinState, gen : 0 .. MaxGen]]
    BY DEF TypeOKAgent
  <1>2. PICK l : /\ win' = [win EXCEPT ![a][j] = l] /\ l.st = st
                 /\ st # "none" => l.gen = win[a][j].gen
    <2>1. CASE st = "none"
      <3>1. win' = [win EXCEPT ![a][j] = NoLease]
        BY <2>1 DEF Journal
      <3>2. NoLease.st = "none"
        BY DEF NoLease
      <3> QED
        BY <2>1, <3>1, <3>2
    <2>2. CASE st # "none"
      <3>1. win' = [win EXCEPT ![a][j] = [win[a][j] EXCEPT !.st = st]]
        BY <2>2 DEF Journal
      <3>2. /\ [win[a][j] EXCEPT !.st = st].st = st
            /\ [win[a][j] EXCEPT !.st = st].gen = win[a][j].gen
        BY <1>1
      <3> QED
        BY <3>1, <3>2
    <2> QED
      BY <2>1, <2>2
  <1> QED
    BY <1>1, <1>2 DEF TypeOKAgent

\* An agent at its spooler keeps holding a row that stays held.
LEMMA HolderStays ==
    ASSUME NEW a \in Agents, NEW j \in Jobs, SpoolerHolds(a, j), StaysHeld(job[j], job'[j]),
           \/ win'[a][j] = win[a][j]
           \/ win'[a][j].st \notin {"approved", "handed"}
           \/ AtSpooler(a, j) /\ win'[a][j].gen = win[a][j].gen
    PROVE  SpoolerHolds(a, j)'
  BY DEF SpoolerHolds, AtSpooler, Owns, StaysHeld

\* A restart only drops jobs, finds them spooled or leaves them unclear.
LEMMA RestartSets ==
    ASSUME TypeOKAgent, NEW a \in Agents, AgentRestart(a)
    PROVE  \A k \in Jobs : \/ win'[a][k] = win[a][k]
                           \/ win'[a][k].st \in {"none", "spooled", "unclear"}
  <1> DEFINE After(found, k) == CASE win[a][k].st \in {"granted", "fetch_failed"} -> NoLease
                                  [] win[a][k].st = "handed" /\ found -> [win[a][k] EXCEPT !.st = "spooled"]
                                  [] win[a][k].st \in {"approved", "handed"} -> [win[a][k] EXCEPT !.st = "unclear"]
                                  [] OTHER -> win[a][k]
  <1>1. PICK found \in BOOLEAN : win' = [win EXCEPT ![a] = [k \in Jobs |-> After(found, k)]]
    BY DEF AgentRestart
  <1> SUFFICES ASSUME NEW k \in Jobs
               PROVE  After(found, k) = win[a][k] \/ After(found, k).st \in {"none", "spooled", "unclear"}
    <2> HIDE DEF After
    <2> QED
      BY <1>1 DEF TypeOKAgent
  <1>2. win[a][k] \in [st : WinState, gen : 0 .. MaxGen]
    BY DEF TypeOKAgent
  <1>3. NoLease.st = "none" /\ [win[a][k] EXCEPT !.st = "spooled"].st = "spooled"
        /\ [win[a][k] EXCEPT !.st = "unclear"].st = "unclear"
    BY <1>2 DEF NoLease
  <1>4. After(found, k) \in {NoLease, [win[a][k] EXCEPT !.st = "spooled"],
                             [win[a][k] EXCEPT !.st = "unclear"], win[a][k]}
    OBVIOUS
  <1> HIDE DEF After
  <1> QED
    BY <1>3, <1>4

\* Every step of the lease delivery keeps the agent at its spooler the holder.
LEMMA HandoverAgent ==
    ASSUME PrintInv, HandoverInv, NextAgent
    PROVE  HandoverInv'
  <1>1. /\ TypeOKJobs /\ RowsFit /\ TypeOKAgent /\ RowsOK
        /\ \A j \in Jobs : job[j] \in Row /\ Fit(job[j])
    BY DEF PrintInv, TypeOK, TypeOKJobs, RowsOK, RowsFit
  <1>2. None \notin Jobs /\ None \notin Agents
    BY PrintJobAssumption DEF Holders
  <1> DEFINE Kept(b, k) == \/ win'[b][k] = win[b][k]
                           \/ win'[b][k].st \notin {"approved", "handed"}
                           \/ AtSpooler(b, k) /\ win'[b][k].gen = win[b][k].gen
  <1>3. ASSUME AllHeld, \A b \in Agents, k \in Jobs : Kept(b, k)
        PROVE  \A b \in Agents, k \in Jobs : SpoolerHolds(b, k)'
    BY <1>3, HolderStays DEF HandoverInv, AllHeld
  <1>4. ASSUME NEW b \in Agents, call'[b] = call[b],
               \A k \in Jobs : \/ win'[b][k] = win[b][k]
                               \/ win'[b][k].st \notin {"granted", "approved", "handed"}
                               \/ win[b][k].st \in {"granted", "approved", "handed"}
        PROVE  Reporting(b)'
    BY <1>4 DEF HandoverInv, Reporting
  <1>5. ASSUME NEW b \in Agents, call'[b].j = None PROVE Reporting(b)'
    BY <1>2, <1>5 DEF Reporting
  <1>6. NoCall.j = None
    BY DEF NoCall
  <1>7. ASSUME NEW a \in Agents, NEW j \in Jobs, Lease(a, j) PROVE HandoverInv'
    <2>1. \A b \in Agents, k \in Jobs : \/ win'[b][k] = win[b][k]
                                        \/ b = a /\ win'[b][k].st = "granted"
      <3> DEFINE l == [st |-> "granted", gen |-> job[j].gen + 1]
      <3>1. UNCHANGED win \/ win' = [win EXCEPT ![a][j] = l]
        BY <1>7 DEF Lease
      <3>2. l.st = "granted"
        OBVIOUS
      <3> HIDE DEF l
      <3>3. win[a] \in [Jobs -> [st : WinState, gen : 0 .. MaxGen]]
        BY <1>1 DEF TypeOKAgent
      <3> QED
        BY <1>1, <3>1, <3>2, <3>3 DEF TypeOKAgent
    <2>2. AllHeld
      <3> DEFINE s == [job[j] EXCEPT !.status = "sent", !.phase = "leased", !.holder = a,
                                     !.token = job[j].gen + 1, !.gen = job[j].gen + 1]
      <3>1. job' = [job EXCEPT ![j] = s] /\ job[j].status = "queued"
        BY <1>7 DEF Lease
      <3> HIDE DEF s
      <3> QED
        BY <1>1, <3>1, WaitingRow
    <2>3. call' = call /\ call[a].j = None
      BY <1>7 DEF Lease, Free
    <2>4. \A b \in Agents : Reporting(b)'
      <3> TAKE b \in Agents
      <3>1. CASE b = a
        BY <1>5, <2>3, <3>1
      <3>2. CASE b # a
        BY <1>4, <2>1, <2>3, <3>2
      <3> QED
        BY <3>1, <3>2
    <2> QED
      BY <1>3, <2>1, <2>2, <2>4 DEF HandoverInv
  <1>8. ASSUME NEW a \in Agents, NEW j \in Jobs, Intent(a, j) PROVE HandoverInv'
    <2>1. call' = call /\ call[a].j = None
      BY <1>8 DEF Intent, Free
    <2>2. \/ win' = win
          \/ Journal(a, j, "none")
          \/ /\ Journal(a, j, "approved")
             /\ Owns(a, j) /\ job[j].status = "sent"
             /\ job'[j] = [job[j] EXCEPT !.phase = "submitting"]
      <3>1. PICK expired \in BOOLEAN :
              LET fresh   == /\ Owns(a, j) /\ job[j].status = "sent" /\ job[j].phase \in BEFORE_HANDOVER
                             /\ ~expired
                  granted == fresh \/ (Owns(a, j) /\ job[j].status = "sent" /\ job[j].phase = "submitting")
              IN /\ job' = IF fresh THEN [job EXCEPT ![j].phase = "submitting"] ELSE job
                 /\ win' = win \/ Journal(a, j, IF granted THEN "approved" ELSE "none")
        BY <1>8 DEF Intent
      <3>2. job[j].phase = "submitting" => [job[j] EXCEPT !.phase = "submitting"] = job[j]
        BY <1>1 DEF Row
      <3> QED
        BY <1>1, <3>1, <3>2 DEF RowsOK
    <2>3. AllHeld
      <3> DEFINE s == [job[j] EXCEPT !.phase = "submitting"]
      <3>1. \/ UNCHANGED job
            \/ job' = [job EXCEPT ![j] = s] /\ job[j].phase \in BEFORE_HANDOVER /\ job[j].status = "sent"
        BY <1>8 DEF Intent
      <3>2. job[j].phase \in BEFORE_HANDOVER /\ job[j].status = "sent" => ~HeldRow(job[j])
        BY DEF HeldRow, BEFORE_HANDOVER
      <3>3. ~HeldRow(job[j]) => StaysHeld(job[j], s)
        BY DEF StaysHeld
      <3> HIDE DEF s
      <3> QED
        BY <1>1, <3>1, <3>2, <3>3, OneRow, SameRows
    <2>4. \A b \in Agents : Reporting(b)'
      <3> TAKE b \in Agents
      <3>1. CASE b = a
        BY <1>5, <2>1, <3>1
      <3>2. CASE b # a
        <4>1. \A k \in Jobs : win'[b][k] = win[b][k]
          BY <1>1, <2>2, <3>2, JournalSets
        <4> QED
          BY <1>4, <2>1, <4>1
      <3> QED
        BY <3>1, <3>2
    <2>5. CASE win' = win
      BY <1>3, <2>3, <2>4, <2>5 DEF HandoverInv
    <2>6. CASE Journal(a, j, "none")
      <3>1. \A b \in Agents, k \in Jobs : Kept(b, k)
        BY <1>1, <2>6, JournalSets
      <3> QED
        BY <1>3, <2>3, <2>4, <3>1 DEF HandoverInv
    <2>7. CASE /\ Journal(a, j, "approved") /\ Owns(a, j) /\ job[j].status = "sent"
               /\ job'[j] = [job[j] EXCEPT !.phase = "submitting"]
      <3>1. \A b \in Agents, k \in Jobs : b # a \/ k # j => win'[b][k] = win[b][k]
        BY <1>1, <2>7, JournalSets
      <3>2. win'[a][j].gen = win[a][j].gen
        BY <1>1, <2>7, JournalSets
      <3>3. SpoolerHolds(a, j)'
        <4>1. job[j].delivery = "lease"
          BY <1>1, <1>2, <2>7 DEF Owns, Fit
        <4>2. /\ job'[j].delivery = "lease" /\ job'[j].status = "sent" /\ job'[j].phase = "submitting"
              /\ job'[j].holder = job[j].holder /\ job'[j].token = job[j].token
          BY <1>1, <2>7, <4>1 DEF Row
        <4> QED
          BY <2>7, <3>2, <4>2 DEF SpoolerHolds, Owns, HeldRow
      <3>4. \A b \in Agents, k \in Jobs : b # a \/ k # j => SpoolerHolds(b, k)'
        BY <2>3, <3>1, HolderStays DEF HandoverInv, AllHeld
      <3> QED
        BY <2>4, <3>3, <3>4 DEF HandoverInv
    <2> QED
      BY <2>2, <2>5, <2>6, <2>7
  <1>9. ASSUME NEW a \in Agents, NEW j \in Jobs, NEW st \in {"none", "fetch_failed", "spooled", "printing"},
               Journal(a, j, st), AllHeld,
               \A b \in Agents : call'[b] = NoCall \/ call'[b] = call[b]
        PROVE  HandoverInv'
    <2>1. \A b \in Agents, k \in Jobs : \/ win'[b][k] = win[b][k]
                                        \/ win'[b][k].st \notin {"granted", "approved", "handed"}
      BY <1>1, <1>9, JournalSets
    <2>2. \A b \in Agents : Reporting(b)'
      BY <1>4, <1>5, <1>6, <1>9, <2>1
    <2> QED
      BY <1>3, <1>9, <2>1, <2>2 DEF HandoverInv
  <1>10. ASSUME UNCHANGED win, AllHeld,
                \A b \in Agents : call'[b] = NoCall \/ call'[b] = call[b]
         PROVE  HandoverInv'
    <2>1. \A b \in Agents : Reporting(b)'
      BY <1>4, <1>5, <1>6, <1>10
    <2> QED
      BY <1>3, <1>10, <2>1 DEF HandoverInv
  <1>11. ASSUME NEW a \in Agents, NEW j \in Jobs,
                Renew(a, j) \/ Spooled(a, j) \/ Drop(a, j) \/ FetchFails(a, j)
         PROVE  HandoverInv'
    <2>1. /\ call' = call
          /\ \E st \in {"none", "spooled", "fetch_failed"} : Journal(a, j, st)
          /\ UNCHANGED job \/ job' = [job EXCEPT ![j] = AfterRenderError(job[j])]
      BY <1>11 DEF Renew, Spooled, Drop, FetchFails
    <2>2. AllHeld
      BY <1>1, <2>1, RenderAny, SameRows
    <2> QED
      BY <1>9, <2>1, <2>2
  <1>12. ASSUME NEW a \in Agents, NEW j \in Jobs, Submit(a, j) PROVE HandoverInv'
    <2>1. /\ call' = call /\ job' = job /\ win[a][j].st = "approved"
          /\ Journal(a, j, "handed") \/ Journal(a, j, "rejected")
      BY <1>12 DEF Submit
    <2>2. \A b \in Agents, k \in Jobs :
             \/ win'[b][k] = win[b][k]
             \/ win'[b][k].st = "rejected"
             \/ win[b][k].st = "approved" /\ win'[b][k].gen = win[b][k].gen
      BY <1>1, <2>1, JournalSets
    <2>3. \A b \in Agents : Reporting(b)'
      BY <1>4, <2>1, <2>2
    <2>4. \A b \in Agents, k \in Jobs : Kept(b, k)
      BY <2>2 DEF AtSpooler
    <2> QED
      BY <1>3, <2>1, <2>3, <2>4, SameRows DEF HandoverInv
  <1>13. ASSUME NEW a \in Agents, NEW j \in Jobs, NEW r \in ReportsOf(win[a][j].st), StatusRead(a, j, r)
         PROVE  HandoverInv'
    <2>1. UNCHANGED job /\ AllHeld
      BY <1>13, SameRows DEF StatusRead
    <2>2. CASE UNCHANGED win /\ \E c : c.j = j /\ call' = [call EXCEPT ![a] = c]
      <3>1. win[a][j].st \in {"fetch_failed", "rejected", "unclear", "spooled", "printing"}
        BY ReportsTyped
      <3>2. PICK c : c.j = j /\ call' = [call EXCEPT ![a] = c]
        BY <2>2
      <3>3. call'[a].j = j /\ \A b \in Agents \ {a} : call'[b] = call[b]
        BY <1>1, <3>2 DEF TypeOKAgent
      <3>4. Reporting(a)'
        BY <2>2, <3>1, <3>3 DEF Reporting
      <3>5. \A b \in Agents \ {a} : Reporting(b)'
        BY <1>4, <2>2, <3>3
      <3> QED
        BY <1>3, <2>1, <2>2, <3>4, <3>5 DEF HandoverInv
    <2>3. CASE UNCHANGED call /\ \E acked \in BOOLEAN : Acked(a, j, r, acked)
      <3>1. UNCHANGED win \/ \E st \in {"none", "printing"} : Journal(a, j, st)
        BY <2>3 DEF Acked
      <3> QED
        BY <1>9, <1>10, <2>1, <2>3, <3>1
    <2>4. \/ UNCHANGED win /\ \E c : c.j = j /\ call' = [call EXCEPT ![a] = c]
          \/ UNCHANGED call /\ \E acked \in BOOLEAN : Acked(a, j, r, acked)
      <3> DEFINE c == [j |-> j, report |-> r, phase |-> job[j].phase, gen |-> job[j].gen]
      <3>1. \/ UNCHANGED win /\ call' = [call EXCEPT ![a] = c]
            \/ UNCHANGED call /\ \E acked \in BOOLEAN : Acked(a, j, r, acked)
        BY <1>13 DEF StatusRead
      <3>2. c.j = j
        OBVIOUS
      <3> HIDE DEF c
      <3> QED
        BY <3>1, <3>2
    <2> QED
      BY <2>2, <2>3, <2>4
  <1>14. ASSUME NEW a \in Agents, StatusWrite(a) PROVE HandoverInv'
    <2>1. /\ call' = [call EXCEPT ![a] = NoCall]
          /\ UNCHANGED win \/ \E st \in {"none", "printing"} : Journal(a, call[a].j, st)
          /\ call[a].j \in Jobs
      BY <1>1, <1>14 DEF StatusWrite, Acked, TypeOKAgent, Free, NoCall
    <2>2. \A b \in Agents : call'[b] = NoCall \/ call'[b] = call[b]
      BY <1>1, <2>1 DEF TypeOKAgent
    <2>3. CASE AllHeld
      BY <1>9, <1>10, <2>1, <2>2, <2>3
    <2>4. CASE /\ job[call[a].j].holder = a
               /\ \A k \in Jobs \ {call[a].j} : job'[k] = job[k]
      <3>0. PICK i \in Jobs : i = call[a].j
        BY <2>1
      <3>1. \A b \in Agents : ~AtSpooler(b, i)
        <4> SUFFICES ASSUME NEW b \in Agents, AtSpooler(b, i) PROVE FALSE
          OBVIOUS
        <4>1. Owns(b, i)
          BY DEF HandoverInv, SpoolerHolds
        <4>2. b = a
          BY <2>4, <3>0, <4>1 DEF Owns
        <4> QED
          BY <3>0, <4>2 DEF HandoverInv, Reporting, AtSpooler
      <3>2. \A b \in Agents, k \in Jobs : \/ win'[b][k] = win[b][k]
                                          \/ win'[b][k].st \in {"none", "printing"}
        BY <1>1, <2>1, JournalSets
      <3>5. \A b \in Agents, k \in Jobs : Kept(b, k)
        BY <3>2
      <3>3. \A b \in Agents : ~AtSpooler(b, i)'
        BY <3>1, <3>2 DEF AtSpooler
      <3>4. \A b \in Agents, k \in Jobs : SpoolerHolds(b, k)'
        <4> TAKE b \in Agents, k \in Jobs
        <4>1. CASE k = i
          BY <3>3, <4>1 DEF SpoolerHolds
        <4>2. CASE k # i
          <5>1. StaysHeld(job[k], job'[k])
            BY <2>4, <3>0, <4>2, Stays
          <5> QED
            BY <3>5, <5>1, HolderStays DEF HandoverInv
        <4> QED
          BY <4>1, <4>2
      <3>6. \A b \in Agents : Reporting(b)'
        BY <1>4, <1>5, <1>6, <2>2, <3>2
      <3> QED
        BY <3>4, <3>6 DEF HandoverInv
    <2>5. AllHeld \/ (job[call[a].j].holder = a /\ \A k \in Jobs \ {call[a].j} : job'[k] = job[k])
      <3> DEFINE after == AfterReport(job[call[a].j], call[a])
      <3>1. UNCHANGED job \/ (job[call[a].j].holder = a /\ job' = [job EXCEPT ![call[a].j] = after])
        BY <1>14 DEF StatusWrite
      <3> HIDE DEF after
      <3> QED
        BY <1>1, <3>1, SameRows DEF RowsOK
    <2> QED
      BY <2>3, <2>4, <2>5
  <1>15. ASSUME NEW a \in Agents, StatusLost(a) PROVE HandoverInv'
    <2>1. /\ UNCHANGED <<job, win>>
          /\ \A b \in Agents : call'[b] = NoCall \/ call'[b] = call[b]
      BY <1>1, <1>15 DEF StatusLost, TypeOKAgent
    <2> QED
      BY <1>10, <2>1, SameRows
  <1>16. ASSUME NEW j \in Jobs, Sweep(j) PROVE HandoverInv'
    <2>1. UNCHANGED <<win, call>>
      BY <1>16 DEF Sweep, SweepLapsed, SweepSilent, SweepQueued, agentVars
    <2>2. CASE AllHeld
      BY <1>10, <2>1, <2>2
    <2>3. AllHeld
      BY <1>1, <1>16, SweepStays
    <2> QED
      BY <2>2, <2>3
  <1>17. ASSUME NEW a \in Agents, AgentRestart(a) PROVE HandoverInv'
    <2>1. UNCHANGED <<job, call>> /\ call[a].j = None
      BY <1>17 DEF AgentRestart, Free
    <2>2. \A b \in Agents \ {a} : win'[b] = win[b]
      BY <1>1, <1>17 DEF AgentRestart, TypeOKAgent
    <2>3. \A k \in Jobs : \/ win'[a][k] = win[a][k]
                          \/ win'[a][k].st \in {"none", "spooled", "unclear"}
      BY <1>1, <1>17, RestartSets
    <2>4. \A b \in Agents : Reporting(b)'
      <3> TAKE b \in Agents
      <3>1. CASE b = a
        BY <1>5, <2>1, <3>1
      <3>2. CASE b # a
        BY <1>4, <2>1, <2>2, <3>2
      <3> QED
        BY <3>1, <3>2
    <2>5. \A b \in Agents, k \in Jobs : Kept(b, k)
      <3> TAKE b \in Agents, k \in Jobs
      <3>1. CASE b = a
        BY <2>3, <3>1
      <3>2. CASE b # a
        BY <2>2, <3>2
      <3> QED
        BY <3>1, <3>2
    <2> QED
      BY <1>3, <2>1, <2>4, <2>5, SameRows DEF HandoverInv
  <1> QED
    BY <1>7, <1>8, <1>11, <1>12, <1>13, <1>14, <1>15, <1>16, <1>17 DEF NextAgent, CloudAgent, LocalAgent

\* Whoever is at a spooler holds the row, and reports on no job that is still there.
LEMMA HandoverHolds == Spec => []HandoverInv
  <1>1. Init => HandoverInv
    <2> SUFFICES ASSUME Init PROVE HandoverInv
      OBVIOUS
    <2>1. /\ \A a \in Agents, j \in Jobs : win[a][j].st = "none"
          /\ \A a \in Agents : call[a].j = None
      BY DEF Init, InitAgent, NoLease, NoCall
    <2>2. None \notin Jobs
      BY PrintJobAssumption
    <2> QED
      BY <2>1, <2>2 DEF HandoverInv, SpoolerHolds, AtSpooler, Reporting
  <1>2. PrintInv /\ HandoverInv /\ [Next]_vars => HandoverInv'
    <2> SUFFICES ASSUME PrintInv, HandoverInv, [Next]_vars PROVE HandoverInv'
      OBVIOUS
    <2>1. TypeOKJobs /\ RowsFit /\ TypeOKLinux /\ Pushed
      BY DEF PrintInv, TypeOK
    <2>2. ASSUME AllHeld, UNCHANGED agentVars PROVE HandoverInv'
      <3>1. \A a \in Agents, j \in Jobs : SpoolerHolds(a, j)'
        BY <2>2, HolderStays DEF HandoverInv, AllHeld, agentVars
      <3>2. \A a \in Agents : Reporting(a)'
        BY <2>2 DEF HandoverInv, Reporting, agentVars
      <3> QED
        BY <3>1, <3>2 DEF HandoverInv
    <2>3. CASE NextJobs /\ UNCHANGED <<agentVars, linuxVars>>
      BY <2>1, <2>2, <2>3, JobsStay
    <2>4. CASE NextAgent
      BY <2>4, HandoverAgent
    <2>5. CASE NextLinux /\ UNCHANGED agentVars
      BY <2>1, <2>2, <2>5, LinuxStays
    <2>6. CASE UNCHANGED vars
      BY <2>2, <2>6, SameRows DEF vars, jobVars
    <2> QED
      BY <2>3, <2>4, <2>5, <2>6 DEF Next
  <1> QED
    BY <1>1, <1>2, PrintInvHolds, PTL DEF Spec

\* From the grant of print_intent() until the agent's journal knows what became of the
\* job, the row is leased to that agent under that token and is never waiting or failed:
\* nobody else can be given the job while a spooler may be printing it.
THEOREM ApprovedHoldsHolds == Spec => []ApprovedHolds
  <1>1. HandoverInv => ApprovedHolds
    BY DEF HandoverInv, SpoolerHolds, AtSpooler, ApprovedHolds, HeldRow
  <1> QED
    BY <1>1, HandoverHolds, PTL
=============================================================================
