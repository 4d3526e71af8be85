------------------------- MODULE AlarmOutbox_proofs -------------------------
(***************************************************************************)
(* What holds of AlarmOutbox for every set of channels, variants, passes   *)
(* and processes, and for every bound.                                     *)
(***************************************************************************)
EXTENDS AlarmOutbox, FiniteSetTheorems, TLAPS

USE DEF jobVars, passVars, logVars

-----------------------------------------------------------------------------
(* Types. *)

\* Whatever the sender says, Record stores a status.
LEMMA ResultsType ==
    ASSUME NEW j \in Job, NEW place \in Place, NEW r \in Results(j, place), r # "exception"
    PROVE  r \in Status
BY DEF Results, Status, TERMINAL

\* _retry_at() decides between another attempt and a failure.
LEMMA AfterExceptionType ==
    ASSUME NEW j \in Job
    PROVE  AfterException(j) \in Status
<1>1. AfterException(j) = "retry" \/ AfterException(j) = "failed"
    BY Zenon DEF AfterException
<1> QED BY <1>1 DEF Status, TERMINAL

\* A step of a pass to another place keeps pc a function of passes and threads.
LEMMA PlaceType ==
    ASSUME TypeOK, NEW p \in Pass, NEW t \in Thread, NEW x \in Place
    PROVE  [pc EXCEPT ![p][t] = x] \in [Pass -> [Thread -> Place]]
BY DEF TypeOK

\* Threads that end keep the types of the places and generations.
LEMMA LeaveType ==
    ASSUME TypeOK, NEW gone, Leave(gone)
    PROVE  pc' \in [Pass -> [Thread -> Place]] /\ gen' \in [Pass -> [Job -> Nat]]
BY DEF TypeOK, Leave, Place

\* A new next_attempt_at or lease_until keeps the types of the deadlines.
LEMMA DeadlineType ==
    ASSUME TypeOK, NEW j \in Job, NewDeadline(j)
    PROVE  elapsed' \in SUBSET Job /\ visible' \in [Pass -> SUBSET Job]
BY DEF TypeOK, NewDeadline

\* Every step of passes, requests, time and faults keeps the types.
LEMMA TypeStep == TypeOK /\ [Next]_vars => TypeOK'
<1> SUFFICES ASSUME TypeOK, [Next]_vars PROVE TypeOK'
    OBVIOUS
<1>1. ASSUME NEW v \in Variant, NEW s \in BOOLEAN, NEW P \in AtMostOneRequest, Enqueue(v, s, P)
      PROVE  TypeOK'
    BY <1>1 DEF TypeOK, Enqueue, Status, TERMINAL
<1>2. ASSUME NEW P \in AtMostOneRequest, Resend(P) PROVE TypeOK'
    BY <1>2 DEF TypeOK, Resend, Status
<1>3. ASSUME NEW p \in Pass, LoopCall(p) PROVE TypeOK'
    BY <1>3 DEF TypeOK, LoopCall
<1>4. ASSUME NEW p \in Pass, List(p) PROVE TypeOK'
    BY <1>4 DEF TypeOK, List, Place
<1>5. ASSUME NEW p \in Pass, Launch(p) PROVE TypeOK'
    BY <1>5 DEF TypeOK, Launch, Place, Thread
<1>6. ASSUME NEW p \in Pass, DropList(p) PROVE TypeOK'
    BY <1>6, LeaveType DEF TypeOK, DropList
<1>7. ASSUME NEW p \in Pass, EndPass(p) PROVE TypeOK'
    BY <1>7 DEF TypeOK, EndPass
<1>8. ASSUME NEW p \in Pass, NEW j \in Job, GiveUpStale(p, j) PROVE TypeOK'
    BY <1>8 DEF TypeOK, GiveUpStale, Place, Status, TERMINAL, Thread
<1>9. ASSUME NEW p \in Pass, NEW j \in Job, Claim(p, j) PROVE TypeOK'
  <2>1. pc' \in [Pass -> [Thread -> Place]]
    <3>1. CASE pc' = [pc EXCEPT ![p][j] = "won"]
        BY <3>1, PlaceType DEF Place, Thread
    <3>2. CASE pc' = [pc EXCEPT ![p][j] = "off"]
        BY <3>2, PlaceType DEF Place, Thread
    <3> QED BY <1>9, <3>1, <3>2 DEF Claim
  <2>2. elapsed' \in SUBSET Job /\ visible' \in [Pass -> SUBSET Job]
    BY <1>9, DeadlineType DEF TypeOK, Claim
  <2>3. status' \in [Job -> Status] /\ attempt' \in [Job -> Nat]
    BY <1>9 DEF TypeOK, Claim, Status
  <2> QED BY <1>9, <2>1, <2>2, <2>3 DEF TypeOK, Claim
<1>10. ASSUME NEW p \in Pass, NEW j \in Job, ReadGeneration(p, j) PROVE TypeOK'
    BY <1>10 DEF TypeOK, ReadGeneration, Place, Thread
<1>11. ASSUME NEW p \in Pass, NEW j \in Job, Load(p, j) PROVE TypeOK'
  <2>1. CASE Leave({<<p, j>>})
    BY <1>11, <2>1, LeaveType DEF TypeOK, Load
  <2>2. CASE pc' = [pc EXCEPT ![p][j] = "calling"] /\ UNCHANGED gen
    <3>1. pc' \in [Pass -> [Thread -> Place]]
        BY <2>2, PlaceType DEF Place, Thread
    <3> QED BY <1>11, <2>2, <3>1 DEF TypeOK, Load
  <2> QED BY <1>11, <2>1, <2>2 DEF Load
<1>12. ASSUME NEW p \in Pass, NEW j \in Job, Record(p, j) PROVE TypeOK'
  <2>1. status' \in [Job -> Status]
    <3>1. ASSUME NEW r \in Results(j, pc[p][j])
          PROVE  (IF r = "exception" THEN AfterException(j) ELSE r) \in Status
        BY ResultsType, AfterExceptionType DEF TypeOK, Thread
    <3> QED BY <1>12, <3>1 DEF TypeOK, Record
  <2>2. pc' \in [Pass -> [Thread -> Place]] /\ gen' \in [Pass -> [Job -> Nat]]
    <3>1. CASE Leave({<<p, j>>})
        BY <3>1, LeaveType
    <3>2. CASE pc' = [pc EXCEPT ![p][j] = "closing"] /\ UNCHANGED gen
        BY <3>2, PlaceType DEF TypeOK, Place, Thread
    <3> QED BY <1>12, <3>1, <3>2 DEF Record
  <2>3. elapsed' \in SUBSET Job /\ visible' \in [Pass -> SUBSET Job]
    BY <1>12, DeadlineType DEF TypeOK, Record
  <2> QED BY <1>12, <2>1, <2>2, <2>3 DEF TypeOK, Record
<1>13. ASSUME NEW p \in Pass, NEW t \in Thread, CheckDone(p, t) PROVE TypeOK'
  <2>1. CASE Leave({<<p, t>>})
    BY <1>13, <2>1, LeaveType DEF TypeOK, CheckDone
  <2>2. CASE pc' = [pc EXCEPT ![p][t] = "waiting"] /\ UNCHANGED gen
    <3>1. pc' \in [Pass -> [Thread -> Place]]
        BY <2>2, PlaceType DEF Place
    <3> QED BY <1>13, <2>2, <3>1 DEF TypeOK, CheckDone
  <2> QED BY <1>13, <2>1, <2>2 DEF CheckDone
<1>14. ASSUME NEW p \in Pass, NEW t \in Thread, EnterFinish(p, t) PROVE TypeOK'
  <2>1. CASE Leave({<<p, t>>})
    BY <1>14, <2>1, LeaveType DEF TypeOK, EnterFinish
  <2>2. CASE pc' = [pc EXCEPT ![p][t] = "writing"] /\ UNCHANGED gen
    <3>1. pc' \in [Pass -> [Thread -> Place]]
        BY <2>2, PlaceType DEF Place
    <3> QED BY <1>14, <2>2, <3>1 DEF TypeOK, EnterFinish
  <2> QED BY <1>14, <2>1, <2>2 DEF EnterFinish
<1>15. ASSUME NEW p \in Pass, NEW t \in Thread, WriteFinished(p, t) PROVE TypeOK'
  <2>1. pc' \in [Pass -> [Thread -> Place]] /\ gen' \in [Pass -> [Job -> Nat]]
    BY <1>15, LeaveType DEF WriteFinished
  <2> QED BY <1>15, <2>1 DEF TypeOK, WriteFinished
<1>16. ASSUME NEW p \in Pass, Cancel(p) PROVE TypeOK'
    BY <1>16, LeaveType DEF TypeOK, Cancel
<1>17. ASSUME NEW p \in Pass, NEW j \in Job, Deliver(p, j) PROVE TypeOK'
  <2>1. delivered' \in [Job -> Nat]
    BY <1>17 DEF TypeOK, Deliver
  <2>2. pc' \in [Pass -> [Thread -> Place]]
    BY <1>17 DEF TypeOK, Deliver, Place, Thread
  <2> QED BY <1>17, <2>1, <2>2 DEF TypeOK, Deliver
<1>18. ASSUME NEW p \in Pass, NEW t \in Thread, LoseWrite(p, t) PROVE TypeOK'
  <2>1. pc' \in [Pass -> [Thread -> Place]] /\ gen' \in [Pass -> [Job -> Nat]]
    BY <1>18, LeaveType DEF LoseWrite
  <2> QED BY <1>18, <2>1 DEF TypeOK, LoseWrite
<1>19. ASSUME NEW j \in Job, Elapse(j) PROVE TypeOK'
    BY <1>19 DEF TypeOK, Elapse
<1>20. ASSUME NEW w \in Process, Crash(w) PROVE TypeOK'
    BY <1>20, LeaveType DEF TypeOK, Crash
<1>21. CASE UNCHANGED vars
    BY <1>21 DEF TypeOK, vars
<1> QED
    BY <1>1, <1>2, <1>3, <1>4, <1>5, <1>6, <1>7, <1>8, <1>9, <1>10, <1>11, <1>12, <1>13,
       <1>14, <1>15, <1>16, <1>17, <1>18, <1>19, <1>20, <1>21 DEF Next, PassStep

\* Every column, generation and place keeps its type (models/incident.py,
\* _claim_once, _run_claimed_ablauf).
THEOREM TypeCorrect == Spec => []TypeOK
<1>1. Init => TypeOK
    BY DEF Init, TypeOK, Status, Place
<1> QED BY <1>1, TypeStep, PTL DEF Spec

-----------------------------------------------------------------------------
(* What a step does to one job. *)

\* The pass has claimed the job and not yet sent.
Unsent(p, j) == pc[p][j] \in {"won", "ready", "calling"}

\* The pass p does not come by the job.
Keeps(p, j) == (InHand(p, j)' => InHand(p, j)) /\ (Unsent(p, j)' => Unsent(p, j))

\* The step leaves the job to those who have it in hand.
Quiet(j) ==
    /\ status'[j] = status[j] /\ delivered'[j] = delivered[j]
    /\ \A p \in Pass : Keeps(p, j)

Created(j) ==
    /\ status[j] = "none" /\ status'[j] \in {"pending", "suppressed"}
    /\ delivered'[j] = delivered[j]
    /\ \A p \in Pass : Keeps(p, j)

Reopened(j) ==
    /\ j = TeamsFirst /\ resends' = resends + 1
    /\ status[j] \in {"uncertain", "failed"} /\ status'[j] = "pending"
    /\ delivered'[j] = delivered[j]
    /\ \A p \in Pass : Keeps(p, j)

GivenUp(j) ==
    /\ status[j] = "sending" /\ status'[j] = "uncertain"
    /\ delivered'[j] = delivered[j]
    /\ \A p \in Pass : Keeps(p, j)

Taken(p, j) ==
    /\ Waiting(j) \/ (j[1] = "sms" /\ status[j] = "sending")
    /\ status'[j] = "sending" /\ delivered'[j] = delivered[j]
    /\ pc'[p][j] = "won"
    /\ \A q \in Pass \ {p} : Keeps(q, j)

Sent(p, j) ==
    /\ pc[p][j] = "calling" /\ pc'[p][j] = "posted"
    /\ status'[j] = status[j]
    /\ delivered'[j] = IF j[1] = "sms" THEN 1 ELSE delivered[j] + 1
    /\ \A q \in Pass \ {p} : Keeps(q, j)

Recorded(p, j) ==
    /\ pc[p][j] \in {"calling", "posted"} /\ pc'[p][j] = "closing"
    /\ status[j] = "sending" /\ delivered'[j] = delivered[j]
    /\ \E r \in Results(j, pc[p][j]) :
            status'[j] = IF r = "exception" THEN AfterException(j) ELSE r
    /\ \A q \in Pass \ {p} : Keeps(q, j)

JobEvent(j) ==
    \/ Quiet(j) \/ Created(j) \/ Reopened(j) \/ GivenUp(j)
    \/ \E p \in Pass : Taken(p, j) \/ Sent(p, j) \/ Recorded(p, j)

\* Whatever happens is, for one job, one of the events above: the conditional
\* UPDATEs on its row, a delivery, or nothing.
LEMMA JobStep ==
    ASSUME TypeOK, [Next]_vars, NEW j \in Job
    PROVE  JobEvent(j)
<1> USE DEF Keeps, InHand, Unsent
<1>0. j \in Thread /\ Job \subseteq Thread
    BY DEF Thread
<1>1. ASSUME NEW v \in Variant, NEW s \in BOOLEAN, NEW P \in AtMostOneRequest, Enqueue(v, s, P)
      PROVE  JobEvent(j)
    BY <1>1 DEF TypeOK, Enqueue, JobEvent, Quiet, Created, Exists
<1>2. ASSUME NEW P \in AtMostOneRequest, Resend(P) PROVE JobEvent(j)
    BY <1>2 DEF TypeOK, Resend, JobEvent, Quiet, Reopened
<1>3. ASSUME NEW p \in Pass, LoopCall(p) \/ EndPass(p) PROVE JobEvent(j)
    BY <1>3 DEF LoopCall, EndPass, JobEvent, Quiet
<1>4. ASSUME NEW p \in Pass, List(p) PROVE JobEvent(j)
    BY <1>0, <1>4 DEF TypeOK, List, JobEvent, Quiet
<1>5. ASSUME NEW p \in Pass, Launch(p) PROVE JobEvent(j)
    BY <1>0, <1>5, SweepAssumption DEF TypeOK, Launch, JobEvent, Quiet
<1>6. ASSUME NEW gone, Leave(gone), UNCHANGED <<status, delivered>> PROVE JobEvent(j)
    BY <1>0, <1>6 DEF TypeOK, Leave, JobEvent, Quiet
<1>7. ASSUME NEW p \in Pass, DropList(p) \/ Cancel(p) PROVE JobEvent(j)
    BY <1>6, <1>7 DEF DropList, Cancel
<1>8. ASSUME NEW p \in Pass, NEW k \in Job, GiveUpStale(p, k) PROVE JobEvent(j)
    BY <1>0, <1>8 DEF TypeOK, GiveUpStale, Stale, JobEvent, Quiet, GivenUp
<1>9. ASSUME NEW p \in Pass, NEW k \in Job, Claim(p, k) PROVE JobEvent(j)
  <2>1. CASE ~Eligible(p, k)
    <3>1. UNCHANGED <<status, delivered>> /\ pc' = [pc EXCEPT ![p][k] = "off"]
        BY <1>9, <2>1 DEF Claim
    <3> QED BY <1>0, <3>1 DEF TypeOK, JobEvent, Quiet
  <2>2. CASE k # j /\ Eligible(p, k)
    <3>1. /\ status' = [status EXCEPT ![k] = "sending"]
          /\ pc' = [pc EXCEPT ![p][k] = "won"]
          /\ delivered' = delivered
        BY <1>9, <2>2 DEF Claim
    <3> QED BY <1>0, <2>2, <3>1 DEF TypeOK, JobEvent, Quiet
  <2>3. CASE k = j /\ Eligible(p, j)
    <3>1. /\ status' = [status EXCEPT ![j] = "sending"]
          /\ pc' = [pc EXCEPT ![p][j] = "won"]
          /\ delivered' = delivered
        BY <1>9, <2>3 DEF Claim
    <3>2. Taken(p, j)
        BY <1>0, <2>3, <3>1 DEF TypeOK, Eligible, Taken
    <3> QED BY <3>2 DEF JobEvent
  <2> QED BY <2>1, <2>2, <2>3
<1>10. ASSUME NEW p \in Pass, NEW k \in Job, ReadGeneration(p, k) PROVE JobEvent(j)
    BY <1>0, <1>10 DEF TypeOK, ReadGeneration, JobEvent, Quiet
<1>11. ASSUME NEW p \in Pass, NEW k \in Job, Load(p, k) PROVE JobEvent(j)
    BY <1>0, <1>6, <1>11 DEF TypeOK, Load, JobEvent, Quiet
<1>12. ASSUME NEW p \in Pass, NEW k \in Job, Record(p, k) PROVE JobEvent(j)
  <2>1. CASE Leave({<<p, k>>}) /\ UNCHANGED status
    BY <1>6, <1>12, <2>1 DEF Record
  <2>2. CASE pc' = [pc EXCEPT ![p][k] = "closing"] /\ k # j
    BY <1>0, <1>12, <2>2 DEF TypeOK, Record, JobEvent, Quiet
  <2>3. CASE pc' = [pc EXCEPT ![p][j] = "closing"] /\ k = j /\ Holds(p, j)
    <3>1. PICK r \in Results(j, pc[p][j]) :
              status' = [status EXCEPT ![j] = IF r = "exception" THEN AfterException(j) ELSE r]
        BY <1>12, <2>3 DEF Record
    <3>2. /\ status'[j] = IF r = "exception" THEN AfterException(j) ELSE r
          /\ delivered' = delivered /\ status[j] = "sending"
          /\ pc[p][j] \in {"calling", "posted"}
        BY <1>12, <2>3, <3>1 DEF TypeOK, Record, Holds
    <3>3. pc'[p][j] = "closing" /\ \A q \in Pass \ {p} : Keeps(q, j)
        BY <1>0, <2>3 DEF TypeOK
    <3>4. Recorded(p, j)
        BY <3>1, <3>2, <3>3 DEF Recorded
    <3> QED BY <3>4 DEF JobEvent
  <2> QED BY <1>12, <2>1, <2>2, <2>3 DEF Record
<1>13. ASSUME NEW p \in Pass, NEW t \in Thread, CheckDone(p, t) PROVE JobEvent(j)
    BY <1>0, <1>6, <1>13 DEF TypeOK, CheckDone, JobEvent, Quiet
<1>14. ASSUME NEW p \in Pass, NEW t \in Thread, EnterFinish(p, t) PROVE JobEvent(j)
    BY <1>0, <1>6, <1>14 DEF TypeOK, EnterFinish, JobEvent, Quiet
<1>15. ASSUME NEW p \in Pass, NEW t \in Thread, WriteFinished(p, t) \/ LoseWrite(p, t)
       PROVE  JobEvent(j)
    BY <1>6, <1>15 DEF WriteFinished, LoseWrite
<1>16. ASSUME NEW p \in Pass, NEW k \in Job, Deliver(p, k) PROVE JobEvent(j)
    BY <1>0, <1>16 DEF TypeOK, Deliver, JobEvent, Quiet, Sent
<1>17. ASSUME NEW k \in Job, Elapse(k) PROVE JobEvent(j)
    BY <1>17 DEF Elapse, JobEvent, Quiet
<1>18. ASSUME NEW w \in Process, Crash(w) PROVE JobEvent(j)
    BY <1>6, <1>18 DEF Crash
<1>19. CASE UNCHANGED vars
    BY <1>19 DEF vars, JobEvent, Quiet
<1> QED
    BY <1>1, <1>2, <1>3, <1>4, <1>5, <1>7, <1>8, <1>9, <1>10, <1>11, <1>12, <1>13, <1>14,
       <1>15, <1>16, <1>17, <1>18, <1>19 DEF Next, PassStep

-----------------------------------------------------------------------------
(* One sender per job, nothing sent that is tried again. *)

\* One pass has the job in hand, and none while it waits or after it failed.
HandInv(j) ==
    /\ \A p, q \in Pass : InHand(p, j) /\ InHand(q, j) => p = q
    /\ status[j] \in {"none", "pending", "retry", "failed"} => \A p \in Pass : ~InHand(p, j)

\* Cards and pushes leave once: not while the job waits, not before its sender
\* was called.
CardInv(j) ==
    /\ status[j] \in {"none", "pending", "retry", "failed"} => delivered[j] = 0
    /\ \A p \in Pass : Unsent(p, j) => delivered[j] = 0

SenderInv ==
    \A j \in Job : j[1] # "sms" /\ NotResent(j) =>
        /\ HandInv(j)
        /\ j[1] \in {"teams", "push"} => CardInv(j)

\* Only teams_manuell_erneut() counts resends, and only upwards.
LEMMA ResendsCount == [Next]_vars => resends' = resends \/ resends' = resends + 1
<1> SUFFICES ASSUME [Next]_vars PROVE resends' = resends \/ resends' = resends + 1
    OBVIOUS
<1>1. ASSUME NEW P \in AtMostOneRequest, Resend(P) PROVE resends' = resends + 1
    BY <1>1 DEF Resend
<1>2. ASSUME NEW p \in Pass, PassStep(p) PROVE resends' = resends
    BY <1>2 DEF PassStep, List, Launch, DropList, EndPass, GiveUpStale, Claim, ReadGeneration,
                Load, Record, CheckDone, EnterFinish, WriteFinished
<1>3. \/ \E P \in AtMostOneRequest : Resend(P)
      \/ \E p \in Pass : PassStep(p)
      \/ resends' = resends
    BY DEF Next, vars, Enqueue, LoopCall, Cancel, Deliver, LoseWrite, Elapse, Crash
<1> QED BY <1>1, <1>2, <1>3

\* So a job that was not resent after a step was not before it either.
LEMMA ResendsGrow == TypeOK /\ [Next]_vars => resends' \in Nat /\ resends' >= resends
BY ResendsCount DEF TypeOK

\* A claimed job that was not resent stays in one hand, through every event
\* (the conditional UPDATE of _claim_once).
LEMMA HandStep ==
    ASSUME TypeOK, NEW j \in Job, JobEvent(j), ~Reopened(j), j[1] # "sms", HandInv(j)
    PROVE  HandInv(j)'
<1> USE DEF HandInv, Keeps
<1>1. CASE Quiet(j)
    BY <1>1 DEF Quiet
<1>2. CASE Created(j)
    BY <1>2 DEF Created
<1>3. CASE GivenUp(j)
    BY <1>3 DEF GivenUp
<1>4. ASSUME NEW p \in Pass, Taken(p, j) PROVE HandInv(j)'
    BY <1>4 DEF Taken, Waiting
<1>5. ASSUME NEW p \in Pass, Sent(p, j) PROVE HandInv(j)'
    BY <1>5 DEF Sent, InHand
<1>6. ASSUME NEW p \in Pass, Recorded(p, j) PROVE HandInv(j)'
    BY <1>6 DEF Recorded, InHand
<1> QED BY <1>1, <1>2, <1>3, <1>4, <1>5, <1>6 DEF JobEvent

\* A card or push that may be tried again, or failed, has not been sent.
LEMMA CardResults ==
    ASSUME NEW j \in Job, j[1] \in {"teams", "push"}, NEW r \in Results(j, "posted")
    PROVE  r \in {"sent", "uncertain", "suppressed"}
BY DEF Results

\* Cards and pushes: a job that waits or failed has not been delivered, through
\* every event (_send_teams, _send_push, the fenced result UPDATE).
LEMMA CardStep ==
    ASSUME TypeOK, NEW j \in Job, JobEvent(j), ~Reopened(j), j[1] \in {"teams", "push"},
           HandInv(j), CardInv(j)
    PROVE  CardInv(j)'
<1> USE DEF CardInv, Keeps
<1>1. CASE Quiet(j)
    BY <1>1 DEF Quiet
<1>2. CASE Created(j)
    BY <1>2 DEF Created
<1>3. CASE GivenUp(j)
    BY <1>3 DEF GivenUp
<1>4. ASSUME NEW p \in Pass, Taken(p, j) PROVE CardInv(j)'
    BY <1>4 DEF Taken, Waiting
<1>5. ASSUME NEW p \in Pass, Sent(p, j) PROVE CardInv(j)'
  <2>1. InHand(p, j) /\ \A q \in Pass \ {p} : ~InHand(q, j)
    BY <1>5 DEF Sent, HandInv, InHand
  <2>2. status'[j] \notin {"none", "pending", "retry", "failed"}
    BY <1>5, <2>1 DEF Sent, HandInv
  <2>3. \A q \in Pass : ~Unsent(q, j)'
    BY <1>5, <2>1 DEF Sent, Unsent, InHand
  <2> QED BY <2>2, <2>3
<1>6. ASSUME NEW p \in Pass, Recorded(p, j) PROVE CardInv(j)'
  <2>1. CASE pc[p][j] = "calling"
    BY <1>6, <2>1 DEF Recorded, Unsent
  <2>2. CASE pc[p][j] = "posted"
    <3>1. status'[j] \in {"sent", "uncertain", "suppressed"}
        BY <1>6, <2>2, CardResults DEF Recorded
    <3>2. \A q \in Pass : ~Unsent(q, j)'
        BY <1>6, <2>2 DEF Recorded, Unsent, HandInv, InHand
    <3> QED BY <3>1, <3>2
  <2> QED BY <1>6, <2>1, <2>2 DEF Recorded
<1> QED BY <1>1, <1>2, <1>3, <1>4, <1>5, <1>6 DEF JobEvent

\* The invariant of the senders is inductive.
LEMMA SenderStep == TypeOK /\ SenderInv /\ [Next]_vars => SenderInv'
<1> SUFFICES ASSUME TypeOK, SenderInv, [Next]_vars, NEW j \in Job, j[1] # "sms", NotResent(j)'
             PROVE  HandInv(j)' /\ (j[1] \in {"teams", "push"} => CardInv(j)')
    BY DEF SenderInv
<1>1. JobEvent(j)
    BY JobStep
<1>2. NotResent(j) /\ ~Reopened(j)
    BY ResendsGrow DEF NotResent, Reopened, TypeOK
<1>3. HandInv(j) /\ (j[1] \in {"teams", "push"} => CardInv(j))
    BY <1>2 DEF SenderInv
<1> QED BY <1>1, <1>2, <1>3, HandStep, CardStep

\* The invariant of the senders holds in every reachable state.
LEMMA SenderInvariant == Spec => [](TypeOK /\ SenderInv)
<1>1. Init => SenderInv
    BY DEF Init, SenderInv, HandInv, CardInv, InHand, Unsent, Thread
<1> QED BY <1>1, TypeCorrect, SenderStep, PTL DEF Spec

\* No claim, lease, crash or late result hands a push, Teams or mail job to a
\* second pass (_claim_once, the fence of _run_claimed_ablauf).
THEOREM SoleSenderHolds == Spec => []SoleSender
<1>1. SenderInv => SoleSender
    BY DEF SenderInv, HandInv, SoleSender
<1> QED BY <1>1, SenderInvariant, PTL

\* A Teams card or push that is tried again, or failed, was not sent (_send_teams
\* raises only what was certainly rejected, _send_push nothing once it was sent).
THEOREM RetryMeansUnsentHolds == Spec => []RetryMeansUnsent
<1>1. SenderInv => RetryMeansUnsent
    BY DEF SenderInv, CardInv, RetryMeansUnsent
<1> QED BY <1>1, SenderInvariant, PTL

-----------------------------------------------------------------------------
(* How many cards and pushes may leave. *)

\* The passes that may still send for the job.
Senders(j) == {p \in Pass : Unsent(p, j)}

\* Another pass may come by the job.
Open(j) == IF status[j] \in {"none", "pending", "retry"} THEN 1 ELSE 0

\* One message, and one more for every time the crew asked.
Allowance(j) == 1 + (IF j = TeamsFirst THEN resends ELSE 0)

\* What has left, what may leave from passes under way and what may be claimed
\* stay together within the allowance of a card or push; SMS sub-jobs are created once.
BudgetInv ==
    \A j \in Job :
        /\ j[1] \in {"teams", "push"} =>
              /\ IsFiniteSet(Senders(j))
              /\ delivered[j] + Cardinality(Senders(j)) + Open(j) <= Allowance(j)
        /\ j[1] = "sms" => delivered[j] <= 1

\* Senders that end or post make the set of senders smaller.
LEMMA FewerSenders ==
    ASSUME NEW j, IsFiniteSet(Senders(j)), NEW P, Senders(j)' \subseteq P, P \subseteq Senders(j)
    PROVE  /\ IsFiniteSet(P) /\ IsFiniteSet(Senders(j)')
           /\ Cardinality(Senders(j)') \in Nat /\ Cardinality(P) \in Nat /\ Cardinality(Senders(j)) \in Nat
           /\ Cardinality(Senders(j)') <= Cardinality(P) /\ Cardinality(P) <= Cardinality(Senders(j))
<1>1. IsFiniteSet(P) /\ Cardinality(P) <= Cardinality(Senders(j))
    BY FS_Subset
<1>2. IsFiniteSet(Senders(j)') /\ Cardinality(Senders(j)') <= Cardinality(P)
    BY <1>1, FS_Subset
<1> QED BY <1>1, <1>2, FS_CardinalityType

\* The crew never takes a resend back.
LEMMA AllowanceGrows ==
    ASSUME TypeOK, NEW j, resends' = resends \/ resends' = resends + 1
    PROVE  Allowance(j) \in Nat /\ Allowance(j)' \in Nat /\ Allowance(j)' >= Allowance(j)
<1>1. CASE resends' = resends
    BY <1>1 DEF TypeOK, Allowance, TeamsFirst
<1>2. CASE resends' = resends + 1
    BY <1>2 DEF TypeOK, Allowance, TeamsFirst
<1> QED BY <1>1, <1>2

\* One pass more.
LEMMA OneMore ==
    ASSUME NEW S, IsFiniteSet(S), NEW p
    PROVE  IsFiniteSet(S \cup {p}) /\ Cardinality(S \cup {p}) <= Cardinality(S) + 1
<1>1. IsFiniteSet(S \cup {p}) /\ Cardinality(S) \in Nat
    BY FS_AddElement, FS_CardinalityType
<1>2. Cardinality(S \cup {p}) = IF p \in S THEN Cardinality(S) ELSE Cardinality(S) + 1
    BY FS_AddElement
<1> QED BY <1>1, <1>2

\* A card or push job stays within its allowance, through every event: a claim spends
\* what is open, a sender that failed without sending opens it again.
LEMMA AllowanceStep ==
    ASSUME TypeOK, TypeOK', NEW j \in Job, JobEvent(j), j[1] \in {"teams", "push"},
           resends' = resends \/ resends' = resends + 1,
           IsFiniteSet(Senders(j)),
           delivered[j] + Cardinality(Senders(j)) + Open(j) <= Allowance(j)
    PROVE  /\ IsFiniteSet(Senders(j)')
           /\ delivered'[j] + Cardinality(Senders(j)') + Open(j)' <= Allowance(j)'
<1>0. /\ delivered[j] \in Nat /\ delivered'[j] \in Nat /\ Cardinality(Senders(j)) \in Nat
      /\ resends \in Nat
      /\ Allowance(j) \in Nat /\ Allowance(j)' \in Nat /\ Allowance(j)' >= Allowance(j)
      /\ Open(j) \in {0, 1} /\ Open(j)' \in {0, 1}
  <2>1. delivered[j] \in Nat /\ delivered'[j] \in Nat /\ resends \in Nat
    BY DEF TypeOK
  <2>2. Allowance(j) \in Nat /\ Allowance(j)' \in Nat /\ Allowance(j)' >= Allowance(j)
    BY AllowanceGrows
  <2>3. Open(j) \in {0, 1} /\ Open(j)' \in {0, 1}
    BY DEF Open
  <2>4. Cardinality(Senders(j)) \in Nat
    BY FS_CardinalityType
  <2> QED BY <2>1, <2>2, <2>3, <2>4
<1>1. ASSUME \A p \in Pass : Keeps(p, j), delivered'[j] = delivered[j],
             Open(j)' <= Open(j) \/ Reopened(j)
      PROVE  /\ IsFiniteSet(Senders(j)')
             /\ delivered'[j] + Cardinality(Senders(j)') + Open(j)' <= Allowance(j)'
  <2>1. Senders(j)' \subseteq Senders(j)
    BY <1>1 DEF Senders, Keeps
  <2>2. IsFiniteSet(Senders(j)') /\ Cardinality(Senders(j)') \in Nat
        /\ Cardinality(Senders(j)') <= Cardinality(Senders(j))
    BY <2>1, FewerSenders
  <2>3. CASE Open(j)' <= Open(j)
    BY <1>0, <1>1, <2>2, <2>3
  <2>4. CASE Reopened(j)
    <3>1. Open(j) = 0 /\ Allowance(j)' = Allowance(j) + 1
        BY <1>0, <2>4 DEF Reopened, Open, Allowance
    <3> QED BY <1>0, <1>1, <2>2, <3>1
  <2> QED BY <1>1, <2>3, <2>4
<1>2. CASE Quiet(j)
    BY <1>0, <1>1, <1>2 DEF Quiet, Open
<1>3. CASE Created(j)
    BY <1>0, <1>1, <1>3 DEF Created, Open
<1>4. CASE GivenUp(j)
    BY <1>0, <1>1, <1>4 DEF GivenUp, Open
<1>5. CASE Reopened(j)
    BY <1>1, <1>5 DEF Reopened
<1>6. ASSUME NEW p \in Pass, Taken(p, j)
      PROVE  /\ IsFiniteSet(Senders(j)')
             /\ delivered'[j] + Cardinality(Senders(j)') + Open(j)' <= Allowance(j)'
  <2>1. Open(j) = 1 /\ Open(j)' = 0 /\ delivered'[j] = delivered[j]
    BY <1>6 DEF Taken, Open, Waiting
  <2>2. Senders(j)' \subseteq Senders(j) \cup {p}
    BY <1>6 DEF Taken, Senders, Keeps
  <2>3. /\ IsFiniteSet(Senders(j) \cup {p})
        /\ Cardinality(Senders(j) \cup {p}) <= Cardinality(Senders(j)) + 1
    BY OneMore
  <2>4. IsFiniteSet(Senders(j)') /\ Cardinality(Senders(j)') <= Cardinality(Senders(j) \cup {p})
    BY <2>2, <2>3, FS_Subset
  <2>5. Cardinality(Senders(j)') \in Nat /\ Cardinality(Senders(j) \cup {p}) \in Nat
    BY <2>3, <2>4, FS_CardinalityType
  <2> QED BY <1>0, <2>1, <2>3, <2>4, <2>5
<1>7. ASSUME NEW p \in Pass, Sent(p, j) \/ Recorded(p, j), pc[p][j] = "calling"
      PROVE  /\ IsFiniteSet(Senders(j)')
             /\ delivered'[j] + Cardinality(Senders(j)') + Open(j)' <= Allowance(j)'
  <2>1. p \in Senders(j)
    BY <1>7 DEF Senders, Unsent
  <2>2. Senders(j)' \subseteq Senders(j) \ {p}
    BY <1>7 DEF Sent, Recorded, Senders, Keeps, Unsent
  <2>3. IsFiniteSet(Senders(j) \ {p}) /\ Cardinality(Senders(j) \ {p}) = Cardinality(Senders(j)) - 1
    BY <2>1, FS_RemoveElement
  <2>4. IsFiniteSet(Senders(j)') /\ Cardinality(Senders(j)') \in Nat
        /\ Cardinality(Senders(j)') <= Cardinality(Senders(j)) - 1
    BY <2>2, <2>3, FewerSenders
  <2>5. delivered'[j] + Open(j)' <= delivered[j] + Open(j) + 1
    <3>1. CASE Sent(p, j)
        BY <1>0, <3>1 DEF Sent, Open
    <3>2. CASE Recorded(p, j)
        BY <1>0, <3>2 DEF Recorded
    <3> QED BY <1>7, <3>1, <3>2
  <2> QED BY <1>0, <2>4, <2>5
<1>8. ASSUME NEW p \in Pass, Recorded(p, j), pc[p][j] = "posted"
      PROVE  /\ IsFiniteSet(Senders(j)')
             /\ delivered'[j] + Cardinality(Senders(j)') + Open(j)' <= Allowance(j)'
  <2>1. status'[j] \in {"sent", "uncertain", "suppressed"}
    BY <1>8, CardResults DEF Recorded
  <2>2. Open(j)' = 0
    BY <2>1 DEF Open
  <2>3. \A q \in Pass : Unsent(q, j)' => Unsent(q, j)
    BY <1>8 DEF Recorded, Keeps, Unsent
  <2>4. Senders(j)' \subseteq Senders(j)
    BY <2>3 DEF Senders
  <2>5. IsFiniteSet(Senders(j)') /\ Cardinality(Senders(j)') \in Nat
        /\ Cardinality(Senders(j)') <= Cardinality(Senders(j))
    BY <2>4, FewerSenders
  <2> QED BY <1>0, <1>8, <2>2, <2>5 DEF Recorded
<1> QED BY <1>2, <1>3, <1>4, <1>5, <1>6, <1>7, <1>8 DEF JobEvent, Sent, Recorded

\* The invariant of the allowances is inductive.
LEMMA BudgetStep == TypeOK /\ BudgetInv /\ [Next]_vars => BudgetInv'
<1> SUFFICES ASSUME TypeOK, BudgetInv, [Next]_vars, NEW j \in Job
             PROVE  /\ j[1] \in {"teams", "push"} =>
                          /\ IsFiniteSet(Senders(j)')
                          /\ delivered'[j] + Cardinality(Senders(j)') + Open(j)' <= Allowance(j)'
                    /\ j[1] = "sms" => delivered'[j] <= 1
    BY DEF BudgetInv
<1>1. JobEvent(j) /\ TypeOK' /\ (resends' = resends \/ resends' = resends + 1)
    BY JobStep, TypeStep, ResendsCount
<1>2. CASE j[1] \in {"teams", "push"}
    BY <1>1, <1>2, AllowanceStep DEF BudgetInv
<1>3. CASE j[1] = "sms"
    BY <1>1, <1>3 DEF BudgetInv, JobEvent, Quiet, Created, Reopened, GivenUp, Taken, Sent, Recorded
<1> QED BY <1>2, <1>3

\* At most once when in doubt: no claim, retry, lost answer or second pass sends a card or
\* push more often than the crew asked for, or creates the SMS of an alarm twice
\* (_claim_once, _send_teams, teams_manuell_erneut).
THEOREM PostBudgetHolds == Spec => []PostBudget
<1>1. Init => BudgetInv
  <2> SUFFICES ASSUME Init, NEW j \in Job
               PROVE  /\ IsFiniteSet(Senders(j)) /\ delivered[j] = 0
                      /\ Cardinality(Senders(j)) = 0 /\ Open(j) = 1 /\ Allowance(j) = 1
    BY DEF BudgetInv
  <2>1. Senders(j) = {}
    BY DEF Init, Senders, Unsent, Thread
  <2> QED BY <2>1, FS_EmptySet DEF Init, Open, Allowance
<1>2. TypeOK /\ BudgetInv => PostBudget
  <2> SUFFICES ASSUME TypeOK, BudgetInv, NEW j \in Job, j[1] \in {"teams", "push", "sms"}
               PROVE  delivered[j] <= Allowance(j)
    BY DEF PostBudget, Allowance
  <2>1. delivered[j] \in Nat /\ Allowance(j) \in Nat /\ Allowance(j) >= 1 /\ Open(j) \in {0, 1}
    BY DEF TypeOK, Allowance, Open
  <2>2. CASE j[1] = "sms"
    BY <2>1, <2>2 DEF BudgetInv
  <2>3. CASE j[1] # "sms"
    <3>1. Cardinality(Senders(j)) \in Nat /\ delivered[j] + Cardinality(Senders(j)) + Open(j) <= Allowance(j)
        BY <2>3, FS_CardinalityType DEF BudgetInv
    <3> QED BY <2>1, <3>1
  <2> QED BY <2>2, <2>3
<1> QED BY <1>1, <1>2, BudgetStep, TypeCorrect, PTL DEF Spec

-----------------------------------------------------------------------------
(* Final results. *)

\* No late result, new claim or recovery touches a terminal job; only
\* teams_manuell_erneut() reopens one.
THEOREM TerminalStandsHolds == Spec => TerminalStands
<1>1. ASSUME TypeOK, [Next]_vars, NEW j \in Job, status[j] \in TERMINAL, status'[j] # status[j]
      PROVE  Reopened(j)
  <2>1. JobEvent(j)
    BY <1>1, JobStep
  <2> QED BY <1>1, <2>1 DEF JobEvent, Quiet, Created, GivenUp, Taken, Sent, Recorded, Waiting, TERMINAL
<1>2. TypeOK /\ [Next]_vars =>
        [\A j \in Job : status[j] \in TERMINAL /\ status'[j] # status[j] =>
            /\ j = TeamsFirst /\ status[j] \in {"uncertain", "failed"}
            /\ resends' = resends + 1]_vars
    BY <1>1 DEF Reopened
<1> QED BY <1>2, TypeCorrect, PTL DEF Spec, TerminalStands

-----------------------------------------------------------------------------
(* The end of the alarm. *)

Finishing(p, t) == pc[p][t] \in {"waiting", "writing"}
FinishKept(p, t) == Finishing(p, t)' => pc[p][t] = pc'[p][t]

NoFinish == finished' = finished /\ \A p \in Pass, t \in Thread : FinishKept(p, t)

SawTheEnd ==
    /\ AllTerminal /\ UNCHANGED <<status, finished>>
    /\ \A p \in Pass, t \in Thread : pc'[p][t] = "writing" => pc[p][t] = "writing"

Entered(p, t) ==
    /\ pc[p][t] = "waiting" /\ LockFree(p) /\ finished = 0 /\ finished' = finished
    /\ \A q \in Pass, u \in Thread : <<q, u>> # <<p, t>> => pc'[q][u] = pc[q][u]

Wrote(p, t) ==
    /\ pc[p][t] = "writing" /\ pc'[p][t] = "off" /\ finished' = finished + 1
    /\ \A q \in Pass, u \in Thread : FinishKept(q, u)

FinishEvent ==
    \/ NoFinish \/ SawTheEnd
    \/ \E p \in Pass, t \in Thread : Entered(p, t) \/ Wrote(p, t)

\* Whatever happens is, for the end of the alarm, one of the events above
\* (_finish_if_done).
LEMMA FinishStep == TypeOK /\ [Next]_vars => FinishEvent
<1> SUFFICES ASSUME TypeOK, [Next]_vars PROVE FinishEvent
    OBVIOUS
<1> USE DEF FinishKept, Finishing
<1>0. Job \subseteq Thread
    BY DEF Thread
<1>1. ASSUME UNCHANGED <<pc, finished>> PROVE FinishEvent
    BY <1>1 DEF FinishEvent, NoFinish
<1>2. ASSUME NEW gone, Leave(gone), finished' = finished PROVE FinishEvent
    BY <1>2 DEF TypeOK, Leave, FinishEvent, NoFinish
<1>3. ASSUME NEW p \in Pass, NEW t \in Thread, NEW x \in {"listed", "fenced", "won", "off", "ready",
              "calling", "posted", "closing"}, pc' = [pc EXCEPT ![p][t] = x], finished' = finished
      PROVE  FinishEvent
    BY <1>3 DEF TypeOK, FinishEvent, NoFinish
<1>4. ASSUME NEW v \in Variant, NEW s \in BOOLEAN, NEW P \in AtMostOneRequest, Enqueue(v, s, P)
      PROVE  FinishEvent
    BY <1>1, <1>4 DEF Enqueue
<1>5. ASSUME NEW P \in AtMostOneRequest, Resend(P) PROVE FinishEvent
    BY <1>1, <1>5 DEF Resend
<1>6. ASSUME NEW p \in Pass, LoopCall(p) \/ EndPass(p) PROVE FinishEvent
    BY <1>1, <1>6 DEF LoopCall, EndPass
<1>7. ASSUME NEW p \in Pass, List(p) PROVE FinishEvent
    BY <1>7 DEF TypeOK, List, FinishEvent, NoFinish
<1>8. ASSUME NEW p \in Pass, Launch(p) PROVE FinishEvent
    BY <1>8 DEF TypeOK, Launch, FinishEvent, NoFinish
<1>9. ASSUME NEW p \in Pass, DropList(p) \/ Cancel(p) PROVE FinishEvent
    BY <1>2, <1>9 DEF DropList, Cancel
<1>10. ASSUME NEW p \in Pass, NEW k \in Job, GiveUpStale(p, k) \/ ReadGeneration(p, k) \/ Deliver(p, k)
       PROVE  FinishEvent
    BY <1>0, <1>3, <1>10 DEF GiveUpStale, ReadGeneration, Deliver
<1>11. ASSUME NEW p \in Pass, NEW k \in Job, Claim(p, k) PROVE FinishEvent
  <2>1. CASE pc' = [pc EXCEPT ![p][k] = "won"]
    BY <1>0, <1>3, <1>11, <2>1 DEF Claim
  <2>2. CASE pc' = [pc EXCEPT ![p][k] = "off"]
    BY <1>0, <1>3, <1>11, <2>2 DEF Claim
  <2> QED BY <1>11, <2>1, <2>2 DEF Claim
<1>12. ASSUME NEW p \in Pass, NEW k \in Job, Load(p, k) PROVE FinishEvent
    BY <1>0, <1>2, <1>3, <1>12 DEF Load
<1>13. ASSUME NEW p \in Pass, NEW k \in Job, Record(p, k) PROVE FinishEvent
    BY <1>0, <1>2, <1>3, <1>13 DEF Record
<1>14. ASSUME NEW p \in Pass, NEW t \in Thread, CheckDone(p, t) PROVE FinishEvent
  <2>1. CASE AllTerminal /\ pc' = [pc EXCEPT ![p][t] = "waiting"]
    BY <1>14, <2>1 DEF TypeOK, CheckDone, FinishEvent, SawTheEnd
  <2> QED BY <1>2, <1>14, <2>1 DEF CheckDone
<1>15. ASSUME NEW p \in Pass, NEW t \in Thread, EnterFinish(p, t) PROVE FinishEvent
  <2>1. CASE finished = 0 /\ pc' = [pc EXCEPT ![p][t] = "writing"]
    <3>1. Entered(p, t)
        BY <1>15, <2>1 DEF TypeOK, EnterFinish, Entered
    <3> QED BY <3>1 DEF FinishEvent
  <2> QED BY <1>2, <1>15, <2>1 DEF EnterFinish
<1>16. ASSUME NEW p \in Pass, NEW t \in Thread, WriteFinished(p, t) PROVE FinishEvent
  <2>1. Wrote(p, t)
    BY <1>16 DEF TypeOK, WriteFinished, Leave, Wrote
  <2> QED BY <2>1 DEF FinishEvent
<1>17. ASSUME NEW p \in Pass, NEW t \in Thread, LoseWrite(p, t) PROVE FinishEvent
    BY <1>2, <1>17 DEF LoseWrite
<1>18. ASSUME NEW k \in Job, Elapse(k) PROVE FinishEvent
    BY <1>1, <1>18 DEF Elapse
<1>19. ASSUME NEW w \in Process, Crash(w) PROVE FinishEvent
    BY <1>2, <1>19 DEF Crash
<1>20. CASE UNCHANGED vars
    BY <1>1, <1>20 DEF vars
<1> QED
    BY <1>4, <1>5, <1>6, <1>7, <1>8, <1>9, <1>10, <1>11, <1>12, <1>13, <1>14, <1>15, <1>16,
       <1>17, <1>18, <1>19, <1>20 DEF Next, PassStep

\* The jobs of a variant are created together, and a thread that is about to
\* report the incident finished saw all of them settled.
SettledInv ==
    /\ \A j, k \in Job : j[2] = k[2] /\ status[j] = "none" => status[k] = "none"
    /\ /\ resends = 0 /\ \A j \in Job : j[2] # First => status[j] = "none"
       /\ finished > 0 \/ \E p \in Pass, t \in Thread : Finishing(p, t)
       => \A j \in Job : j[2] = First => status[j] \in TERMINAL

\* Rows of incident_alarm_job appear in the enqueue functions only.
LEMMA RowsAppear ==
    ASSUME TypeOK, [Next]_vars, NEW k \in Job, status[k] = "none"
    PROVE  \/ status'[k] = "none"
           \/ \E v \in Variant, s \in BOOLEAN, P \in AtMostOneRequest : Enqueue(v, s, P)
<1>1. ASSUME NEW P \in AtMostOneRequest, Resend(P) PROVE status'[k] = "none"
    BY <1>1 DEF TypeOK, Resend
<1>2. ASSUME NEW p \in Pass, NEW j \in Job, GiveUpStale(p, j) PROVE status'[k] = "none"
    BY <1>2 DEF TypeOK, GiveUpStale, Stale
<1>3. ASSUME NEW p \in Pass, NEW j \in Job, Claim(p, j) PROVE status'[k] = "none"
    BY <1>3 DEF TypeOK, Claim, Eligible, Waiting
<1>4. ASSUME NEW p \in Pass, NEW j \in Job, Record(p, j) PROVE status'[k] = "none"
    BY <1>4 DEF TypeOK, Record, Holds
<1>5. \/ \E v \in Variant, s \in BOOLEAN, P \in AtMostOneRequest : Enqueue(v, s, P)
      \/ \E P \in AtMostOneRequest : Resend(P)
      \/ \E p \in Pass, j \in Job : GiveUpStale(p, j) \/ Claim(p, j) \/ Record(p, j)
      \/ UNCHANGED status
    BY DEF Next, PassStep, vars, LoopCall, List, Launch, DropList, EndPass, ReadGeneration, Load,
           CheckDone, EnterFinish, WriteFinished, Cancel, Deliver, LoseWrite, Elapse, Crash
<1> QED BY <1>1, <1>2, <1>3, <1>4, <1>5

\* Rows of incident_alarm_job are never deleted.
LEMMA RowsStay ==
    ASSUME TypeOK, [Next]_vars, NEW j \in Job, status'[j] = "none"
    PROVE  status[j] = "none"
<1>1. \A p \in Pass : ~Recorded(p, j)
  <2>1. SUFFICES ASSUME NEW p \in Pass, Recorded(p, j) PROVE FALSE
    OBVIOUS
  <2>2. AfterException(j) # "none"
    <3>1. AfterException(j) = "retry" \/ AfterException(j) = "failed"
        BY Zenon DEF AfterException
    <3> QED BY <3>1
  <2>3. \A r \in Results(j, pc[p][j]) : r # "none"
    BY <2>1 DEF Recorded, Results
  <2> QED BY <2>1, <2>2, <2>3 DEF Recorded
<1> QED BY <1>1, JobStep DEF JobEvent, Quiet, Created, Reopened, GivenUp, Taken, Sent

\* The rows of a variant appear together (one transaction per enqueue).
LEMMA VariantStep ==
    ASSUME TypeOK, SettledInv, [Next]_vars, NEW j \in Job, NEW k \in Job, j[2] = k[2],
           status'[j] = "none"
    PROVE  status'[k] = "none"
<1>1. status[j] = "none" /\ status[k] = "none"
    BY RowsStay DEF SettledInv
<1>2. ASSUME NEW v \in Variant, NEW s \in BOOLEAN, NEW P \in AtMostOneRequest, Enqueue(v, s, P)
      PROVE  status'[k] = "none"
    BY <1>1, <1>2 DEF TypeOK, Enqueue, Exists
<1> QED BY <1>1, <1>2, RowsAppear

\* Without a resend a final result stands.
LEMMA TerminalStays ==
    ASSUME TypeOK, [Next]_vars, NEW j \in Job, status[j] \in TERMINAL, resends' = 0
    PROVE  status'[j] = status[j]
<1>1. ~Reopened(j)
    BY DEF Reopened, TypeOK
<1> QED BY <1>1, JobStep DEF JobEvent, Quiet, Created, GivenUp, Taken, Sent, Recorded, Waiting, TERMINAL

\* A thread that is about to write alarm_finished has seen settled first alarms,
\* and they stay settled: the invariant is inductive.
LEMMA SettledStep == TypeOK /\ SettledInv /\ [Next]_vars => SettledInv'
<1> SUFFICES ASSUME TypeOK, SettledInv, [Next]_vars PROVE SettledInv'
    OBVIOUS
<1>1. ASSUME NEW j \in Job, NEW k \in Job, j[2] = k[2], status'[j] = "none" PROVE status'[k] = "none"
    BY <1>1, VariantStep
<1>2. ASSUME resends' = 0, \A j \in Job : j[2] # First => status'[j] = "none",
             finished' > 0 \/ \E p \in Pass, t \in Thread : Finishing(p, t)',
             NEW j \in Job, j[2] = First
      PROVE  status'[j] \in TERMINAL
  <2>1. resends = 0 /\ \A k \in Job : k[2] # First => status[k] = "none"
    BY <1>2, ResendsGrow, RowsStay DEF TypeOK
  <2>2. SUFFICES status[j] \in TERMINAL
    BY <1>2, <2>2, TerminalStays
  <2>3. CASE SawTheEnd
    BY <1>2, <2>1, <2>3 DEF SawTheEnd, AllTerminal, Exists, SettledInv
  <2>4. CASE ~SawTheEnd
    <3>1. finished > 0 \/ \E p \in Pass, t \in Thread : Finishing(p, t)
        BY <1>2, <2>4, FinishStep
           DEF TypeOK, FinishEvent, NoFinish, FinishKept, Finishing, Entered, Wrote
    <3> QED BY <1>2, <2>1, <3>1 DEF SettledInv
  <2> QED BY <2>3, <2>4
<1> QED BY <1>1, <1>2 DEF SettledInv

\* incident.alarm_finished stands for final results of all first alarms
\* (_finish_if_done reads them before the lock, the entry is written under it).
THEOREM FinishedMeansSettledHolds == Spec => []FinishedMeansSettled
<1>1. Init => SettledInv
    BY DEF Init, SettledInv, Finishing
<1>2. SettledInv => FinishedMeansSettled
    BY DEF SettledInv, FinishedMeansSettled
<1> QED BY <1>1, <1>2, SettledStep, TypeCorrect, PTL DEF Spec

-----------------------------------------------------------------------------
(* One process writes the end once. *)

OnceInv ==
    /\ finished <= 1
    /\ \A p, q \in Pass, t, u \in Thread :
          pc[p][t] = "writing" => /\ finished = 0
                                  /\ pc[q][u] = "writing" => p = q /\ t = u

\* With a single worker process _ABSCHLUSS_SPERRE is enough: one entry.
THEOREM FinishedOnceHolds ==
    ASSUME \A p, q \in Pass : ProcOf[p] = ProcOf[q]
    PROVE  Spec => []FinishedOnce
<1>1. Init => OnceInv
    BY DEF Init, OnceInv
<1>2. TypeOK /\ OnceInv /\ [Next]_vars => OnceInv'
  <2> SUFFICES ASSUME TypeOK, OnceInv, [Next]_vars PROVE OnceInv'
    OBVIOUS
  <2>1. CASE NoFinish
    BY <2>1 DEF NoFinish, FinishKept, Finishing, OnceInv
  <2>2. CASE SawTheEnd
    BY <2>2 DEF SawTheEnd, OnceInv
  <2>3. ASSUME NEW p \in Pass, NEW t \in Thread, Entered(p, t) PROVE OnceInv'
    <3>1. \A q \in Pass, u \in Thread : pc[q][u] # "writing"
        BY <2>3 DEF Entered, LockFree
    <3> QED BY <2>3, <3>1 DEF Entered, OnceInv
  <2>4. ASSUME NEW p \in Pass, NEW t \in Thread, Wrote(p, t) PROVE OnceInv'
    <3>1. \A q \in Pass, u \in Thread : pc'[q][u] # "writing"
        BY <2>4 DEF Wrote, FinishKept, Finishing, OnceInv
    <3>2. finished' <= 1
        BY <2>4 DEF Wrote, OnceInv, TypeOK
    <3> QED BY <3>1, <3>2 DEF OnceInv
  <2> QED BY <2>1, <2>2, <2>3, <2>4, FinishStep DEF FinishEvent
<1>3. OnceInv => FinishedOnce
    BY DEF OnceInv, FinishedOnce
<1> QED BY <1>1, <1>2, <1>3, TypeCorrect, PTL DEF Spec
=============================================================================
