-------------------------- MODULE SmsOutbox_proofs --------------------------
(***************************************************************************)
(* Theorems about SmsOutbox, for any phones, provider chains and bounds:   *)
(* types, the safe requeue, the single grant, and the refinement of        *)
(* SendOnce.  The inductive invariant follows who may still send: a drive  *)
(* at EUS and a phone with a grant belong to the current claim of a job    *)
(* that is neither waiting nor failed.                                     *)
(***************************************************************************)
EXTENDS SmsOutbox, FiniteSetTheorems, TLAPS

EUS_PLACES == {"eus", "calling", "accepted", "refused", "unclear"}
ON_WIRE    == {"sending", "delivered", "failed"}
HANDED     == {"intent", "accepted", "unclear"}

\* Generation g is the current one, and with phone gw.
Cur(gw, g) == job.gen = g /\ job.gateway = gw /\ job.provider = "gateway"

\* A drive at EUS has the current claim, whether or not the sweep has given up on it.
DriveInv ==
    \A g \in Gen : drive[g] \in EUS_PLACES =>
        job.gen = g /\ job.provider = "eus" /\ job.status \in {"dispatched", "uncertain"}

ActiveInv == job.status \in ACTIVE => job.gen \in Gen

\* The columns of a claimed and of a dispatched row.  With EUS the SMS counts as
\* possibly sent from the start.
RowInv ==
    /\ job.status = "claimed" => job.provider = None
    /\ Reachable => job.provider \in {"gateway", "eus"}
    /\ job.status = "acknowledged" => job.provider = "gateway"
    /\ Reachable /\ job.provider = "eus" => job.may

\* Connections are numbered, and the row names one of its gateway.
ConnInv ==
    /\ \A gw \in Gateway : conn[gw] # NoConn =>
          connects[gw] \in 1 .. MaxConn /\ conn[gw] = <<gw, connects[gw]>>
    /\ Reachable /\ job.provider = "gateway" =>
          /\ job.gateway \in Gateway
          /\ \E n \in 1 .. connects[job.gateway] : job.conn = <<job.gateway, n>>

\* One order per generation, and none for the future.  While a phone has the job, the
\* protocol decides about the messages, and grants follow the connections: so a new
\* grant never overwrites an old one.
RouteInv ==
    /\ \A r \in Route : route[r] # None =>
          /\ r[2] <= job.gen
          /\ job.status = "claimed" => r[2] # job.gen
    /\ \A r, q \in Route :
          route[r] # None /\ route[q] # None /\ r[1] # "commit" /\ q[1] # "commit" /\ r[2] = q[2]
              => r = q
    /\ Reachable /\ job.provider = "gateway" =>
          \A r \in Route : route[r] # None /\ r[2] = job.gen =>
              /\ r[1] = "send" <=> job.protocol = 1
              /\ r[1] = "commit" /\ r[3][1] = job.gateway =>
                    job.status = "acknowledged" /\ r[3][2] <= job.conn[2]

\* A phone starts the send only after a message that asks for it.
PhoneInv ==
    \A gw \in Gateway, g \in Gen : phone[gw][g] \in HANDED =>
        \E kind \in {"send", "commit"} : OnTheWire(kind, gw, g)

\* Who may send is the phone of the current generation, and the job is not waiting.
MayInv ==
    \A gw \in Gateway, g \in Gen : MaySend(gw, g) =>
        Cur(gw, g) /\ job.status \in {"dispatched", "acknowledged", "sent", "uncertain"}

\* If the SMS left, the current phone or the current drive has it done; what they know
\* to be accepted did leave.
SendsInv ==
    /\ sends \in {0, 1}
    /\ sends = 1 =>
          \/ \E gw \in Gateway, g \in Gen : Cur(gw, g) /\ phone[gw][g] \in {"accepted", "unclear"}
          \/ /\ job.provider = "eus" /\ job.status \in {"dispatched", "sent", "uncertain"}
             /\ job.gen \in Gen /\ drive[job.gen] \notin {"eus", "calling", "refused"}
    /\ \A gw \in Gateway, g \in Gen : phone[gw][g] = "accepted" => sends = 1
    /\ \A g \in Gen : drive[g] = "accepted" => sends = 1
    /\ job.status = "sent" => sends = 1

-----------------------------------------------------------------------------
\* The parts of an address of the transport queue.
LEMMA RouteParts ==
    ASSUME NEW r \in Route
    PROVE  /\ r[1] \in {"prepare", "send", "commit"} /\ r[2] \in Gen
           /\ r[3] \in Conn /\ r[3][1] \in Gateway /\ r[3][2] \in 1 .. MaxConn
           /\ r[3] = <<r[3][1], r[3][2]>> /\ r = <<r[1], r[2], r[3]>>
BY DEF Route, Conn

\* An address put together from its parts has these parts.
LEMMA RouteMade ==
    ASSUME NEW kind \in {"prepare", "send", "commit"}, NEW g \in Gen, NEW gw \in Gateway, NEW n \in 1 .. MaxConn
    PROVE  /\ <<gw, n>> \in Conn /\ <<kind, g, <<gw, n>>>> \in Route
           /\ <<kind, g, <<gw, n>>>>[1] = kind /\ <<kind, g, <<gw, n>>>>[2] = g
           /\ <<kind, g, <<gw, n>>>>[3] = <<gw, n>>
           /\ <<gw, n>>[1] = gw /\ <<gw, n>>[2] = n
BY DEF Route, Conn

\* The connection of a gateway is never the mark for "offline".
LEMMA OfflineIsNoConn == \A c \in Conn : c # NoConn /\ c[1] # None
BY GatewayAssumption DEF Conn, NoConn, None

\* The bounds a row of sms_dispatch_job keeps.
LEMMA RowFacts ==
    ASSUME TypeOK
    PROVE  /\ job \in JobType /\ Len(job.providers) \in Nat
           /\ job.index \in Nat \ {0} /\ job.gen \in 0 .. MaxGen
           /\ MaxGen \in Nat \ {0} /\ MaxConn \in Nat \ {0}
  <1>1. job.providers \in Seq({"gateway", "eus"})
    <2>1. job.providers \in {s.providers : s \in Setups}
      BY DEF TypeOK, JobType
    <2> QED
      BY <2>1, SetupAssumption
  <1>2. Len(job.providers) \in Nat
    BY <1>1
  <1> QED
    BY <1>2, SmsBoundAssumption DEF TypeOK, JobType

\* The first row, and the connections a setup starts with, have their types.
LEMMA InitTyped == Init => TypeOK
  <1> SUFFICES ASSUME Init PROVE TypeOK
    OBVIOUS
  <1>1. PICK s \in Setups :
          /\ job = [status |-> "queued", gen |-> 0, providers |-> s.providers, provider |-> None,
                    index |-> 1, gateway |-> None, conn |-> NoConn, protocol |-> 1,
                    may |-> FALSE, received |-> FALSE, attempted |-> FALSE]
          /\ connects = s.connects
    BY DEF Init
  <1>2. connects \in [Gateway -> 0 .. MaxConn]
    BY <1>1, SetupAssumption
  <1>3. job \in JobType /\ job.index = 1
    BY <1>1, SmsBoundAssumption DEF JobType, TERMINAL, ACTIVE, None
  <1> QED
    BY <1>2, <1>3 DEF Init, TypeOK, None

RowOK == job \in JobType /\ (job.index = 1 \/ job.index <= Len(job.providers))

Outcomes == TERMINAL \cup {None, "dispatched", "acknowledged", "not_dispatched", "receipt_timeout"}
AttemptsOK == attempts \in [Gen -> [gateway : Gateway \cup {None}, outcome : Outcomes]]

\* An outcome written to an attempt keeps the attempts typed (_complete).
LEMMA OutcomeTyped ==
    ASSUME AttemptsOK, NEW g \in Gen, NEW outcome \in Outcomes,
           attempts' = [attempts EXCEPT ![g].outcome = outcome]
    PROVE  AttemptsOK'
  <1>1. [attempts[g] EXCEPT !.outcome = outcome] \in [gateway : Gateway \cup {None}, outcome : Outcomes]
    BY DEF AttemptsOK
  <1> QED
    BY <1>1 DEF AttemptsOK

\* _complete() keeps the row and its attempts typed: it moves to the next provider
\* only while there is one.
LEMMA CompleteTyped ==
    ASSUME TypeOK, NEW g \in Gen, NEW outcome \in TERMINAL, NEW notSent \in BOOLEAN,
           Complete(g, outcome, notSent)
    PROVE  RowOK' /\ AttemptsOK'
  <1>1. RowOK'
    <2>1. RowOK
      BY DEF TypeOK, RowOK
    <2>2. CASE outcome = "failed" /\ notSent /\ job.index < Len(job.providers)
      <3>1. job' = [job EXCEPT !.index = @ + 1, !.status = "queued", !.may = FALSE,
                               !.gateway = None, !.conn = NoConn]
        BY <2>2 DEF Complete
      <3>2. job.index + 1 \in Nat \ {0} /\ job.index + 1 <= Len(job.providers)
        BY <2>2, RowFacts
      <3>3. job' \in JobType
        BY <2>1, <3>1, <3>2 DEF RowOK, JobType
      <3>4. job'.index = job.index + 1 /\ job'.providers = job.providers
        BY <2>1, <3>1 DEF RowOK, JobType
      <3> QED
        BY <3>2, <3>3, <3>4 DEF RowOK
    <2>3. CASE ~(outcome = "failed" /\ notSent /\ job.index < Len(job.providers))
      <3>1. PICK may \in BOOLEAN : job' = [job EXCEPT !.status = outcome, !.may = may]
        BY <2>1, <2>3 DEF Complete, RowOK, JobType
      <3> QED
        BY <2>1, <3>1, RowFacts DEF RowOK, JobType
    <2> QED
      BY <2>2, <2>3
  <1>2. AttemptsOK /\ outcome \in Outcomes
    BY DEF TypeOK, AttemptsOK, Outcomes
  <1> QED
    BY <1>1, <1>2, OutcomeTyped DEF Complete

\* Every step of workers, phones, gateways, drives and time keeps the types.
LEMMA Typed == TypeOK /\ ActiveInv /\ [Next]_vars => TypeOK'
  <1> SUFFICES ASSUME TypeOK, ActiveInv, [Next]_vars PROVE TypeOK'
    OBVIOUS
  <1>0. RowOK /\ AttemptsOK
    BY DEF TypeOK, RowOK, AttemptsOK, Outcomes
  <1> USE DEF rowVars, linkVars
  <1>1. CASE Claim
    <2>1. job.gen + 1 \in Gen
      BY <1>1, RowFacts DEF Claim, Gen
    <2>2. RowOK'
      <3>1. job.gen + 1 \in 0 .. MaxGen
        BY <2>1, RowFacts DEF Gen
      <3>2. job' \in JobType
        BY <1>0, <1>1, <3>1 DEF Claim, RowOK, JobType, ACTIVE
      <3>3. job'.index = job.index /\ job'.providers = job.providers
        BY <1>0, <1>1 DEF Claim, RowOK, JobType
      <3> QED
        BY <1>0, <3>2, <3>3 DEF RowOK
    <2>3. drive' \in [Gen -> {None, "claimed", "eus", "calling", "accepted", "refused", "unclear"}]
      BY <1>1, <2>1 DEF Claim, TypeOK
    <2> QED
      BY <1>1, <2>2, <2>3 DEF Claim, TypeOK, RowOK
  <1>2. ASSUME NEW g \in Gen, Prepare(g) PROVE TypeOK'
    <2>1. CASE PutBack(g)
      <3>1. "not_dispatched" \in Outcomes
        BY DEF Outcomes
      <3>2. AttemptsOK'
        BY <1>0, <2>1, <3>1, OutcomeTyped DEF PutBack
      <3>3. RowOK'
        BY <1>0, <2>1 DEF PutBack, RowOK, JobType
      <3> QED
        BY <2>1, <3>2, <3>3 DEF PutBack, TypeOK, RowOK, AttemptsOK, Outcomes
    <2>2. PICK eusOn \in BOOLEAN :
            \/ PutBack(g)
            \/ \E i \in Stops(eusOn) :
                  ToEus(g, i) \/ \E gw \in Candidates(i, eusOn) : ToGateway(g, i, gw)
      BY <1>2 DEF Prepare
    <2>3. ASSUME NEW i \in Stops(eusOn) PROVE i \in Nat \ {0} /\ i <= Len(job.providers)
      BY <2>3, RowFacts DEF Stops
    <2>4. ASSUME NEW i \in Stops(eusOn), ToEus(g, i) PROVE TypeOK'
      <3>1. "dispatched" \in Outcomes
        BY DEF Outcomes
      <3>2. AttemptsOK'
        BY <1>0, <2>4, <3>1, OutcomeTyped DEF ToEus
      <3>3. RowOK'
        BY <1>0, <2>3, <2>4 DEF ToEus, RowOK, JobType, ACTIVE
      <3> QED
        BY <2>4, <3>2, <3>3 DEF ToEus, TypeOK, RowOK, AttemptsOK, Outcomes
    <2>5. ASSUME NEW i \in Stops(eusOn), NEW gw \in Candidates(i, eusOn), ToGateway(g, i, gw)
          PROVE  TypeOK'
      <3>1. gw \in Gateway /\ conn[gw] \in Conn /\ proto[gw] \in {1, 2}
        BY <2>5 DEF Candidates, Online, Excluded, TypeOK
      <3>2. AttemptsOK'
        BY <1>0, <2>5, <3>1 DEF ToGateway, AttemptsOK, Outcomes
      <3>3. RowOK'
        <4>1. PICK protocol \in {1, 2}, may \in BOOLEAN, c \in Conn \cup {NoConn} :
                job' = [job EXCEPT !.status = "dispatched", !.index = i, !.provider = "gateway",
                                   !.gateway = gw, !.conn = c, !.protocol = protocol, !.may = may]
          <5>1. (proto[gw] < 2) \in BOOLEAN
            OBVIOUS
          <5> QED
            BY <2>5, <3>1, <5>1 DEF ToGateway
        <4>2. job' \in JobType
          BY <1>0, <2>3, <3>1, <4>1 DEF RowOK, JobType, ACTIVE
        <4>3. job'.index = i /\ job'.providers = job.providers
          BY <1>0, <4>1 DEF RowOK, JobType
        <4> QED
          BY <2>3, <4>2, <4>3 DEF RowOK
      <3>4. route' \in [Route -> {None, "queued", "sending", "delivered", "failed", "expired"}]
        BY <2>5, <3>1 DEF ToGateway, TypeOK
      <3>5. drive' \in [Gen -> {None, "claimed", "eus", "calling", "accepted", "refused", "unclear"}]
        BY <2>5 DEF ToGateway, TypeOK
      <3> QED
        BY <2>5, <3>2, <3>3, <3>4, <3>5 DEF ToGateway, TypeOK, RowOK, AttemptsOK, Outcomes
    <2> QED
      BY <2>1, <2>2, <2>4, <2>5
  <1>3. ASSUME NEW g \in Gen, DriveEnds(g) \/ CheckEus(g) \/ CallEus(g) PROVE TypeOK'
    <2>1. drive' \in [Gen -> {None, "claimed", "eus", "calling", "accepted", "refused", "unclear"}]
      BY <1>3 DEF DriveEnds, CheckEus, CallEus, TypeOK
    <2>2. sends' \in Nat
      BY <1>3 DEF DriveEnds, CheckEus, CallEus, TypeOK
    <2> QED
      BY <1>3, <2>1, <2>2 DEF DriveEnds, CheckEus, CallEus, TypeOK
  <1>4. ASSUME NEW g \in Gen, EusResult(g) PROVE TypeOK'
    <2>1. EusOutcome(drive[g]) \in TERMINAL
      BY DEF EusOutcome, TERMINAL
    <2>2. RowOK' /\ AttemptsOK'
      <3>1. CASE HasToken(g)
        <4>1. Complete(g, EusOutcome(drive[g]), drive[g] = "refused")
          BY <1>4, <3>1 DEF EusResult
        <4> QED
          BY <2>1, <4>1, CompleteTyped
      <3>2. CASE ~HasToken(g)
        BY <1>0, <1>4, <3>2 DEF EusResult, RowOK, AttemptsOK
      <3> QED
        BY <3>1, <3>2
    <2> QED
      BY <1>4, <2>2 DEF EusResult, TypeOK, RowOK, AttemptsOK, Outcomes
  <1>5. ASSUME NEW r \in Route, Transport(r) PROVE TypeOK'
    <2>1. route' \in [Route -> {None, "queued", "sending", "delivered", "failed", "expired"}]
      <3>1. PICK to : to \in {"sending", "delivered", "failed", "expired"} /\ route' = [route EXCEPT ![r] = to]
        BY <1>5 DEF Transport, PickUp, Expire, WriteDone
      <3>2. to \in {None, "queued", "sending", "delivered", "failed", "expired"}
        BY <3>1
      <3> QED
        BY <3>1, <3>2 DEF TypeOK
    <2>2. conn' \in [Gateway -> Conn \cup {NoConn}]
      <3>1. conn' = conn \/ conn' = [conn EXCEPT ![r[3][1]] = IF @ = r[3] THEN NoConn ELSE @]
        BY <1>5 DEF Transport, PickUp, Expire, WriteDone
      <3> QED
        BY <3>1 DEF TypeOK
    <2> QED
      BY <1>5, <2>1, <2>2 DEF Transport, PickUp, Expire, WriteDone, TypeOK
  <1>6. ASSUME NEW gw \in Gateway, Link(gw) PROVE TypeOK'
    <2>1. CASE Connect(gw)
      <3>1. connects[gw] + 1 \in 1 .. MaxConn
        BY <2>1, RowFacts DEF Connect, TypeOK
      <3> QED
        BY <2>1, <3>1 DEF Connect, TypeOK, Conn
    <2>2. CASE Disconnect(gw) \/ Hello(gw)
      BY <2>2 DEF Disconnect, Hello, TypeOK
    <2> QED
      BY <1>6, <2>1, <2>2 DEF Link
  <1>7. ASSUME NEW gw \in Gateway, NEW g \in Gen, Phone(gw, g) \/ Abandon(gw, g) PROVE TypeOK'
    <2>1. PICK to \in {"received", "intent", "accepted", "unclear", "rejected", "dropped"} :
            /\ phone' = [phone EXCEPT ![gw][g] = to]
            /\ UNCHANGED <<rowVars, route, drive, linkVars>>
            /\ sends' \in {sends, sends + 1}
      BY <1>7 DEF Phone, PhoneReceives, PhoneCommits, PhoneLegacy, PhoneRejects, PhoneSends,
                  Abandon, PhoneStep
    <2>2. [phone[gw] EXCEPT ![g] = to] \in [Gen -> {None, "received", "intent", "accepted", "unclear",
                                     "rejected", "dropped"}]
      BY DEF TypeOK
    <2> QED
      BY <2>1, <2>2 DEF TypeOK
  <1>8. ASSUME NEW gw \in Gateway, NEW g \in Gen, NEW reconcile \in BOOLEAN, Ack(gw, g, reconcile)
        PROVE  TypeOK'
    <2>1. conn[gw] \in Conn
      BY <1>8 DEF Ack, Concerns, TypeOK
    <2>2. "acknowledged" \in Outcomes
      BY DEF Outcomes
    <2>3. AttemptsOK'
      BY <1>0, <1>8, <2>2, OutcomeTyped DEF Ack
    <2>4. RowOK'
      <3>1. RowOK /\ "acknowledged" \in ACTIVE
        BY <1>0 DEF ACTIVE
      <3>2. CASE job' = [job EXCEPT !.status = "acknowledged", !.received = TRUE, !.may = TRUE,
                                    !.conn = conn[gw]]
        BY <2>1, <3>1, <3>2 DEF RowOK, JobType
      <3>3. CASE job' = [job EXCEPT !.status = "acknowledged", !.received = TRUE]
        BY <3>1, <3>3 DEF RowOK, JobType
      <3> QED
        BY <1>8, <3>2, <3>3 DEF Ack
    <2>5. /\ leaseOver' \in BOOLEAN
          /\ route' \in [Route -> {None, "queued", "sending", "delivered", "failed", "expired"}]
      BY <1>8 DEF Ack, TypeOK
    <2> QED
      BY <1>8, <2>3, <2>4, <2>5 DEF Ack, TypeOK, RowOK, AttemptsOK, Outcomes
  <1>9. ASSUME NEW gw \in Gateway, NEW g \in Gen, Attempted(gw, g) PROVE TypeOK'
    <2>1. RowOK'
      BY <1>0, <1>9 DEF Attempted, RowOK, JobType
    <2> QED
      BY <1>9, <2>1 DEF Attempted, TypeOK, RowOK
  <1>10. ASSUME NEW gw \in Gateway, NEW g \in Gen, Result(gw, g) PROVE TypeOK'
    <2>1. PICK outcome \in TERMINAL, notSent \in BOOLEAN : Complete(g, outcome, notSent)
      BY <1>10 DEF Result, TERMINAL
    <2>2. RowOK' /\ AttemptsOK'
      BY <2>1, CompleteTyped
    <2> QED
      BY <1>10, <2>2 DEF Result, TypeOK, RowOK, AttemptsOK, Outcomes
  <1>11. CASE SweepActive
    <2>1. job.gen \in Gen
      BY <1>11 DEF SweepActive, ActiveInv
    <2>2. CASE Requeue(job.gen)
      <3>1. PICK outcome \in Outcomes : attempts' = [attempts EXCEPT ![job.gen].outcome = outcome]
        BY <2>2 DEF Requeue, Outcomes
      <3>2. AttemptsOK'
        BY <1>0, <2>1, <3>1, OutcomeTyped
      <3>3. RowOK'
        BY <1>0, <2>2 DEF Requeue, RowOK, JobType
      <3>4. route' \in [Route -> {None, "queued", "sending", "delivered", "failed", "expired"}]
        BY <2>2 DEF Requeue, TypeOK
      <3> QED
        BY <1>11, <3>2, <3>3, <3>4 DEF SweepActive, TypeOK, RowOK, AttemptsOK, Outcomes
    <2>3. CASE Complete(job.gen, "uncertain", FALSE) /\ UNCHANGED route
      <3>1. RowOK' /\ AttemptsOK'
        BY <2>1, <2>3, CompleteTyped DEF TERMINAL
      <3> QED
        BY <1>11, <2>3, <3>1 DEF SweepActive, TypeOK, RowOK, AttemptsOK, Outcomes
    <2> QED
      BY <1>11, <2>2, <2>3 DEF SweepActive
  <1>12. CASE SweepQueued
    <2>1. RowOK'
      BY <1>0, <1>12 DEF SweepQueued, RowOK, JobType, TERMINAL
    <2> QED
      BY <1>12, <2>1 DEF SweepQueued, TypeOK, RowOK
  <1>13. CASE LeaseEnds \/ ReceiptDue \/ QueueExpires \/ UNCHANGED vars
    BY <1>13 DEF LeaseEnds, ReceiptDue, QueueExpires, vars, TypeOK
  <1> QED
    BY <1>1, <1>2, <1>3, <1>4, <1>5, <1>6, <1>7, <1>8, <1>9, <1>10, <1>11, <1>12, <1>13
    DEF Next, DriveStep, Event

-----------------------------------------------------------------------------
(* What the steps have in common. *)

OthersInv == DriveInv /\ ActiveInv /\ RowInv /\ ConnInv /\ RouteInv /\ PhoneInv /\ MayInv /\ SendsInv

\* What the invariants say of the row.
SameRow ==
    /\ job'.status = job.status /\ job'.gen = job.gen /\ job'.provider = job.provider
    /\ job'.gateway = job.gateway /\ job'.conn = job.conn /\ job'.protocol = job.protocol
    /\ job'.may = job.may

SendStates == {"queued"} \cup ON_WIRE

\* No message is new, none is queued again, and one on the wire stays there.
RoutesMove ==
    \A r \in Route :
        /\ route'[r] # None => route[r] # None
        /\ route'[r] \in SendStates => route[r] \in SendStates
        /\ route[r] \in ON_WIRE => route'[r] \in ON_WIRE

\* A send order or grant stays with the phone while its messages stay on the wire.
LEMMA WireStays ==
    ASSUME \A r \in Route : route[r] \in ON_WIRE => route'[r] \in ON_WIRE
    PROVE  \A kind \in {"send", "commit"}, gw \in Gateway, g \in Gen :
              OnTheWire(kind, gw, g) => OnTheWire(kind, gw, g)'
  <1> SUFFICES ASSUME NEW kind \in {"send", "commit"}, NEW gw \in Gateway, NEW g \in Gen,
                      OnTheWire(kind, gw, g)
               PROVE  OnTheWire(kind, gw, g)'
    OBVIOUS
  <1>1. PICK n \in 1 .. MaxConn : route[<<kind, g, <<gw, n>>>>] \in ON_WIRE
    BY DEF OnTheWire, ON_WIRE
  <1>2. route'[<<kind, g, <<gw, n>>>>] \in ON_WIRE
    BY <1>1, RouteMade
  <1> QED
    BY <1>2 DEF OnTheWire, ON_WIRE

\* A transport that only moves on lets nobody send who could not before.
LEMMA MayShrinks ==
    ASSUME RoutesMove, UNCHANGED phone
    PROVE  \A gw \in Gateway, g \in Gen : MaySend(gw, g)' => MaySend(gw, g)
  <1> SUFFICES ASSUME NEW gw \in Gateway, NEW g \in Gen, MaySend(gw, g)'
               PROVE  MaySend(gw, g)
    OBVIOUS
  <1>1. CASE phone'[gw][g] \in HANDED
    BY <1>1 DEF MaySend, HANDED
  <1>2. CASE phone'[gw][g] \notin HANDED
    <2>1. PICK kind \in {"send", "commit"}, n \in 1 .. MaxConn :
            route'[<<kind, g, <<gw, n>>>>] \in SendStates /\ phone'[gw][g] \in {None, "received"}
      BY <1>2 DEF MaySend, HANDED, SendStates, ON_WIRE
    <2>2. route[<<kind, g, <<gw, n>>>>] \in SendStates
      BY <2>1, RouteMade DEF RoutesMove
    <2> QED
      BY <2>1, <2>2 DEF MaySend, SendStates, ON_WIRE
  <1> QED
    BY <1>1, <1>2

\* A job that waits or has failed: nothing was sent and nothing can be sent.
LEMMA Quiet ==
    ASSUME DriveInv, MayInv, SendsInv, job.status \notin {"dispatched", "acknowledged", "sent", "uncertain"}
    PROVE  /\ sends = 0
           /\ \A gw \in Gateway, g \in Gen : ~MaySend(gw, g)
           /\ \A gw \in Gateway, g \in Gen : phone[gw][g] \notin HANDED
           /\ \A g \in Gen : drive[g] \notin EUS_PLACES
  <1>1. \A gw \in Gateway, g \in Gen : ~MaySend(gw, g)
    BY DEF MayInv
  <1>2. \A gw \in Gateway, g \in Gen : phone[gw][g] \notin HANDED
    BY <1>1 DEF MaySend, HANDED
  <1>3. \A g \in Gen : drive[g] \notin EUS_PLACES
    BY DEF DriveInv
  <1>4. sends = 0
    BY <1>2 DEF SendsInv, HANDED
  <1> QED
    BY <1>1, <1>2, <1>3, <1>4

\* Deadlines, connections and the transport.
LEMMA LinkStep ==
    ASSUME OthersInv, SameRow, RoutesMove, ConnInv', UNCHANGED <<drive, phone, sends>>
    PROVE  OthersInv'
  <1> USE DEF OthersInv, SameRow
  <1>1. DriveInv' /\ ActiveInv' /\ RowInv'
    BY DEF DriveInv, ActiveInv, RowInv, Reachable
  <1>2. RouteInv'
    BY DEF RouteInv, RoutesMove, Reachable
  <1>3. PhoneInv'
    BY WireStays DEF PhoneInv, RoutesMove
  <1>4. MayInv'
    BY MayShrinks DEF MayInv, Cur
  <1>5. SendsInv'
    BY DEF SendsInv, Cur
  <1> QED
    BY <1>1, <1>2, <1>3, <1>4, <1>5

\* Connections that go away leave the numbering intact (presence, gateway_transport).
LEMMA ConnKept ==
    ASSUME ConnInv, SameRow, UNCHANGED connects,
           \A gw \in Gateway : conn'[gw] = conn[gw] \/ conn'[gw] = NoConn
    PROVE  ConnInv'
  BY DEF ConnInv, SameRow, Reachable

\* Deadlines that are reached change no claim and no message.
LEMMA TimePasses ==
    ASSUME TypeOK, OthersInv,
           \/ LeaseEnds \/ ReceiptDue \/ QueueExpires \/ UNCHANGED vars
           \/ \E gw \in Gateway, g \in Gen : Attempted(gw, g)
    PROVE  OthersInv'
  <1>1. UNCHANGED <<route, drive, conn, connects, phone, sends>>
    BY DEF LeaseEnds, ReceiptDue, QueueExpires, Attempted, vars, linkVars
  <1>2. SameRow
    <2>1. CASE \E gw \in Gateway, g \in Gen : Attempted(gw, g)
      <3>1. job' = [job EXCEPT !.attempted = TRUE] /\ job \in JobType
        BY <2>1, RowFacts DEF Attempted
      <3> QED
        BY <3>1 DEF SameRow, JobType
    <2>2. CASE UNCHANGED job
      BY <2>2 DEF SameRow
    <2> QED
      BY <2>1, <2>2 DEF LeaseEnds, ReceiptDue, QueueExpires, vars, rowVars
  <1>3. RoutesMove /\ ConnInv'
    BY <1>1, <1>2, ConnKept DEF RoutesMove, OthersInv
  <1> QED
    BY <1>1, <1>2, <1>3, LinkStep

\* The transport queue delivers, loses or expires a message (gateway_transport).
LEMMA TransportStep ==
    ASSUME TypeOK, OthersInv, NEW r \in Route, Transport(r)
    PROVE  OthersInv'
  <1>1. UNCHANGED <<job, drive, connects, phone, sends>>
    BY DEF Transport, PickUp, Expire, WriteDone, rowVars, linkVars
  <1>2. SameRow
    BY <1>1 DEF SameRow
  <1>3. RoutesMove
    <2>1. \/ route[r] = "queued" /\ route' = [route EXCEPT ![r] = "sending"]
          \/ route[r] = "queued" /\ route' = [route EXCEPT ![r] = "expired"]
          \/ route[r] = "sending" /\ route' = [route EXCEPT ![r] = "delivered"]
          \/ route[r] = "sending" /\ route' = [route EXCEPT ![r] = "failed"]
      BY DEF Transport, PickUp, Expire, WriteDone
    <2> QED
      BY <2>1 DEF RoutesMove, SendStates, ON_WIRE, TypeOK, None
  <1>4. \A gw \in Gateway : conn'[gw] = conn[gw] \/ conn'[gw] = NoConn
    <2>1. conn' = conn \/ conn' = [conn EXCEPT ![r[3][1]] = IF @ = r[3] THEN NoConn ELSE @]
      BY DEF Transport, PickUp, Expire, WriteDone, linkVars
    <2> QED
      BY <2>1, RouteParts DEF TypeOK
  <1>5. ConnInv'
    BY <1>1, <1>2, <1>4, ConnKept DEF OthersInv
  <1> QED
    BY <1>1, <1>2, <1>3, <1>5, LinkStep

\* Gateways connect, drop and reconnect; a new connection has a new number.
LEMMA ConnectionStep ==
    ASSUME TypeOK, OthersInv, NEW gw \in Gateway, Link(gw)
    PROVE  OthersInv'
  <1>1. UNCHANGED <<job, route, drive, phone, sends>>
    BY DEF Link, Connect, Disconnect, Hello, rowVars
  <1>2. SameRow /\ RoutesMove
    BY <1>1 DEF SameRow, RoutesMove
  <1>3. ConnInv'
    <2>1. CASE Connect(gw)
      <3>1. /\ connects' = [connects EXCEPT ![gw] = connects[gw] + 1]
            /\ conn' = [conn EXCEPT ![gw] = <<gw, connects[gw] + 1>>]
            /\ connects[gw] \in Nat /\ connects[gw] + 1 \in 1 .. MaxConn
        BY <2>1, RowFacts DEF Connect, TypeOK
      <3>2. \A h \in Gateway : conn'[h] # NoConn =>
               connects'[h] \in 1 .. MaxConn /\ conn'[h] = <<h, connects'[h]>>
        BY <3>1 DEF OthersInv, ConnInv, TypeOK
      <3>3. \A h \in Gateway : connects[h] <= connects'[h] /\ connects[h] \in Nat /\ connects'[h] \in Nat
        BY <3>1 DEF TypeOK
      <3>4. Reachable /\ job.provider = "gateway" =>
              /\ job.gateway \in Gateway
              /\ \E n \in 1 .. connects'[job.gateway] : job.conn = <<job.gateway, n>>
        <4> SUFFICES ASSUME Reachable, job.provider = "gateway"
                     PROVE  /\ job.gateway \in Gateway
                            /\ \E n \in 1 .. connects'[job.gateway] : job.conn = <<job.gateway, n>>
          OBVIOUS
        <4>1. PICK n \in 1 .. connects[job.gateway] : job.gateway \in Gateway /\ job.conn = <<job.gateway, n>>
          BY DEF OthersInv, ConnInv
        <4>2. n \in 1 .. connects'[job.gateway]
          BY <3>3, <4>1
        <4> QED
          BY <4>1, <4>2
      <3> QED
        BY <1>1, <3>2, <3>4 DEF ConnInv, Reachable
    <2>2. CASE Disconnect(gw) \/ Hello(gw)
      <3>1. UNCHANGED connects /\ \A h \in Gateway : conn'[h] = conn[h] \/ conn'[h] = NoConn
        BY <2>2 DEF Disconnect, Hello, TypeOK
      <3> QED
        BY <1>2, <3>1, ConnKept DEF OthersInv
    <2> QED
      BY <2>1, <2>2 DEF Link
  <1> QED
    BY <1>1, <1>2, <1>3, LinkStep

-----------------------------------------------------------------------------
(* The drive at EUS and the phones. *)

\* A drive at EUS checks its claim, calls the provider and ends.
LEMMA DriveMoves ==
    ASSUME TypeOK, OthersInv, NEW g \in Gen, DriveEnds(g) \/ CheckEus(g) \/ CallEus(g)
    PROVE  OthersInv'
  <1> USE DEF OthersInv
  <1>1. UNCHANGED <<job, route, conn, connects, phone>>
    BY DEF DriveEnds, CheckEus, CallEus, rowVars, linkVars
  <1>2. ActiveInv' /\ RowInv' /\ ConnInv' /\ RouteInv' /\ PhoneInv'
    <2>1. ActiveInv' /\ RowInv' /\ ConnInv'
      BY <1>1 DEF ActiveInv, RowInv, ConnInv, Reachable
    <2>2. RouteInv'
      BY <1>1, Zenon DEF RouteInv, Reachable
    <2>3. PhoneInv'
      BY <1>1 DEF PhoneInv, OnTheWire
    <2> QED
      BY <2>1, <2>2, <2>3
  <1>3. MayInv'
    BY <1>1 DEF MayInv, MaySend, Cur
  <1>4. PICK to \in {None} \cup EUS_PLACES : drive' = [drive EXCEPT ![g] = to]
    BY DEF DriveEnds, CheckEus, CallEus, EUS_PLACES
  <1>5. to # None => drive[g] \in {"eus", "calling"}
    BY <1>4 DEF DriveEnds, CheckEus, CallEus, TypeOK
  <1>6. DriveInv'
    <2>1. \A h \in Gen : drive'[h] \in EUS_PLACES => drive[h] \in EUS_PLACES
      BY <1>4, <1>5 DEF EUS_PLACES, TypeOK, None
    <2> QED
      BY <1>1, <2>1 DEF DriveInv
  <1>7. SendsInv'
    <2>1. CASE DriveEnds(g)
      BY <1>1, <2>1 DEF DriveEnds, SendsInv, Cur, TypeOK, None
    <2>2. CASE CheckEus(g) \/ CallEus(g)
      <3>1. /\ drive[g] \in {"eus", "calling"} /\ job.gen = g /\ job.provider = "eus"
            /\ job.status \in {"dispatched", "uncertain"}
        BY <2>2 DEF CheckEus, CallEus, DriveInv, EUS_PLACES
      <3>2. sends = 0
        BY <3>1 DEF SendsInv, Cur
      <3>3. \A h \in Gen \ {g} : drive'[h] = drive[h] /\ drive[h] # "accepted"
        BY <1>4, <3>2 DEF SendsInv, TypeOK
      <3>4. \A gw \in Gateway, h \in Gen : phone[gw][h] # "accepted"
        BY <3>2 DEF SendsInv
      <3>5. CASE CheckEus(g)
        BY <1>1, <3>1, <3>2, <3>3, <3>4, <3>5 DEF CheckEus, SendsInv, TypeOK
      <3>6. CASE CallEus(g)
        <4>1. /\ drive'[g] \in {"accepted", "refused", "unclear"} /\ sends' \in {0, 1}
              /\ drive'[g] = "accepted" => sends' = 1
              /\ drive'[g] = "refused" => sends' = 0
          BY <3>2, <3>6 DEF CallEus, TypeOK
        <4> QED
          BY <1>1, <3>1, <3>3, <3>4, <4>1 DEF SendsInv
      <3> QED
        BY <2>2, <3>5, <3>6
    <2> QED
      BY <2>1, <2>2
  <1> QED
    BY <1>2, <1>3, <1>6, <1>7

\* A phone that receives, refuses or drops the message.
LEMMA PhoneWaits ==
    ASSUME TypeOK, OthersInv, NEW gw \in Gateway, NEW g \in Gen,
           PhoneReceives(gw, g) \/ PhoneRejects(gw, g) \/ Abandon(gw, g)
    PROVE  OthersInv'
  <1> USE DEF OthersInv
  <1>1. UNCHANGED <<job, route, drive, conn, connects, sends>>
    BY DEF PhoneReceives, PhoneRejects, Abandon, PhoneStep, rowVars, linkVars
  <1>2. PICK to \in {"received", "rejected", "dropped"} :
          /\ phone[gw][g] \in {None, "received"} /\ phone' = [phone EXCEPT ![gw][g] = to]
    BY DEF PhoneReceives, PhoneRejects, Abandon, PhoneStep
  <1>3. \A h \in Gateway, k \in Gen :
          /\ phone'[h][k] = phone[h][k] \/ (h = gw /\ k = g /\ phone'[h][k] = to)
          /\ phone'[h][k] \in HANDED <=> phone[h][k] \in HANDED
          /\ phone'[h][k] \in {"accepted", "unclear"} <=> phone[h][k] \in {"accepted", "unclear"}
          /\ phone'[h][k] = "accepted" <=> phone[h][k] = "accepted"
          /\ phone'[h][k] \in {None, "received"} => phone[h][k] \in {None, "received"}
    BY <1>2 DEF TypeOK, HANDED, None
  <1>4. DriveInv' /\ ActiveInv' /\ RowInv' /\ ConnInv'
    BY <1>1 DEF DriveInv, ActiveInv, RowInv, ConnInv, Reachable
  <1>5. RouteInv'
    BY <1>1 DEF RouteInv, Reachable
  <1>6. PhoneInv'
    BY <1>1, <1>3 DEF PhoneInv, OnTheWire
  <1>7. MayInv'
    <2>1. \A h \in Gateway, k \in Gen : MaySend(h, k)' => MaySend(h, k)
      BY <1>1, <1>3 DEF MaySend, HANDED
    <2> QED
      BY <1>1, <2>1 DEF MayInv, Cur
  <1>8. SendsInv'
    BY <1>1, <1>3 DEF SendsInv, Cur
  <1> QED
    BY <1>4, <1>5, <1>6, <1>7, <1>8

\* A phone that starts the send, or has it done.
LEMMA PhoneActs ==
    ASSUME TypeOK, OthersInv, NEW gw \in Gateway, NEW g \in Gen,
           PhoneCommits(gw, g) \/ PhoneLegacy(gw, g) \/ PhoneSends(gw, g)
    PROVE  /\ OthersInv'
           /\ Cur(gw, g) /\ job.status \in {"dispatched", "acknowledged", "uncertain"}
           /\ phone[gw][g] = "intent" => sends = 0
           /\ phone[gw][g] # "intent" => sends' = sends
  <1> USE DEF OthersInv
  <1>1. UNCHANGED <<job, route, drive, conn, connects>>
    BY DEF PhoneCommits, PhoneLegacy, PhoneSends, PhoneStep, rowVars, linkVars
  <1>2. PICK to \in HANDED :
          /\ phone' = [phone EXCEPT ![gw][g] = to]
          /\ \/ phone[gw][g] \in {None, "received"} /\ to = "intent" /\ sends' = sends
                /\ \E kind \in {"send", "commit"} : OnTheWire(kind, gw, g)
             \/ phone[gw][g] = "intent" /\ to = "accepted" /\ sends' = sends + 1
             \/ phone[gw][g] = "intent" /\ to = "unclear" /\ sends' \in {sends, sends + 1}
    BY DEF PhoneCommits, PhoneLegacy, PhoneSends, PhoneStep, HANDED
  <1>3. MaySend(gw, g)
    <2>1. CASE phone[gw][g] = "intent"
      BY <2>1 DEF MaySend
    <2>2. CASE phone[gw][g] \in {None, "received"} /\ \E kind \in {"send", "commit"} : OnTheWire(kind, gw, g)
      BY <2>2 DEF MaySend, OnTheWire
    <2> QED
      BY <1>2, <2>1, <2>2
  <1>4. Cur(gw, g) /\ job.status \in {"dispatched", "acknowledged", "sent", "uncertain"}
    BY <1>3 DEF MayInv
  <1>5. phone[gw][g] \notin {"accepted", "unclear"}
    BY <1>2 DEF None
  <1>6. sends = 0
    <2>1. job.provider # "eus"
      BY <1>4 DEF Cur
    <2>2. ~\E h \in Gateway, k \in Gen : Cur(h, k) /\ phone[h][k] \in {"accepted", "unclear"}
      BY <1>4, <1>5 DEF Cur
    <2> QED
      BY <2>1, <2>2 DEF SendsInv
  <1>7. job.status # "sent"
    BY <1>6 DEF SendsInv
  <1>8. \A h \in Gateway, k \in Gen :
          /\ phone'[h][k] = phone[h][k] \/ (h = gw /\ k = g)
          /\ phone'[gw][g] = to
    BY <1>2 DEF TypeOK
  <1>9. DriveInv' /\ ActiveInv' /\ RowInv' /\ ConnInv'
    BY <1>1 DEF DriveInv, ActiveInv, RowInv, ConnInv, Reachable
  <1>10. RouteInv'
    BY <1>1 DEF RouteInv, Reachable
  <1>11. PhoneInv'
    <2>1. \E kind \in {"send", "commit"} : OnTheWire(kind, gw, g)
      BY <1>2 DEF PhoneInv, HANDED
    <2> QED
      BY <1>1, <1>8, <2>1 DEF PhoneInv, OnTheWire
  <1>12. MayInv'
    <2>1. \A h \in Gateway, k \in Gen : MaySend(h, k)' => MaySend(h, k) \/ (h = gw /\ k = g)
      BY <1>1, <1>8 DEF MaySend
    <2> QED
      BY <1>1, <1>4, <2>1 DEF MayInv, Cur
  <1>13. SendsInv'
    <2>1. sends' \in {0, 1} /\ (to = "accepted" => sends' = 1) /\ (sends' = 1 => to \in {"accepted", "unclear"})
      BY <1>2, <1>6
    <2>2. \A h \in Gateway, k \in Gen : phone'[h][k] = "accepted" => sends' = 1
      BY <1>6, <1>8, <2>1 DEF SendsInv
    <2>3. \A k \in Gen : drive'[k] # "accepted"
      BY <1>1, <1>6 DEF SendsInv
    <2> QED
      BY <1>1, <1>4, <1>7, <1>8, <2>1, <2>2, <2>3 DEF SendsInv, Cur
  <1> QED
    BY <1>2, <1>4, <1>6, <1>7, <1>9, <1>10, <1>11, <1>12, <1>13

-----------------------------------------------------------------------------
(* The job waits: claim, put back, expire. *)

\* A row that nobody may send for satisfies what concerns senders.
LEMMA QuietAfter ==
    ASSUME \A gw \in Gateway, g \in Gen : ~MaySend(gw, g)', \A g \in Gen : drive'[g] \notin EUS_PLACES,
           sends' = 0, job'.status # "sent"
    PROVE  DriveInv' /\ PhoneInv' /\ MayInv' /\ SendsInv'
  <1>1. \A gw \in Gateway, g \in Gen : phone'[gw][g] \notin HANDED
    BY DEF MaySend, HANDED
  <1>2. DriveInv' /\ PhoneInv' /\ MayInv'
    BY <1>1 DEF DriveInv, PhoneInv, MayInv
  <1>3. SendsInv'
    BY <1>1 DEF SendsInv, HANDED, EUS_PLACES
  <1> QED
    BY <1>2, <1>3

\* The rows of the transport when the job is not with a provider.
LEMMA RoutesWait ==
    ASSUME RouteInv, RoutesMove, job'.gen = job.gen, job'.status \notin ACTIVE
    PROVE  RouteInv'
  BY DEF RouteInv, RoutesMove, Reachable, ACTIVE

\* The row of a job that is with nobody says nothing.
LEMMA RowWaits ==
    ASSUME ConnInv, job'.status \notin ACTIVE, UNCHANGED <<conn, connects>>
    PROVE  ActiveInv' /\ RowInv' /\ ConnInv'
  BY DEF ActiveInv, RowInv, ConnInv, Reachable, ACTIVE

\* _claim_job(): the new generation has no messages and no drive yet.
LEMMA ClaimStep ==
    ASSUME TypeOK, OthersInv, Claim
    PROVE  OthersInv'
  <1> USE DEF OthersInv
  <1>1. /\ job.status = "queued" /\ job'.status = "claimed" /\ job'.gen = job.gen + 1
        /\ job'.provider = None /\ job.gen + 1 \in Gen
    BY RowFacts DEF Claim, JobType, Gen
  <1>2. UNCHANGED <<route, conn, connects, phone, sends>>
    BY DEF Claim, linkVars
  <1>3. /\ sends = 0 /\ \A gw \in Gateway, g \in Gen : ~MaySend(gw, g)
        /\ \A g \in Gen : drive[g] \notin EUS_PLACES
    BY <1>1, Quiet
  <1>4. \A gw \in Gateway, g \in Gen : ~MaySend(gw, g)'
    BY <1>2, <1>3 DEF MaySend
  <1>5. \A g \in Gen : drive'[g] \notin EUS_PLACES
    BY <1>1, <1>3 DEF Claim, TypeOK, EUS_PLACES
  <1>6. DriveInv' /\ PhoneInv' /\ MayInv' /\ SendsInv'
    BY <1>1, <1>2, <1>3, <1>4, <1>5, QuietAfter
  <1>7. ActiveInv' /\ RowInv' /\ ConnInv'
    BY <1>1, <1>2 DEF ActiveInv, RowInv, ConnInv, Reachable
  <1>8. RouteInv'
    <2>1. \A r \in Route : route[r] # None => r[2] < job.gen + 1
      BY RouteParts, RowFacts DEF RouteInv, Gen
    <2>2. \A r \in Route : route'[r] # None => r[2] <= job'.gen /\ r[2] # job'.gen
      BY <1>1, <1>2, <2>1, RouteParts, RowFacts DEF Gen
    <2> QED
      BY <1>1, <1>2, <2>2 DEF RouteInv, Reachable
  <1> QED
    BY <1>6, <1>7, <1>8

\* The claim returns to the queue, or the queue is over.
LEMMA WaitStep ==
    ASSUME TypeOK, OthersInv, NEW g \in Gen, \/ job.status = "claimed" /\ PutBack(g)
                                             \/ SweepQueued
    PROVE  OthersInv'
  <1> USE DEF OthersInv
  <1>1. job.status \in {"queued", "claimed"} /\ job'.status \in {"queued", "failed"} /\ job'.gen = job.gen
    BY RowFacts DEF PutBack, SweepQueued, JobType
  <1>2. UNCHANGED <<route, conn, connects, phone, sends>>
    BY DEF PutBack, SweepQueued, linkVars
  <1>3. /\ sends = 0 /\ \A gw \in Gateway, h \in Gen : ~MaySend(gw, h)
        /\ \A h \in Gen : drive[h] \notin EUS_PLACES
    BY <1>1, Quiet
  <1>4. \A gw \in Gateway, h \in Gen : ~MaySend(gw, h)'
    BY <1>2, <1>3 DEF MaySend
  <1>5. \A h \in Gen : drive'[h] \notin EUS_PLACES
    BY <1>3 DEF PutBack, SweepQueued, TypeOK, EUS_PLACES, None
  <1>6. DriveInv' /\ PhoneInv' /\ MayInv' /\ SendsInv'
    BY <1>1, <1>2, <1>3, <1>4, <1>5, QuietAfter
  <1>7. ActiveInv' /\ RowInv' /\ ConnInv' /\ RouteInv'
    BY <1>1, <1>2, RowWaits, RoutesWait DEF RoutesMove, ACTIVE
  <1> QED
    BY <1>6, <1>7

-----------------------------------------------------------------------------
(* The job goes to a provider. *)

\* _prepare() commits "possibly sent" before EUS is called.
LEMMA ToEusStep ==
    ASSUME TypeOK, OthersInv, NEW g \in Gen, HasToken(g), job.status = "claimed",
           NEW i, ToEus(g, i)
    PROVE  OthersInv'
  <1> USE DEF OthersInv
  <1>1. /\ job'.status = "dispatched" /\ job'.gen = g /\ job'.provider = "eus" /\ job'.may /\ job.gen = g
    BY RowFacts DEF ToEus, JobType, HasToken
  <1>2. UNCHANGED <<route, conn, connects, phone, sends>>
    BY DEF ToEus, linkVars
  <1>3. /\ sends = 0 /\ \A gw \in Gateway, h \in Gen : ~MaySend(gw, h)
        /\ \A gw \in Gateway, h \in Gen : phone[gw][h] \notin HANDED
        /\ \A h \in Gen : drive[h] \notin EUS_PLACES
    BY Quiet
  <1>4. drive'[g] = "eus" /\ \A h \in Gen \ {g} : drive'[h] \notin EUS_PLACES
    BY <1>3 DEF ToEus, TypeOK
  <1>5. DriveInv' /\ ActiveInv' /\ RowInv' /\ ConnInv'
    BY <1>1, <1>2, <1>4 DEF DriveInv, ActiveInv, RowInv, ConnInv, Reachable
  <1>6. RouteInv'
    BY <1>1, <1>2 DEF RouteInv, Reachable
  <1>7. PhoneInv' /\ MayInv'
    BY <1>2, <1>3 DEF PhoneInv, MayInv, MaySend
  <1>8. SendsInv'
    BY <1>1, <1>2, <1>3, <1>4 DEF SendsInv, EUS_PLACES, HANDED
  <1> QED
    BY <1>5, <1>6, <1>7, <1>8

\* _prepare() orders one phone, over its present connection, for a new generation.
LEMMA ToGatewayStep ==
    ASSUME TypeOK, OthersInv, NEW g \in Gen, HasToken(g), job.status = "claimed",
           NEW i, NEW gw \in Gateway, conn[gw] # NoConn, ToGateway(g, i, gw)
    PROVE  OthersInv'
  <1> USE DEF OthersInv
  <1> DEFINE kind == IF proto[gw] < 2 THEN "send" ELSE "prepare"
             new  == <<kind, g, <<gw, connects[gw]>>>>
  <1>1. /\ job'.status = "dispatched" /\ job'.gen = g /\ job'.provider = "gateway"
        /\ job'.gateway = gw /\ job'.conn = conn[gw] /\ job'.protocol = proto[gw] /\ job.gen = g
    BY RowFacts DEF ToGateway, JobType, HasToken
  <1>2. connects[gw] \in 1 .. MaxConn /\ conn[gw] = <<gw, connects[gw]>> /\ proto[gw] \in {1, 2}
    BY DEF ConnInv, TypeOK
  <1>3. UNCHANGED <<conn, connects, phone, sends>> /\ route' = [route EXCEPT ![new] = "queued"]
    BY <1>2 DEF ToGateway, linkVars
  <1>4. kind \in {"send", "prepare"} /\ (kind = "send" <=> proto[gw] = 1)
    BY <1>2
  <1>5. /\ new \in Route /\ new[1] = kind /\ new[2] = g /\ new[3] = <<gw, connects[gw]>>
    BY <1>2, <1>4, RouteMade
  <1> HIDE DEF kind
  <1>6. /\ sends = 0 /\ \A h \in Gateway, k \in Gen : ~MaySend(h, k)
        /\ \A h \in Gateway, k \in Gen : phone[h][k] \notin HANDED
        /\ \A h \in Gen : drive[h] \notin EUS_PLACES
    BY Quiet
  <1>7. \A r \in Route : route'[r] = IF r = new THEN "queued" ELSE route[r]
    BY <1>3, <1>5 DEF TypeOK
  <1>8. \A r \in Route : route[r] # None => r[2] <= g /\ r[2] # g
    BY <1>1 DEF RouteInv
  <1>9. DriveInv'
    BY <1>6 DEF DriveInv, ToGateway, TypeOK, EUS_PLACES, None
  <1>10. ActiveInv' /\ RowInv' /\ ConnInv'
    BY <1>1, <1>2, <1>3 DEF ActiveInv, RowInv, ConnInv, Reachable
  <1>11. RouteInv'
    <2>1. \A r \in Route : route'[r] # None => r[2] <= g /\ (r[2] = g => r = new)
      BY <1>5, <1>7, <1>8 DEF Gen
    <2>2. ASSUME NEW r \in Route, NEW q \in Route, route'[r] # None, route'[q] # None,
                 r[1] # "commit", q[1] # "commit", r[2] = q[2]
          PROVE  r = q
      <3>1. CASE r[2] = g
        BY <2>1, <2>2, <3>1
      <3>2. CASE r[2] # g
        BY <1>5, <1>7, <2>2, <3>2 DEF RouteInv
      <3> QED
        BY <3>1, <3>2
    <2>3. ASSUME NEW r \in Route, route'[r] # None, r[2] = g
          PROVE  (r[1] = "send" <=> job'.protocol = 1) /\ r[1] # "commit"
      BY <1>1, <1>4, <1>5, <2>1, <2>3
    <2> QED
      BY <1>1, <2>1, <2>2, <2>3 DEF RouteInv
  <1>12. PhoneInv'
    BY <1>3, <1>6 DEF PhoneInv
  <1>13. MayInv'
    <2>1. ASSUME NEW h \in Gateway, NEW k \in Gen, MaySend(h, k)' PROVE h = gw /\ k = g
      <3>1. PICK way \in {"send", "commit"}, n \in 1 .. MaxConn :
              /\ route'[<<way, k, <<h, n>>>>] \in SendStates
              /\ phone[h][k] \in {None, "received"}
        BY <1>3, <1>6, <2>1 DEF MaySend, HANDED, SendStates, ON_WIRE
      <3>2. route[<<way, k, <<h, n>>>>] \notin SendStates
        BY <1>6, <3>1 DEF MaySend, SendStates, ON_WIRE
      <3>3. <<way, k, <<h, n>>>> = new
        BY <1>7, <3>1, <3>2, RouteMade
      <3> QED
        BY <3>3
    <2> QED
      BY <1>1, <2>1 DEF MayInv, Cur
  <1>14. SendsInv'
    BY <1>1, <1>3, <1>6, <1>9 DEF SendsInv, HANDED, EUS_PLACES, DriveInv
  <1> QED
    BY <1>9, <1>10, <1>11, <1>12, <1>13, <1>14

\* _prepare() picks a provider, puts the row back or gives it up.
LEMMA PrepareStep ==
    ASSUME TypeOK, OthersInv, NEW g \in Gen, Prepare(g)
    PROVE  OthersInv'
  <1>1. HasToken(g) /\ job.status = "claimed"
    BY DEF Prepare
  <1>2. PICK eusOn \in BOOLEAN :
          \/ PutBack(g)
          \/ \E i \in Stops(eusOn) :
                ToEus(g, i) \/ \E gw \in Candidates(i, eusOn) : ToGateway(g, i, gw)
    BY DEF Prepare
  <1>3. CASE PutBack(g)
    BY <1>1, <1>3, WaitStep
  <1>4. ASSUME NEW i \in Stops(eusOn), ToEus(g, i) PROVE OthersInv'
    BY <1>1, <1>4, ToEusStep
  <1>5. ASSUME NEW i \in Stops(eusOn), NEW gw \in Candidates(i, eusOn), ToGateway(g, i, gw)
        PROVE  OthersInv'
    <2>1. gw \in Gateway /\ conn[gw] # NoConn
      BY DEF Candidates, Online, Excluded
    <2> QED
      BY <1>1, <1>5, <2>1, ToGatewayStep
  <1> QED
    BY <1>2, <1>3, <1>4, <1>5

-----------------------------------------------------------------------------
(* The job is decided, or sent back with a proof. *)

\* What _complete() does to the row: a result, the next provider, or failed.
LEMMA CompleteFacts ==
    ASSUME TypeOK, NEW g \in Gen, NEW outcome \in TERMINAL, NEW notSent \in BOOLEAN,
           Complete(g, outcome, notSent)
    PROVE  /\ job'.gen = job.gen
           /\ outcome # "failed" => /\ job'.status = outcome /\ job'.provider = job.provider
                                    /\ job'.gateway = job.gateway
           /\ outcome = "failed" => job'.status \in {"queued", "failed"}
  <1>1. CASE outcome = "failed" /\ notSent /\ job.index < Len(job.providers)
    BY <1>1, RowFacts DEF Complete, JobType
  <1>2. CASE ~(outcome = "failed" /\ notSent /\ job.index < Len(job.providers))
    BY <1>2, RowFacts DEF Complete, JobType
  <1> QED
    BY <1>1, <1>2

\* A result "sent" with proof, or "uncertain", keeps the invariants.
LEMMA DecideStep ==
    ASSUME OthersInv, NEW outcome \in {"sent", "uncertain"}, Reachable,
           job'.status = outcome, job'.gen = job.gen, job'.provider = job.provider,
           job'.gateway = job.gateway,
           UNCHANGED <<route, conn, connects, phone, sends>>,
           \A g \in Gen : drive'[g] = drive[g] \/ drive'[g] = None,
           outcome = "sent" => sends = 1 /\ \A g \in Gen : drive'[g] \notin EUS_PLACES
    PROVE  OthersInv'
  <1> USE DEF OthersInv
  <1>1. ActiveInv' /\ RowInv' /\ ConnInv' /\ RouteInv'
    BY RowWaits, RoutesWait DEF RoutesMove, ACTIVE
  <1>2. DriveInv'
    BY DEF DriveInv, EUS_PLACES, None
  <1>3. PhoneInv'
    BY DEF PhoneInv, OnTheWire
  <1>4. MayInv'
    BY DEF MayInv, MaySend, Cur
  <1>5. SendsInv'
    <2>1. \A g \in Gen : drive'[g] \in {"eus", "calling", "refused", "accepted"} => drive'[g] = drive[g]
      BY DEF None
    <2> QED
      BY <2>1 DEF SendsInv, Cur
  <1> QED
    BY <1>1, <1>2, <1>3, <1>4, <1>5

\* A row goes to the next provider, or fails, when nobody may send any more.
LEMMA BackStep ==
    ASSUME OthersInv, job'.status \in {"queued", "failed"}, job'.gen = job.gen,
           RoutesMove, UNCHANGED <<conn, connects, phone, sends>>, sends = 0,
           \A gw \in Gateway, g \in Gen : ~MaySend(gw, g)', \A g \in Gen : drive'[g] \notin EUS_PLACES
    PROVE  OthersInv'
  <1>1. DriveInv' /\ PhoneInv' /\ MayInv' /\ SendsInv'
    BY QuietAfter
  <1>2. ActiveInv' /\ RowInv' /\ ConnInv' /\ RouteInv'
    BY RowWaits, RoutesWait DEF OthersInv, ACTIVE
  <1> QED
    BY <1>1, <1>2 DEF OthersInv

\* The answer of EUS is recorded for the claim it belongs to.
LEMMA EusResultStep ==
    ASSUME TypeOK, OthersInv, NEW g \in Gen, EusResult(g)
    PROVE  OthersInv'
  <1>1. /\ UNCHANGED <<route, conn, connects, phone, sends>>
        /\ drive[g] \in {"accepted", "refused", "unclear"} /\ drive' = [drive EXCEPT ![g] = None]
    BY DEF EusResult, linkVars
  <1>2. job.gen = g /\ job.provider = "eus" /\ job.status \in {"dispatched", "uncertain"}
    BY <1>1 DEF OthersInv, DriveInv, EUS_PLACES
  <1>3. \A h \in Gen : drive'[h] = None \/ (drive'[h] = drive[h] /\ drive[h] \notin EUS_PLACES)
    BY <1>1, <1>2 DEF OthersInv, DriveInv, TypeOK
  <1>4. \A h \in Gen : drive'[h] \notin EUS_PLACES
    BY <1>3 DEF EUS_PLACES, None
  <1>5. CASE ~HasToken(g)
    <2>1. UNCHANGED job
      BY <1>5 DEF EusResult
    <2>2. SameRow /\ RoutesMove
      BY <1>1, <2>1 DEF SameRow, RoutesMove
    <2>3. DriveInv' /\ ActiveInv' /\ RowInv' /\ ConnInv'
      BY <1>1, <1>4, <2>1 DEF OthersInv, DriveInv, ActiveInv, RowInv, ConnInv, Reachable
    <2>4. RouteInv'
      BY <1>1, <2>1 DEF OthersInv, RouteInv, Reachable
    <2>5. PhoneInv' /\ MayInv'
      BY <1>1, <2>1, <2>2, WireStays, MayShrinks DEF OthersInv, PhoneInv, MayInv, Cur, RoutesMove
    <2>6. SendsInv'
      BY <1>1, <1>4, <2>1 DEF OthersInv, SendsInv, EUS_PLACES, Cur
    <2> QED
      BY <2>3, <2>4, <2>5, <2>6 DEF OthersInv
  <1>6. CASE HasToken(g)
    <2>1. Complete(g, EusOutcome(drive[g]), drive[g] = "refused") /\ Reachable
      BY <1>2, <1>6 DEF EusResult, HasToken, ACTIVE, Reachable
    <2>2. CASE drive[g] = "accepted"
      <3>1. Complete(g, "sent", FALSE) /\ sends = 1
        BY <2>1, <2>2 DEF EusOutcome, OthersInv, SendsInv
      <3>2. job'.gen = job.gen /\ job'.status = "sent" /\ job'.provider = job.provider /\ job'.gateway = job.gateway
        BY <3>1, CompleteFacts DEF TERMINAL
      <3> QED
        BY <1>1, <1>3, <1>4, <2>1, <3>1, <3>2, DecideStep
    <2>3. CASE drive[g] = "unclear"
      <3>1. Complete(g, "uncertain", FALSE)
        BY <2>1, <2>3 DEF EusOutcome
      <3>2. /\ job'.gen = job.gen /\ job'.status = "uncertain" /\ job'.provider = job.provider
            /\ job'.gateway = job.gateway
        BY <3>1, CompleteFacts DEF TERMINAL
      <3> QED
        BY <1>1, <1>3, <2>1, <3>2, DecideStep
    <2>4. CASE drive[g] = "refused"
      <3>1. Complete(g, "failed", TRUE)
        BY <2>1, <2>4 DEF EusOutcome
      <3>2. job'.gen = job.gen /\ job'.status \in {"queued", "failed"}
        BY <3>1, CompleteFacts DEF TERMINAL
      <3>3. \A gw \in Gateway, h \in Gen : ~MaySend(gw, h)'
        BY <1>1, <1>2 DEF OthersInv, MayInv, MaySend, Cur
      <3>4. sends = 0
        BY <1>2, <2>4 DEF OthersInv, SendsInv, Cur
      <3> QED
        BY <1>1, <1>4, <3>2, <3>3, <3>4, BackStep DEF RoutesMove
    <2> QED
      BY <1>1, <2>2, <2>3, <2>4
  <1> QED
    BY <1>5, <1>6

\* event(): the result of a phone is recorded for the claim it belongs to.
LEMMA ResultStep ==
    ASSUME TypeOK, OthersInv, NEW gw \in Gateway, NEW g \in Gen, Result(gw, g)
    PROVE  OthersInv'
  <1>1. /\ UNCHANGED <<route, drive, conn, connects, phone, sends>>
        /\ Cur(gw, g) /\ Reachable
    BY DEF Result, linkVars, Concerns, Cur
  <1>2. \A h \in Gen : drive[h] \notin EUS_PLACES
    BY <1>1 DEF OthersInv, DriveInv, Cur
  <1>3. PICK notSent \in BOOLEAN :
          \/ phone[gw][g] = "accepted" /\ Complete(g, "sent", notSent)
          \/ notSent /\ phone[gw][g] = "rejected" /\ Complete(g, "failed", notSent)
          \/ Complete(g, "uncertain", notSent)
    BY DEF Result
  <1>4. CASE phone[gw][g] = "accepted" /\ Complete(g, "sent", notSent)
    <2>1. job'.gen = job.gen /\ job'.status = "sent" /\ job'.provider = job.provider /\ job'.gateway = job.gateway
      BY <1>4, CompleteFacts DEF TERMINAL
    <2>2. sends = 1
      BY <1>4 DEF OthersInv, SendsInv
    <2> QED
      BY <1>1, <1>2, <2>1, <2>2, DecideStep
  <1>5. CASE Complete(g, "uncertain", notSent)
    <2>1. /\ job'.gen = job.gen /\ job'.status = "uncertain" /\ job'.provider = job.provider
          /\ job'.gateway = job.gateway
      BY <1>5, CompleteFacts DEF TERMINAL
    <2> QED
      BY <1>1, <2>1, DecideStep
  <1>6. CASE phone[gw][g] = "rejected" /\ Complete(g, "failed", notSent)
    <2>1. job'.gen = job.gen /\ job'.status \in {"queued", "failed"}
      BY <1>6, CompleteFacts DEF TERMINAL
    <2>2. ~MaySend(gw, g)
      BY <1>6 DEF MaySend, None
    <2>3. \A h \in Gateway, k \in Gen : ~MaySend(h, k)
      BY <1>1, <2>2 DEF OthersInv, MayInv, Cur
    <2>4. \A h \in Gateway, k \in Gen : ~MaySend(h, k)'
      BY <1>1, <2>3 DEF MaySend
    <2>5. \A h \in Gateway, k \in Gen : phone[h][k] \notin HANDED
      BY <2>3 DEF MaySend, HANDED
    <2>6. sends = 0
      BY <1>1, <2>5 DEF OthersInv, SendsInv, HANDED, Cur
    <2> QED
      BY <1>1, <1>2, <2>1, <2>4, <2>6, BackStep DEF RoutesMove
  <1> QED
    BY <1>3, <1>4, <1>5, <1>6

\* event(): a phone that acknowledges its order gets the one grant of the generation.
LEMMA AckStep ==
    ASSUME TypeOK, OthersInv, NEW gw \in Gateway, NEW g \in Gen, NEW reconcile \in BOOLEAN,
           Ack(gw, g, reconcile)
    PROVE  OthersInv'
  <1> USE DEF OthersInv
  <1>1. /\ UNCHANGED <<drive, conn, connects, phone, sends>>
        /\ Cur(gw, g) /\ Reachable
    BY DEF Ack, linkVars, Concerns, Cur
  <1>2. /\ job'.status = "acknowledged" /\ job'.gen = g /\ job'.provider = "gateway"
        /\ job'.gateway = gw /\ job'.protocol = job.protocol
    <2>1. job \in JobType /\ job.gen = g /\ job.provider = "gateway" /\ job.gateway = gw
      BY <1>1, RowFacts DEF Cur
    <2>2. \/ job' = [job EXCEPT !.status = "acknowledged", !.received = TRUE, !.may = TRUE,
                               !.conn = conn[gw]]
          \/ job' = [job EXCEPT !.status = "acknowledged", !.received = TRUE]
      BY DEF Ack
    <2> QED
      BY <2>1, <2>2 DEF JobType
  <1>3. \A h \in Gen : drive[h] \notin EUS_PLACES
    BY <1>1 DEF DriveInv, Cur
  <1>4. DriveInv' /\ ActiveInv' /\ RowInv'
    BY <1>1, <1>2, <1>3 DEF DriveInv, ActiveInv, RowInv, Reachable
  <1>5. SendsInv'
    BY <1>1, <1>2 DEF SendsInv, Cur
  <1>6. conn[gw] = <<gw, connects[gw]>> /\ connects[gw] \in 1 .. MaxConn
    BY DEF Ack, Concerns, ConnInv
  <1>7. PICK n \in 1 .. connects[gw] : job.conn = <<gw, n>>
    BY <1>1 DEF ConnInv, Cur
  <1>8. CASE ~Grants(gw, reconcile)
    <2>1. UNCHANGED route /\ job'.conn = job.conn
      BY <1>8, RowFacts DEF Ack, JobType
    <2>2. ConnInv'
      BY <1>1, <1>2, <1>7, <2>1 DEF ConnInv
    <2>3. RouteInv'
      BY <1>1, <1>2, <2>1 DEF RouteInv, Cur
    <2>4. PhoneInv'
      BY <1>1, <2>1 DEF PhoneInv, OnTheWire
    <2>5. MayInv'
      <3>1. RoutesMove
        BY <2>1 DEF RoutesMove
      <3>2. \A h \in Gateway, k \in Gen : MaySend(h, k)' => MaySend(h, k)
        BY <1>1, <3>1, MayShrinks
      <3>3. \A h \in Gateway, k \in Gen : MaySend(h, k) => h = gw /\ k = g
        BY <1>1 DEF MayInv, Cur
      <3> QED
        BY <1>2, <3>2, <3>3 DEF MayInv, Cur
    <2> QED
      BY <1>4, <1>5, <2>2, <2>3, <2>4, <2>5
  <1>9. CASE Grants(gw, reconcile)
    <2> DEFINE new == <<"commit", g, <<gw, connects[gw]>>>>
    <2>1. route' = [route EXCEPT ![new] = "queued"] /\ job'.conn = <<gw, connects[gw]>>
      BY <1>6, <1>9, RowFacts DEF Ack, JobType
    <2>2. new \in Route /\ new[1] = "commit" /\ new[2] = g /\ new[3][1] = gw /\ new[3][2] = connects[gw]
      BY <1>6, RouteMade
    <2>3. job.protocol = 2 /\ (job.status = "dispatched" \/ job.conn # conn[gw])
      BY <1>9, RowFacts DEF Grants, JobType
    <2>4. \A r \in Route : route[r] # None /\ r[2] = g /\ r[1] = "commit" /\ r[3][1] = gw =>
             job.status = "acknowledged" /\ r[3][2] <= n
      BY <1>1, <1>7 DEF RouteInv, Cur
    <2>5. route[new] = None
      <3>1. n # connects[gw] \/ job.status = "dispatched"
        BY <1>6, <1>7, <2>3
      <3> QED
        BY <1>6, <2>2, <2>4, <3>1
    <2> HIDE DEF new
    <2>6. \A r \in Route : route'[r] = IF r = new THEN "queued" ELSE route[r]
      BY <2>1, <2>2 DEF TypeOK
    <2>7. ConnInv'
      BY <1>1, <1>2, <1>6, <2>1 DEF ConnInv
    <2>8. RouteInv'
      <3>1. \A r \in Route : route'[r] # None => r[2] <= g
        BY <1>1, <2>2, <2>6 DEF RouteInv, Cur, Gen
      <3>2. \A r \in Route : route'[r] # None /\ r[1] # "commit" => route[r] # None
        BY <2>2, <2>6
      <3>3. \A r, q \in Route : route'[r] # None /\ route'[q] # None /\ r[1] # "commit" /\ q[1] # "commit"
                                   /\ r[2] = q[2] => r = q
        BY <3>2 DEF RouteInv
      <3>4. \A r \in Route : route'[r] # None /\ r[2] = g => r[1] # "send"
        BY <1>1, <2>2, <2>3, <2>6 DEF RouteInv, Cur
      <3>5. \A r \in Route : route'[r] # None /\ r[2] = g /\ r[1] = "commit" /\ r[3][1] = gw =>
               r[3][2] <= connects[gw]
        BY <1>6, <1>7, <2>2, <2>4, <2>6, RouteParts
      <3>6. job'.conn[2] = connects[gw]
        BY <2>1
      <3> QED
        BY <1>2, <2>3, <3>1, <3>3, <3>4, <3>5, <3>6 DEF RouteInv
    <2>9. PhoneInv'
      <3>1. \A r \in Route : route[r] \in ON_WIRE => route'[r] \in ON_WIRE
        BY <2>5, <2>6 DEF ON_WIRE, None
      <3> QED
        BY <1>1, <3>1, WireStays DEF PhoneInv
    <2>10. MayInv'
      <3>1. ASSUME NEW h \in Gateway, NEW k \in Gen, MaySend(h, k)' PROVE h = gw /\ k = g
        <4>1. CASE MaySend(h, k)
          BY <1>1, <4>1 DEF MayInv, Cur
        <4>2. CASE ~MaySend(h, k)
          <5>1. PICK way \in {"send", "commit"}, m \in 1 .. MaxConn :
                  /\ route'[<<way, k, <<h, m>>>>] \in SendStates
                  /\ route[<<way, k, <<h, m>>>>] \notin SendStates
            BY <1>1, <3>1, <4>2 DEF MaySend, SendStates, ON_WIRE
          <5>2. <<way, k, <<h, m>>>> = new
            BY <2>6, <5>1, RouteMade
          <5> QED
            BY <5>2 DEF new
        <4> QED
          BY <4>1, <4>2
      <3> QED
        BY <1>2, <3>1 DEF MayInv, Cur
    <2> QED
      BY <1>4, <1>5, <2>7, <2>8, <2>9, <2>10
  <1> QED
    BY <1>8, <1>9

\* What proves to the sweep that nothing was sent.
LEMMA RecallProof ==
    ASSUME TypeOK, OthersInv, job.status \in ACTIVE, Recallable(job.gen)
    PROVE  \/ job.status = "claimed" /\ job.provider # "gateway"
           \/ /\ Reachable /\ job.provider = "gateway" /\ job.protocol = 2
              /\ \A r \in Issued(Grant(job.gen)) : route[r] = "queued"
           \/ /\ Reachable /\ job.provider = "gateway" /\ job.protocol = 1
              /\ \E r \in Order(job.gen) : route[r] = "queued"
  <1>1. job.protocol \in {1, 2}
    BY DEF TypeOK, JobType
  <1>2. CASE job.status = "claimed"
    BY <1>2 DEF OthersInv, RowInv, None
  <1>3. CASE job.status # "claimed"
    <2>1. Reachable /\ job.provider \in {"gateway", "eus"}
      BY <1>3 DEF Reachable, ACTIVE, OthersInv, RowInv
    <2>2. CASE job.provider = "eus"
      <3>1. job.may /\ job.status # "claimed"
        BY <1>3, <2>1, <2>2 DEF OthersInv, RowInv
      <3> QED
        BY <2>2, <3>1 DEF Recallable
    <2>3. CASE job.provider = "gateway" /\ job.protocol = 2
      BY <2>1, <2>3 DEF Recallable
    <2>4. CASE job.provider = "gateway" /\ job.protocol = 1
      BY <2>1, <2>4 DEF Recallable
    <2> QED
      BY <1>1, <2>1, <2>2, <2>3, <2>4
  <1> QED
    BY <1>2, <1>3

\* sweep(): the recall expires what is still queued, so nobody may send.
LEMMA RequeueStep ==
    ASSUME TypeOK, OthersInv, job.status \in ACTIVE, Recallable(job.gen), Requeue(job.gen),
           UNCHANGED <<drive, conn, connects, phone, sends>>
    PROVE  OthersInv'
  <1>1. job'.status = "queued" /\ job'.gen = job.gen /\ job.gen \in Gen
    BY RowFacts DEF Requeue, JobType, OthersInv, ActiveInv
  <1>2. \A r \in Route : route'[r] = IF r \in Grant(job.gen) \cup Order(job.gen) /\ route[r] = "queued"
                                     THEN "expired" ELSE route[r]
    BY DEF Requeue
  <1>3. RoutesMove
    BY <1>2 DEF RoutesMove, SendStates, ON_WIRE, None
  \* A message that can start a send is still queued.
  <1>4. CASE Reachable /\ job.provider = "gateway"
    <2>1. ASSUME NEW gw \in Gateway, NEW g \in Gen, Cur(gw, g), NEW kind \in {"send", "commit"},
                 NEW n \in 1 .. MaxConn, route[<<kind, g, <<gw, n>>>>] # None
          PROVE  /\ route[<<kind, g, <<gw, n>>>>] = "queued"
                 /\ <<kind, g, <<gw, n>>>> \in Grant(job.gen) \cup Order(job.gen)
      <3> DEFINE r == <<kind, g, <<gw, n>>>>
      <3>1. r \in Route /\ r[1] = kind /\ r[2] = job.gen /\ r[3][1] = job.gateway /\ route[r] # None
        BY <2>1, RouteMade DEF Cur
      <3> HIDE DEF r
      <3>2. r \in Grant(job.gen) \cup Order(job.gen)
        BY <3>1 DEF Grant, Order
      <3>3. kind = "send" <=> job.protocol = 1
        BY <1>4, <3>1 DEF OthersInv, RouteInv
      <3>4. CASE job.protocol = 2 /\ \A q \in Issued(Grant(job.gen)) : route[q] = "queued"
        <4>1. r \in Issued(Grant(job.gen))
          BY <3>1, <3>3, <3>4 DEF Grant, Issued
        <4> QED
          BY <3>2, <3>4, <4>1 DEF r
      <3>5. CASE job.protocol = 1 /\ \E q \in Order(job.gen) : route[q] = "queued"
        <4>1. PICK q \in Order(job.gen) : route[q] = "queued"
          BY <3>5
        <4>2. q = r
          BY <3>1, <3>3, <3>5, <4>1 DEF OthersInv, RouteInv, Order, None
        <4> QED
          BY <3>2, <4>1, <4>2 DEF r
      <3> QED
        BY <1>4, <3>4, <3>5, RecallProof DEF Reachable
    <2>2. \A gw \in Gateway, g \in Gen : phone[gw][g] \notin HANDED
      <3>1. SUFFICES ASSUME NEW gw \in Gateway, NEW g \in Gen, phone[gw][g] \in HANDED PROVE FALSE
        OBVIOUS
      <3>2. MaySend(gw, g)
        BY <3>1 DEF MaySend, HANDED
      <3>3. Cur(gw, g)
        BY <3>2 DEF OthersInv, MayInv
      <3>4. PICK kind \in {"send", "commit"}, n \in 1 .. MaxConn : route[<<kind, g, <<gw, n>>>>] \in ON_WIRE
        BY <3>1 DEF OthersInv, PhoneInv, OnTheWire, ON_WIRE
      <3> QED
        BY <2>1, <3>3, <3>4 DEF ON_WIRE, None
    <2>3. \A gw \in Gateway, g \in Gen : ~MaySend(gw, g)'
      <3>1. SUFFICES ASSUME NEW gw \in Gateway, NEW g \in Gen, MaySend(gw, g)' PROVE FALSE
        OBVIOUS
      <3>2. MaySend(gw, g)
        BY <1>3, <3>1, MayShrinks
      <3>3. Cur(gw, g)
        BY <3>2 DEF OthersInv, MayInv
      <3>4. PICK kind \in {"send", "commit"}, n \in 1 .. MaxConn :
              route'[<<kind, g, <<gw, n>>>>] \in SendStates
        BY <2>2, <3>1 DEF MaySend, HANDED, SendStates, ON_WIRE
      <3>5. route[<<kind, g, <<gw, n>>>>] # None /\ <<kind, g, <<gw, n>>>> \in Route
        BY <1>3, <3>4, RouteMade DEF RoutesMove, SendStates, ON_WIRE, None
      <3>6. route'[<<kind, g, <<gw, n>>>>] = "expired"
        BY <1>2, <2>1, <3>3, <3>5
      <3> QED
        BY <3>4, <3>6 DEF SendStates, ON_WIRE
    <2>4. sends = 0
      BY <1>4, <2>2 DEF OthersInv, SendsInv, HANDED
    <2>5. \A g \in Gen : drive[g] \notin EUS_PLACES
      BY <1>4 DEF OthersInv, DriveInv
    <2> QED
      BY <1>1, <1>3, <2>3, <2>4, <2>5, BackStep
  <1>5. CASE job.status = "claimed"
    <2>1. /\ sends = 0 /\ \A g \in Gen : drive[g] \notin EUS_PLACES
          /\ \A gw \in Gateway, g \in Gen : ~MaySend(gw, g)
      BY <1>5, Quiet DEF OthersInv
    <2>2. \A gw \in Gateway, g \in Gen : ~MaySend(gw, g)'
      BY <1>3, <2>1, MayShrinks
    <2> QED
      BY <1>1, <1>3, <2>1, <2>2, BackStep
  <1> QED
    BY <1>4, <1>5, RecallProof

\* sweep() requeues what it can prove unsent and gives up on the rest.
LEMMA SweepStep ==
    ASSUME TypeOK, OthersInv, SweepActive
    PROVE  OthersInv'
  <1>1. job.status \in ACTIVE /\ job.gen \in Gen /\ UNCHANGED <<drive, conn, connects, phone, sends>>
    BY DEF SweepActive, linkVars, OthersInv, ActiveInv
  <1>2. CASE Recallable(job.gen) /\ Requeue(job.gen)
    BY <1>1, <1>2, RequeueStep
  <1>3. CASE ~Recallable(job.gen) /\ Complete(job.gen, "uncertain", FALSE) /\ UNCHANGED route
    <2>1. Reachable
      <3>1. job.status # "claimed"
        <4>1. job.status = "claimed" => job.provider = None /\ job.provider # "gateway"
          BY DEF OthersInv, RowInv, None
        <4> QED
          BY <1>3, <4>1 DEF Recallable
      <3> QED
        BY <1>1, <3>1 DEF Reachable, ACTIVE
    <2>2. /\ job'.gen = job.gen /\ job'.status = "uncertain" /\ job'.provider = job.provider
          /\ job'.gateway = job.gateway
      BY <1>1, <1>3, CompleteFacts DEF TERMINAL
    <2> QED
      BY <1>1, <1>3, <2>1, <2>2, DecideStep
  <1> QED
    BY <1>2, <1>3 DEF SweepActive

-----------------------------------------------------------------------------
(* The theorems. *)

\* The invariant holds of a fresh row.
LEMMA InitOthers == Init => OthersInv
  <1> SUFFICES ASSUME Init PROVE OthersInv
    OBVIOUS
  <1>1. /\ job.status = "queued" /\ job.gen = 0 /\ sends = 0
        /\ \A r \in Route : route[r] = None
        /\ \A gw \in Gateway : conn[gw] = NoConn
        /\ \A g \in Gen : drive[g] = None
        /\ \A gw \in Gateway, g \in Gen : phone[gw][g] = None
    BY DEF Init
  <1>2. DriveInv /\ ActiveInv /\ RowInv /\ ConnInv
    BY <1>1 DEF DriveInv, ActiveInv, RowInv, ConnInv, EUS_PLACES, ACTIVE, Reachable, None
  <1>3. RouteInv
    BY <1>1 DEF RouteInv, Reachable
  <1>4. \A gw \in Gateway, g \in Gen : phone[gw][g] \notin HANDED
    BY <1>1 DEF HANDED, None
  <1>5. PhoneInv
    BY <1>4 DEF PhoneInv
  <1>6. MayInv
    <2>1. \A kind \in {"send", "commit"}, gw \in Gateway, g \in Gen, n \in 1 .. MaxConn :
             route[<<kind, g, <<gw, n>>>>] = None
      BY <1>1, RouteMade
    <2>2. \A gw \in Gateway, g \in Gen : ~MaySend(gw, g)
      BY <1>4, <2>1 DEF MaySend, HANDED, None
    <2> QED
      BY <2>2 DEF MayInv
  <1>7. SendsInv
    BY <1>1, <1>4 DEF SendsInv, HANDED, None
  <1> QED
    BY <1>2, <1>3, <1>5, <1>6, <1>7 DEF OthersInv

SmsInv == TypeOK /\ OthersInv

\* The invariant of the outbox is inductive.
LEMMA SmsInvStep == SmsInv /\ [Next]_vars => SmsInv'
  <1> SUFFICES ASSUME SmsInv, [Next]_vars PROVE SmsInv'
    OBVIOUS
  <1>0. TypeOK /\ OthersInv /\ ActiveInv /\ TypeOK'
    BY Typed DEF SmsInv, OthersInv
  <1>1. CASE Claim
    BY <1>0, <1>1, ClaimStep DEF SmsInv
  <1>2. ASSUME NEW g \in Gen, DriveStep(g) PROVE OthersInv'
    BY <1>0, <1>2, PrepareStep, DriveMoves, EusResultStep DEF DriveStep
  <1>3. ASSUME NEW r \in Route, Transport(r) PROVE OthersInv'
    BY <1>0, <1>3, TransportStep
  <1>4. ASSUME NEW gw \in Gateway, Link(gw) PROVE OthersInv'
    BY <1>0, <1>4, ConnectionStep
  <1>5. ASSUME NEW gw \in Gateway, NEW g \in Gen, Phone(gw, g) PROVE OthersInv'
    BY <1>0, <1>5, PhoneWaits, PhoneActs DEF Phone
  <1>6. ASSUME NEW gw \in Gateway, NEW g \in Gen, Event(gw, g) PROVE OthersInv'
    BY <1>0, <1>6, AckStep, TimePasses, ResultStep, PhoneWaits DEF Event
  <1>7. CASE SweepActive
    BY <1>0, <1>7, SweepStep DEF SmsInv
  <1>8. CASE SweepQueued
    <2>1. 1 \in Gen
      BY SmsBoundAssumption DEF Gen
    <2> QED
      BY <1>0, <1>8, <2>1, WaitStep DEF SmsInv
  <1>9. CASE LeaseEnds \/ ReceiptDue \/ QueueExpires \/ UNCHANGED vars
    BY <1>0, <1>9, TimePasses DEF SmsInv
  <1> QED
    BY <1>0, <1>1, <1>2, <1>3, <1>4, <1>5, <1>6, <1>7, <1>8, <1>9 DEF Next, SmsInv

\* The invariant holds in every reachable state.
LEMMA SmsInvHolds == Spec => []SmsInv
  <1>1. Init => SmsInv
    BY InitTyped, InitOthers DEF SmsInv
  <1> QED
    BY <1>1, SmsInvStep, PTL DEF Spec

\* The row of sms_dispatch_job, the attempts, the transport queue and the connections
\* keep their types: _complete() never moves past the provider chain.
THEOREM SmsTypeCorrect == Spec => []TypeOK
  BY SmsInvHolds, PTL DEF SmsInv

\* A job that sweep() or _complete() puts back into the queue cannot be sent by an
\* earlier attempt any more, whatever its phones and drives still do.
THEOREM RequeueIsSafeHolds == Spec => []RequeueIsSafe
  <1>1. SmsInv => RequeueIsSafe
    BY Quiet DEF SmsInv, OthersInv, RequeueIsSafe, EUS_PLACES
  <1> QED
    BY <1>1, SmsInvHolds, PTL

\* At most one phone, for one generation, holds a grant at any time: event() and _prepare()
\* grant only for the current claim, and sweep() takes unsent grants back.
THEOREM OneGrantHolds == Spec => []OneGrant
  <1>1. ASSUME SmsInv PROVE OneGrant
    <2> DEFINE holders == {x \in Gateway \X Gen : MaySend(x[1], x[2])}
    <2>1. holders \subseteq {<<job.gateway, job.gen>>}
      BY <1>1 DEF SmsInv, OthersInv, MayInv, Cur
    <2>2. IsFiniteSet({<<job.gateway, job.gen>>}) /\ Cardinality({<<job.gateway, job.gen>>}) = 1
      BY FS_Singleton
    <2>3. Cardinality(holders) <= 1
      BY <2>1, <2>2, FS_Subset
    <2> QED
      BY <2>3 DEF OneGrant
  <1>2. SmsInv => OneGrant
    BY <1>1
  <1> QED
    BY <1>2, SmsInvHolds, PTL

\* A step leaves a decided status alone; the SMS leaves while the status stays.
LEMMA StatusOrSend ==
    ASSUME SmsInv, [Next]_vars
    PROVE  \/ job.status \notin TERMINAL /\ sends' = sends
           \/ job'.status = job.status /\ sends' = sends
           \/ /\ job'.status = job.status /\ sends = 0 /\ sends' = 1
              /\ job.status \in {"dispatched", "acknowledged", "uncertain"}
  <1> DEFINE Goal == \/ job.status \notin TERMINAL /\ sends' = sends
                     \/ job'.status = job.status /\ sends' = sends
                     \/ /\ job'.status = job.status /\ sends = 0 /\ sends' = 1
                        /\ job.status \in {"dispatched", "acknowledged", "uncertain"}
  <1>0. TypeOK /\ OthersInv
    BY DEF SmsInv
  <1>1. CASE \/ Claim \/ SweepActive \/ SweepQueued
             \/ \E g \in Gen : Prepare(g)
    BY <1>1 DEF Claim, SweepActive, SweepQueued, Prepare, PutBack, ToEus, ToGateway, HasToken, ACTIVE, TERMINAL
  <1>2. CASE \E g \in Gen : DriveEnds(g) \/ CheckEus(g)
    BY <1>2 DEF DriveEnds, CheckEus, rowVars
  <1>3. ASSUME NEW g \in Gen, CallEus(g) PROVE Goal
    <2>1. /\ UNCHANGED job /\ job.gen = g /\ job.provider = "eus" /\ drive[g] = "calling"
          /\ job.status \in {"dispatched", "uncertain"}
      BY <1>0, <1>3 DEF CallEus, rowVars, OthersInv, DriveInv, EUS_PLACES
    <2>2. sends = 0
      BY <1>0, <2>1 DEF OthersInv, SendsInv, Cur
    <2> QED
      BY <1>3, <2>1, <2>2 DEF CallEus
  <1>4. ASSUME NEW g \in Gen, EusResult(g) PROVE Goal
    BY <1>4 DEF EusResult, HasToken, ACTIVE, TERMINAL
  <1>5. CASE (\E r \in Route : Transport(r)) \/ \E gw \in Gateway : Link(gw)
    BY <1>5 DEF Transport, PickUp, Expire, WriteDone, Link, Connect, Disconnect, Hello, rowVars
  <1>6. ASSUME NEW gw \in Gateway, NEW g \in Gen,
               PhoneReceives(gw, g) \/ PhoneRejects(gw, g) \/ Abandon(gw, g)
        PROVE  Goal
    BY <1>6 DEF PhoneReceives, PhoneRejects, Abandon, PhoneStep, rowVars
  <1>7. ASSUME NEW gw \in Gateway, NEW g \in Gen,
               PhoneCommits(gw, g) \/ PhoneLegacy(gw, g) \/ PhoneSends(gw, g)
        PROVE  Goal
    <2>1. /\ job.status \in {"dispatched", "acknowledged", "uncertain"}
          /\ phone[gw][g] = "intent" => sends = 0
          /\ phone[gw][g] # "intent" => sends' = sends
      BY <1>0, <1>7, PhoneActs
    <2>2. UNCHANGED job /\ sends' \in {sends, sends + 1}
      BY <1>7 DEF PhoneCommits, PhoneLegacy, PhoneSends, PhoneStep, rowVars
    <2> QED
      BY <2>1, <2>2
  <1>8. ASSUME NEW gw \in Gateway, NEW g \in Gen,
               \/ \E reconcile \in BOOLEAN : Ack(gw, g, reconcile)
               \/ Attempted(gw, g) \/ Result(gw, g)
        PROVE  Goal
    BY <1>8 DEF Ack, Attempted, Result, Reachable, TERMINAL
  <1>9. CASE LeaseEnds \/ ReceiptDue \/ QueueExpires \/ UNCHANGED vars
    BY <1>9 DEF LeaseEnds, ReceiptDue, QueueExpires, vars, rowVars
  <1> QED
    BY <1>1, <1>2, <1>3, <1>4, <1>5, <1>6, <1>7, <1>8, <1>9 DEF Next, DriveStep, Phone, Event

\* The outbox implements SendOnce: one SMS at most, "sent" and "failed" are true, and
\* no report, sweep or late drive changes a result.
THEOREM KeepsPromiseHolds == Spec => KeepsPromise
  <1> DEFINE res == IF job.status \in TERMINAL THEN job.status ELSE "open"
  <1>1. Init => Promise!Init
    BY DEF Init, Promise!Init, TERMINAL
  <1>2. ASSUME SmsInv, [Next]_vars PROVE [Promise!Next]_<<res, sends>>
    <2>1. SmsInv'
      BY <1>2, SmsInvStep
    <2>2. CASE job.status \notin TERMINAL /\ sends' = sends
      <3>1. job'.status = "sent" => sends = 1
        BY <2>1, <2>2 DEF SmsInv, OthersInv, SendsInv
      <3>2. job'.status = "failed" => sends = 0
        <4>1. job'.status = "failed" => \A gw \in Gateway, g \in Gen : ~MaySend(gw, g)'
          BY <2>1 DEF SmsInv, OthersInv, MayInv
        <4>2. job'.status = "failed" => \A gw \in Gateway, g \in Gen : phone'[gw][g] \notin {"accepted", "unclear"}
          BY <4>1 DEF MaySend
        <4> QED
          BY <2>1, <2>2, <4>2 DEF SmsInv, OthersInv, SendsInv
      <3>3. res = "open" /\ res' \in {"open", "sent", "failed", "uncertain"}
            /\ (res' # "open" => res' = job'.status)
        BY <2>2 DEF TERMINAL
      <3> QED
        BY <2>2, <3>1, <3>2, <3>3 DEF Promise!Next, Promise!Decide
    <2>3. CASE job'.status = job.status /\ sends' = sends
      BY <2>3
    <2>4. CASE /\ job'.status = job.status /\ sends = 0 /\ sends' = 1
               /\ job.status \in {"dispatched", "acknowledged", "uncertain"}
      BY <2>4 DEF Promise!Next, Promise!Leave, TERMINAL
    <2> QED
      BY <1>2, <2>2, <2>3, <2>4, StatusOrSend
  <1>3. SmsInv /\ [Next]_vars => [Promise!Next]_<<res, sends>>
    BY <1>2
  <1> QED
    BY <1>1, <1>3, SmsInvHolds, PTL DEF Spec, KeepsPromise, Promise!Spec
=============================================================================
