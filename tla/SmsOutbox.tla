----------------------------- MODULE SmsOutbox -----------------------------
(***************************************************************************)
(* One SMS in the outbox (app/services/sms_outbox.py), the transport queue *)
(* to the phones (gateway_routing.py), and the connections of the phones   *)
(* (gateway_presence.py).                                                  *)
(*                                                                         *)
(* Any worker may drive the job: claim it, choose a provider, send over    *)
(* EUS or queue a message for the worker that has the socket of a phone.   *)
(* Any worker may sweep it, and the phones report whenever they are        *)
(* connected.  Every action is one database transaction, one external      *)
(* call, or one step of a phone.                                           *)
(***************************************************************************)
EXTENDS Naturals, Sequences, FiniteSetsExt

CONSTANTS
    Gateway,    \* the phones of the organisation
    Setups,     \* provider chains of the job, with the connections phones had before
    MaxGen,     \* bound: claims of the job
    MaxConn     \* bound: connections of a phone, earlier ones included

TERMINAL == {"sent", "failed", "uncertain"}
ACTIVE   == {"claimed", "dispatched", "acknowledged"}
Gen      == 1 .. MaxGen
Conn     == Gateway \X (1 .. MaxConn)
None     == "none"
NoConn   == <<None, 0>>
\* A row of gateway_message: the message, its generation, its connection.
Route    == {"prepare", "send", "commit"} \X Gen \X Conn

ASSUME GatewayAssumption  == None \notin Gateway
ASSUME SetupAssumption ==
    \A s \in Setups : s.providers \in Seq({"gateway", "eus"}) /\ s.connects \in [Gateway -> 0 .. MaxConn]
ASSUME SmsBoundAssumption == MaxGen \in Nat \ {0} /\ MaxConn \in Nat \ {0}

VARIABLES
    job,        \* the row of sms_dispatch_job
    leaseOver,  \* lease_until has been reached
    overdue,    \* the dispatch is older than RECEIPT_TIMEOUT_S
    expired,    \* expires_at has been reached
    attempts,   \* per generation, gateway and outcome (sms_dispatch_attempt)
    route,      \* state of every gateway_message
    drive,      \* per generation, the place of the drive() that claimed it
    conn,       \* per gateway, its connection_id, NoConn when offline
    connects,   \* connections of each gateway so far
    proto,      \* column sms_protocol of the gateway
    phone,      \* per gateway and generation, the journal of the phone
    sends       \* how often the SMS was handed to a modem or accepted by EUS

rowVars  == <<job, leaseOver, overdue, expired, attempts>>
linkVars == <<conn, connects, proto>>
vars     == <<rowVars, route, drive, linkVars, phone, sends>>

JobType ==
    [status : TERMINAL \cup ACTIVE \cup {"queued"}, gen : 0 .. MaxGen,
     providers : {s.providers : s \in Setups}, provider : {None, "gateway", "eus"}, index : Nat \ {0},
     gateway : Gateway \cup {None}, conn : Conn \cup {NoConn}, protocol : {1, 2},
     may : BOOLEAN, received : BOOLEAN, attempted : BOOLEAN]

TypeOK ==
    /\ job \in JobType /\ (job.index = 1 \/ job.index <= Len(job.providers))
    /\ leaseOver \in BOOLEAN /\ overdue \in BOOLEAN /\ expired \in BOOLEAN
    /\ attempts \in [Gen -> [gateway : Gateway \cup {None},
                             outcome : TERMINAL \cup {None, "dispatched", "acknowledged",
                                                      "not_dispatched", "receipt_timeout"}]]
    /\ route \in [Route -> {None, "queued", "sending", "delivered", "failed", "expired"}]
    /\ drive \in [Gen -> {None, "claimed", "eus", "calling", "accepted", "refused", "unclear"}]
    /\ conn \in [Gateway -> Conn \cup {NoConn}]
    /\ connects \in [Gateway -> 0 .. MaxConn]
    /\ proto \in [Gateway -> {1, 2}]
    /\ phone \in [Gateway -> [Gen -> {None, "received", "intent", "accepted", "unclear",
                                     "rejected", "dropped"}]]
    /\ sends \in Nat

\* enqueue_in() has committed the job; no phone is connected.
Init ==
    /\ \E s \in Setups :
          /\ job = [status |-> "queued", gen |-> 0, providers |-> s.providers, provider |-> None,
                    index |-> 1, gateway |-> None, conn |-> NoConn, protocol |-> 1,
                    may |-> FALSE, received |-> FALSE, attempted |-> FALSE]
          /\ connects = s.connects
    /\ leaseOver = FALSE /\ overdue = FALSE /\ expired = FALSE
    /\ attempts = [g \in Gen |-> [gateway |-> None, outcome |-> None]]
    /\ route = [r \in Route |-> None]
    /\ drive = [g \in Gen |-> None]
    /\ conn = [gw \in Gateway |-> NoConn]
    /\ proto = [gw \in Gateway |-> 1]
    /\ phone = [gw \in Gateway |-> [g \in Gen |-> None]]
    /\ sends = 0

-----------------------------------------------------------------------------
(* drive(): claim, choose, send over EUS. *)

\* claim(): the conditional UPDATE and the new attempt.
Claim ==
    /\ job.status = "queued" /\ ~expired
    /\ job.gen < MaxGen
    /\ LET g == job.gen + 1 IN
        /\ job' = [job EXCEPT !.status = "claimed", !.gen = g, !.provider = None,
                              !.gateway = None, !.conn = NoConn, !.may = FALSE,
                              !.received = FALSE, !.attempted = FALSE]
        /\ drive' = [drive EXCEPT ![g] = "claimed"]
    /\ leaseOver' = FALSE
    /\ UNCHANGED <<overdue, expired, attempts, route, linkVars, phone, sends>>

\* The claim token of a generation: cleared or replaced when the job is queued
\* again or claimed by somebody else.
HasToken(g) == job.gen = g /\ job.status \in ACTIVE

Online == {gw \in Gateway : conn[gw] # NoConn}

\* Gateways whose last attempt did not reach the phone.
Excluded ==
    {gw \in Gateway :
        LET tried == {g \in 1 .. (job.gen - 1) : attempts[g].gateway = gw} IN
        /\ tried # {}
        /\ attempts[Max(tried)].outcome \in {"receipt_timeout", "not_dispatched"}}

\* The gateways to choose from: the excluded ones only when there is nothing
\* else, no other gateway online and no EUS further down the chain.
Candidates(i, eusOn) ==
    IF Online \ Excluded # {} \/ (eusOn /\ \E k \in (i + 1) .. Len(job.providers) : job.providers[k] = "eus")
    THEN Online \ Excluded ELSE Online

\* The loop over the chain ends at a provider that can take the job, and at
\* reachable gateways that are all busy.
EndsAt(i, eusOn) ==
    \/ job.providers[i] = "eus" /\ eusOn
    \/ job.providers[i] = "gateway" /\ Candidates(i, eusOn) # {}

Stops(eusOn) == {i \in job.index .. Len(job.providers) : EndsAt(i, eusOn)}

\* _prepare() without a selection: back into the queue.
PutBack(g) ==
    /\ attempts' = [attempts EXCEPT ![g].outcome = "not_dispatched"]
    /\ job' = [job EXCEPT !.status = "queued"]
    /\ drive' = [drive EXCEPT ![g] = None]
    /\ UNCHANGED <<leaseOver, overdue, expired, route, linkVars, phone, sends>>

\* _prepare() with EUS: from here on the job counts as possibly sent.
ToEus(g, i) ==
    /\ job' = [job EXCEPT !.status = "dispatched", !.index = i, !.provider = "eus",
                          !.may = TRUE, !.attempted = TRUE]
    /\ attempts' = [attempts EXCEPT ![g].outcome = "dispatched"]
    /\ drive' = [drive EXCEPT ![g] = "eus"]
    /\ leaseOver' = FALSE /\ overdue' = FALSE
    /\ UNCHANGED <<expired, route, linkVars, phone, sends>>

\* _prepare() with a gateway: the state and the message for its socket are
\* committed together.  A phone of protocol 1 sends as soon as it reads it.
ToGateway(g, i, gw) ==
    /\ job' = [job EXCEPT !.status = "dispatched", !.index = i, !.provider = "gateway",
                          !.gateway = gw, !.conn = conn[gw], !.protocol = proto[gw],
                          !.may = proto[gw] < 2]
    /\ attempts' = [attempts EXCEPT ![g] = [gateway |-> gw, outcome |-> "dispatched"]]
    /\ route' = [route EXCEPT ![<<IF proto[gw] < 2 THEN "send" ELSE "prepare", g, conn[gw]>>] = "queued"]
    /\ drive' = [drive EXCEPT ![g] = None]
    /\ leaseOver' = FALSE /\ overdue' = FALSE
    /\ UNCHANGED <<expired, linkVars, phone, sends>>

\* The load of other jobs decides which gateways are free.
Prepare(g) ==
    /\ drive[g] = "claimed"
    /\ HasToken(g) /\ job.status = "claimed" /\ ~leaseOver
    /\ \E eusOn \in BOOLEAN :
        \/ Stops(eusOn) = {} /\ PutBack(g)
        \/ \E i \in Stops(eusOn) :
              /\ \A k \in Stops(eusOn) : i <= k
              /\ IF job.providers[i] = "eus" THEN ToEus(g, i)
                 ELSE PutBack(g) \/ \E gw \in Candidates(i, eusOn) : ToGateway(g, i, gw)

\* The drive lost its claim, died or was cancelled.
DriveEnds(g) ==
    /\ drive[g] # None
    /\ drive' = [drive EXCEPT ![g] = None]
    /\ UNCHANGED <<rowVars, route, linkVars, phone, sends>>

\* drive() reads the job once more before it calls EUS.
CheckEus(g) ==
    /\ drive[g] = "eus"
    /\ HasToken(g) /\ job.status = "dispatched"
    /\ drive' = [drive EXCEPT ![g] = "calling"]
    /\ UNCHANGED <<rowVars, route, linkVars, phone, sends>>

\* send_via_eus(): accepted, provably not sent, or unclear.
CallEus(g) ==
    /\ drive[g] = "calling"
    /\ \/ drive' = [drive EXCEPT ![g] = "accepted"] /\ sends' = sends + 1
       \/ drive' = [drive EXCEPT ![g] = "refused"]  /\ sends' = sends
       \/ drive' = [drive EXCEPT ![g] = "unclear"]  /\ sends' \in {sends, sends + 1}
    /\ UNCHANGED <<rowVars, route, linkVars, phone>>

\* _complete(): a failure without a send moves on to the next provider.
BugComplete(g, outcome, notSent) ==
    /\ job' = IF outcome = "failed" /\ notSent /\ job.index <= Len(job.providers)
              THEN [job EXCEPT !.index = @ + 1, !.status = "queued", !.may = FALSE,
                               !.gateway = None, !.conn = NoConn]
              ELSE [job EXCEPT !.status = outcome, !.may = IF notSent THEN FALSE ELSE @]
    /\ attempts' = [attempts EXCEPT ![g].outcome = outcome]
Complete(g, outcome, notSent) ==
    /\ job' = IF outcome = "failed" /\ notSent /\ job.index < Len(job.providers)
              THEN [job EXCEPT !.index = @ + 1, !.status = "queued", !.may = FALSE,
                               !.gateway = None, !.conn = NoConn]
              ELSE [job EXCEPT !.status = outcome, !.may = IF notSent THEN FALSE ELSE @]
    /\ attempts' = [attempts EXCEPT ![g].outcome = outcome]

\* _eus_result(), only with the claim token of an active job.
BugEusOutcome(place) == IF place = "accepted" THEN "sent" ELSE "failed"
EusOutcome(place) ==
    CASE place = "accepted" -> "sent" [] place = "refused" -> "failed" [] OTHER -> "uncertain"

EusResult(g) ==
    /\ drive[g] \in {"accepted", "refused", "unclear"}
    /\ drive' = [drive EXCEPT ![g] = None]
    /\ IF HasToken(g) THEN Complete(g, EusOutcome(drive[g]), drive[g] = "refused")
                      ELSE UNCHANGED <<job, attempts>>
    /\ UNCHANGED <<leaseOver, overdue, expired, route, linkVars, phone, sends>>

-----------------------------------------------------------------------------
(* The transport queue. *)

\* _claim() in gateway_routing: the worker with the socket takes the message,
\* if the connection is still the current one.
PickUp(r) ==
    /\ route[r] = "queued"
    /\ conn[r[3][1]] = r[3]
    /\ route' = [route EXCEPT ![r] = "sending"]
    /\ UNCHANGED <<rowVars, drive, linkVars, phone, sends>>

\* The message is older than its TTL, or its connection was replaced.
Expire(r) ==
    /\ route[r] = "queued"
    /\ route' = [route EXCEPT ![r] = "expired"]
    /\ UNCHANGED <<rowVars, drive, linkVars, phone, sends>>

\* deliver(): written to the socket, or failed after the write may have begun;
\* then the connection ends.
WriteDone(r) ==
    /\ route[r] = "sending"
    /\ \/ /\ route' = [route EXCEPT ![r] = "delivered"]
          /\ UNCHANGED conn
       \/ /\ route' = [route EXCEPT ![r] = "failed"]
          /\ conn' = [conn EXCEPT ![r[3][1]] = IF @ = r[3] THEN NoConn ELSE @]
    /\ UNCHANGED <<rowVars, drive, connects, proto, phone, sends>>

-----------------------------------------------------------------------------
(* Connections. *)

\* begin(): a new connection replaces the old one and starts at protocol 1.
Connect(gw) ==
    /\ connects[gw] < MaxConn
    /\ connects' = [connects EXCEPT ![gw] = @ + 1]
    /\ conn' = [conn EXCEPT ![gw] = <<gw, connects[gw] + 1>>]
    /\ proto' = [proto EXCEPT ![gw] = 1]
    /\ UNCHANGED <<rowVars, route, drive, phone, sends>>

\* end() of the socket, or expire() of its presence.
Disconnect(gw) ==
    /\ conn[gw] # NoConn
    /\ conn' = [conn EXCEPT ![gw] = NoConn]
    /\ UNCHANGED <<rowVars, route, drive, connects, proto, phone, sends>>

\* hello(): the phone announces sms-transaction-v2.
Hello(gw) ==
    /\ conn[gw] # NoConn /\ proto[gw] = 1
    /\ proto' = [proto EXCEPT ![gw] = 2]
    /\ UNCHANGED <<rowVars, route, drive, conn, connects, phone, sends>>

-----------------------------------------------------------------------------
(* The phone: an external application with a journal per SMS. *)

\* A message that was written to the socket, or whose write may have begun.
OnTheWire(kind, gw, g) ==
    \E n \in 1 .. MaxConn : route[<<kind, g, <<gw, n>>>>] \in {"sending", "delivered", "failed"}

PhoneStep(gw, g, from, to) ==
    /\ phone[gw][g] = from
    /\ phone' = [phone EXCEPT ![gw][g] = to]
    /\ UNCHANGED <<rowVars, route, drive, linkVars>>

\* sms.prepare is stored; sms.commit, and sms.send of protocol 1, are stored
\* as intent before the modem is called.
PhoneReceives(gw, g) == OnTheWire("prepare", gw, g) /\ PhoneStep(gw, g, None, "received") /\ UNCHANGED sends
PhoneCommits(gw, g)  == OnTheWire("commit", gw, g) /\ PhoneStep(gw, g, "received", "intent") /\ UNCHANGED sends
PhoneLegacy(gw, g)   == OnTheWire("send", gw, g) /\ PhoneStep(gw, g, None, "intent") /\ UNCHANGED sends
\* Refused before any attempt.
PhoneRejects(gw, g)  == PhoneStep(gw, g, "received", "rejected") /\ UNCHANGED sends
\* The modem accepts, or nobody knows; a restart leaves the intent unclear.
PhoneSends(gw, g) ==
    \/ PhoneStep(gw, g, "intent", "accepted") /\ sends' = sends + 1
    \/ PhoneStep(gw, g, "intent", "unclear") /\ sends' \in {sends, sends + 1}

Phone(gw, g) ==
    \/ PhoneReceives(gw, g) \/ PhoneCommits(gw, g) \/ PhoneLegacy(gw, g)
    \/ PhoneRejects(gw, g) \/ PhoneSends(gw, g)

-----------------------------------------------------------------------------
(* event(): what a connected phone reports. *)

\* The job is looked up by generation and gateway.
Concerns(gw, g) ==
    /\ conn[gw] # NoConn
    /\ job.gen = g /\ job.gateway = gw /\ job.provider = "gateway"

Reachable == job.status \in {"dispatched", "acknowledged"}

\* sms.ack: the first one, and one repeated in a hello on a new connection,
\* grant the send; grant and possible effect are committed together.
Grants(gw, reconcile) ==
    /\ job.protocol >= 2
    /\ job.status = "dispatched" \/ (reconcile /\ job.conn # conn[gw])

Ack(gw, g, reconcile) ==
    /\ phone[gw][g] # None /\ Concerns(gw, g) /\ Reachable
    /\ reconcile => proto[gw] = 2
    /\ attempts' = [attempts EXCEPT ![g].outcome = "acknowledged"]
    /\ IF Grants(gw, reconcile)
       THEN /\ job' = [job EXCEPT !.status = "acknowledged", !.received = TRUE, !.may = TRUE,
                                  !.conn = conn[gw]]
            /\ leaseOver' = FALSE
            /\ route' = [route EXCEPT ![<<"commit", g, conn[gw]>>] = "queued"]
       ELSE /\ job' = [job EXCEPT !.status = "acknowledged", !.received = TRUE]
            /\ UNCHANGED <<leaseOver, route>>
    /\ UNCHANGED <<overdue, expired, drive, linkVars, phone, sends>>

\* sms.attempt
Attempted(gw, g) ==
    /\ phone[gw][g] \in {"intent", "accepted", "unclear"}
    /\ Concerns(gw, g) /\ Reachable /\ job.may
    /\ job' = [job EXCEPT !.attempted = TRUE]
    /\ UNCHANGED <<leaseOver, overdue, expired, attempts, route, drive, linkVars, phone, sends>>

\* sms.result; only a phone of protocol 2 can prove that nothing was sent.
BugResult(gw, g) ==
    /\ phone[gw][g] \in {"accepted", "unclear", "rejected"}
    /\ Concerns(gw, g) /\ Reachable
    /\ Complete(g, IF phone[gw][g] = "accepted" THEN "sent" ELSE "failed", phone[gw][g] # "accepted")
    /\ UNCHANGED <<leaseOver, overdue, expired, route, drive, linkVars, phone, sends>>
Result(gw, g) ==
    /\ phone[gw][g] \in {"accepted", "unclear", "rejected"}
    /\ Concerns(gw, g) /\ Reachable
    /\ LET notSent == phone[gw][g] = "rejected" /\ job.protocol >= 2 /\ ~job.attempted IN
        Complete(g, IF phone[gw][g] = "accepted" THEN "sent"
                    ELSE IF notSent THEN "failed" ELSE "uncertain", notSent)
    /\ UNCHANGED <<leaseOver, overdue, expired, route, drive, linkVars, phone, sends>>

\* A hello lists an SMS that is decided or was replaced: sms.abandon.
Abandon(gw, g) ==
    /\ conn[gw] # NoConn /\ proto[gw] = 2
    /\ ~Concerns(gw, g) \/ job.status \in TERMINAL
    /\ PhoneStep(gw, g, "received", "dropped")
    /\ UNCHANGED sends

-----------------------------------------------------------------------------
(* sweep(): expired queues, leases and receipts. *)

Grant(g)  == {r \in Route : r[1] = "commit" /\ r[2] = g /\ r[3][1] = job.gateway}
Order(g)  == {r \in Route : r[1] # "commit" /\ r[2] = g}
Issued(R) == {r \in R : route[r] # None}

\* Nothing can have been sent, nor can it be any more once the queued messages
\* are cancelled: without a grant, or while all grants are still queued.
BugRecallable(g) ==
    CASE job.provider = "gateway" /\ job.protocol >= 2 ->
            /\ Issued(Grant(g)) # {} \/ ~job.may
            /\ Issued(Grant(g)) = {} \/ \E r \in Issued(Grant(g)) : route[r] = "queued"
      [] job.provider = "gateway" /\ job.protocol < 2 -> \E r \in Order(g) : route[r] = "queued"
      [] OTHER -> job.status = "claimed" \/ ~job.may
Recallable(g) ==
    CASE job.provider = "gateway" /\ job.protocol >= 2 ->
            /\ Issued(Grant(g)) # {} \/ ~job.may
            /\ \A r \in Issued(Grant(g)) : route[r] = "queued"
      [] job.provider = "gateway" /\ job.protocol < 2 -> \E r \in Order(g) : route[r] = "queued"
      [] OTHER -> job.status = "claimed" \/ ~job.may

ReceiptTimeout ==
    /\ job.status = "dispatched" /\ job.provider = "gateway"
    /\ ~job.received /\ ~job.may /\ overdue

BugRequeue(g) ==
    /\ attempts' = [attempts EXCEPT ![g].outcome = "not_dispatched"]
    /\ job' = [job EXCEPT !.status = "queued", !.may = FALSE]
    /\ UNCHANGED route
Requeue(g) ==
    /\ route' = [r \in Route |-> IF r \in Grant(g) \cup Order(g) /\ route[r] = "queued"
                                 THEN "expired" ELSE route[r]]
    /\ attempts' = [attempts EXCEPT ![g].outcome =
                        IF ReceiptTimeout THEN "receipt_timeout" ELSE "not_dispatched"]
    /\ job' = [job EXCEPT !.status = "queued", !.may = FALSE]

BugSweepActive ==
    /\ job.status \in {"dispatched", "acknowledged"} /\ leaseOver
    /\ Complete(job.gen, "uncertain", FALSE)
    /\ UNCHANGED <<leaseOver, overdue, expired, route, drive, linkVars, phone, sends>>
SweepActive ==
    /\ job.status \in ACTIVE
    /\ ReceiptTimeout \/ leaseOver
    /\ \/ Recallable(job.gen) /\ Requeue(job.gen)
       \/ /\ ~Recallable(job.gen) /\ leaseOver
          /\ Complete(job.gen, "uncertain", FALSE)
          /\ UNCHANGED route
    /\ UNCHANGED <<leaseOver, overdue, expired, drive, linkVars, phone, sends>>

SweepQueued ==
    /\ job.status = "queued" /\ expired
    /\ job' = [job EXCEPT !.status = "failed"]
    /\ UNCHANGED <<leaseOver, overdue, expired, attempts, route, drive, linkVars, phone, sends>>

-----------------------------------------------------------------------------
(* Time. *)

LeaseEnds ==
    /\ job.status \in ACTIVE /\ ~leaseOver
    /\ leaseOver' = TRUE
    /\ UNCHANGED <<job, overdue, expired, attempts, route, drive, linkVars, phone, sends>>

ReceiptDue ==
    /\ job.status = "dispatched" /\ ~overdue
    /\ overdue' = TRUE
    /\ UNCHANGED <<job, leaseOver, expired, attempts, route, drive, linkVars, phone, sends>>

QueueExpires ==
    /\ job.status \notin TERMINAL /\ ~expired
    /\ expired' = TRUE
    /\ UNCHANGED <<job, leaseOver, overdue, attempts, route, drive, linkVars, phone, sends>>

-----------------------------------------------------------------------------
DriveStep(g) == Prepare(g) \/ CheckEus(g) \/ CallEus(g) \/ EusResult(g) \/ DriveEnds(g)
Transport(r) == PickUp(r) \/ Expire(r) \/ WriteDone(r)
Link(gw)     == Connect(gw) \/ Disconnect(gw) \/ Hello(gw)
Event(gw, g) ==
    \/ \E reconcile \in BOOLEAN : Ack(gw, g, reconcile)
    \/ Attempted(gw, g) \/ Result(gw, g) \/ Abandon(gw, g)

Next ==
    \/ Claim
    \/ \E g \in Gen : DriveStep(g)
    \/ \E r \in Route : Transport(r)
    \/ \E gw \in Gateway : Link(gw)
    \/ \E gw \in Gateway, g \in Gen : Phone(gw, g) \/ Event(gw, g)
    \/ SweepActive \/ SweepQueued
    \/ LeaseEnds \/ ReceiptDue \/ QueueExpires

\* Every worker runs the sweep every second and deadlines are reached; nobody
\* has to claim, deliver, connect or answer.
Fairness == WF_vars(SweepActive) /\ WF_vars(SweepQueued) /\ WF_vars(LeaseEnds) /\ WF_vars(QueueExpires)

Spec     == Init /\ [][Next]_vars
LiveSpec == Spec /\ Fairness

-----------------------------------------------------------------------------
(* Properties. *)

\* The outbox keeps the promise of SendOnce: one SMS at most, "failed" was
\* never sent and never will be, "sent" was, and results stand.
Promise == INSTANCE SendOnce
    WITH result <- IF job.status \in TERMINAL THEN job.status ELSE "open", sends <- sends
KeepsPromise == Promise!Spec

\* A job that waits for another attempt cannot be sent by an earlier one: no
\* phone has the grant or can still get it, no drive is at EUS (sweep(),
\* _complete(): requeue only with proof).
MaySend(gw, g) ==
    \/ phone[gw][g] \in {"intent", "accepted", "unclear"}
    \/ /\ phone[gw][g] \in {None, "received"}
       /\ \E kind \in {"send", "commit"}, n \in 1 .. MaxConn :
             route[<<kind, g, <<gw, n>>>>] \in {"queued", "sending", "delivered", "failed"}
RequeueIsSafe ==
    job.status \in {"queued", "claimed"} =>
        /\ \A gw \in Gateway, g \in Gen : ~MaySend(gw, g)
        /\ \A g \in Gen : drive[g] \notin {"calling", "accepted", "unclear"}
        /\ sends = 0

\* The phone that holds a grant belongs to the current generation: at most one
\* phone and one generation may send at any time, also after the result.
OneGrant == Cardinality({x \in Gateway \X Gen : MaySend(x[1], x[2])}) <= 1

\* Every SMS is decided within its deadlines, whoever dies or stays silent.
Decided == <>(job.status \in TERMINAL)
=============================================================================
