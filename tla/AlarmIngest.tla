---------------------------- MODULE AlarmIngest ----------------------------
(***************************************************************************)
(* Alarm messages on their way to an incident (serial_alarm_service.py,    *)
(* alarm_apply_service.py, alarm_ingest_recovery.py, elvis_event_service.py *)
(* and their callers in gateway_api.py and ui_gateway.py).                 *)
(*                                                                         *)
(* Gateways and Windows agents report messages; each is stored in a        *)
(* transaction of its own, then claimed and applied to the incident in a   *)
(* second one, and what alarms the crew (nachlauf) follows after that      *)
(* commit.  All messages carry the same number of the dispatch centre, so  *)
(* there is one incident.                                                  *)
(*                                                                         *)
(* A transaction reads the snapshot it began with (snap); locking reads,   *)
(* unique keys and UPDATEs see what is committed.  What it writes becomes  *)
(* visible with its commit, so it is written in the committing step.       *)
(***************************************************************************)
EXTENDS Naturals, FiniteSets

CONSTANTS
    Msgs,         \* bound: messages, each with its gateway and sequence
    Elvis,        \* those that Windows agents report as ELVis events
    AlarmSource,  \* the ELVis events of agents in mode "alarmquelle"
    Texts,        \* contents of messages
    Code,         \* alarm codes
    TextOf,       \* the content of each message
    CodesOf,      \* the codes in each content
    Request,      \* requests: they deliver a message or reprocess one
    Recovery,     \* passes of the recovery loop
    None,
    MaxAttempts,  \* attempts after which the recovery leaves a row alone
    MaxFaults,    \* bound: exceptions and crashes
    MaxAsked      \* bound: messages that an administrator has processed again

Worker == Request \cup Recovery
Field  == {"codes", "report_text"}
\* process_ingest() returns early for them: they are only recorded.
Recorded == Elvis \ AlarmSource

ASSUME MessageAssumption ==
    /\ IsFiniteSet(Msgs) /\ None \notin Msgs /\ None \notin {"created", "merged", "duplicate"}
    /\ Elvis \subseteq Msgs /\ AlarmSource \subseteq Elvis
    /\ TextOf \in [Msgs -> Texts] /\ CodesOf \in [Texts -> SUBSET Code]
ASSUME IngestBoundAssumption == MaxAttempts \in Nat \ {0} /\ MaxFaults \in Nat /\ MaxAsked \in Nat

VARIABLES
    row,       \* the rows of alarm_ingest
    inc,       \* the incident with the rows of incident_alarm_field
    alarm,     \* the jobs of the first alarm are in the outbox
    follow,    \* per code, the follow-up alarms in the outbox that carry it
    runs,      \* per message, how often its nachlauf ran
    asked,     \* messages an administrator had processed again
    lost,      \* messages whose worker died with the nachlauf ahead
    worker,    \* what each worker is doing
    faults     \* exceptions and crashes so far

vars == <<row, inc, alarm, follow, runs, asked, lost, worker, faults>>

\* version_no: whether it is the first or a later one decides about the alarm, so 2
\* stands for all later ones.
Row == [status : {"absent", "stored", "applied", "error", "logged"}, attempts : 0 .. MaxAttempts,
        linked : BOOLEAN, version : 0 .. 2, action : {None, "created", "merged", "duplicate"}]
Incident == [there : BOOLEAN, closed : BOOLEAN, text : SUBSET Texts, codes : SUBSET Code,
             fields : SUBSET Field]

NoRow == [status |-> "absent", attempts |-> 0, linked |-> FALSE, version |-> 0, action |-> None]
NoIncident == [there |-> FALSE, closed |-> FALSE, text |-> {}, codes |-> {}, fields |-> {}]
NoSnap == [row |-> [m \in Msgs |-> NoRow], inc |-> NoIncident]
Idle   == [at |-> "idle", m |-> None, snap |-> NoSnap, base |-> NoIncident, manual |-> FALSE]

\* stored: the row is committed, the processing transaction has not begun.  deduped:
\* and it is known not to repeat an ELVis event.  open: its snapshot is taken.
\* claimed: it has the row.  creating: it has inserted the incident.  merging: it has
\* found the incident.  reworking: an administrator's, on a row with an incident.
\* applied: committed, the nachlauf is ahead.  clicked: the administrator's request
\* has read the row.
Place == {"idle", "stored", "deduped", "open", "claimed", "creating", "merging", "reworking",
          "applied", "clicked"}

TypeOK ==
    /\ row \in [Msgs -> Row]
    /\ inc \in Incident
    /\ alarm \in BOOLEAN
    /\ follow \in [Code -> Nat] /\ runs \in [Msgs -> Nat]
    /\ asked \subseteq Msgs /\ lost \subseteq Msgs
    /\ worker \in [Worker -> [at : Place, m : Msgs \cup {None}, base : Incident, manual : BOOLEAN,
                              snap : [row : [Msgs -> Row], inc : Incident]]]
    /\ faults \in 0 .. MaxFaults

Init ==
    /\ row = [m \in Msgs |-> NoRow]
    /\ inc = NoIncident
    /\ alarm = FALSE
    /\ follow = [c \in Code |-> 0] /\ runs = [m \in Msgs |-> 0]
    /\ asked = {} /\ lost = {}
    /\ worker = [w \in Worker |-> Idle]
    /\ faults = 0

Fault == faults < MaxFaults /\ faults' = faults + 1

Snapshot == [row |-> row, inc |-> inc]
Goes(w, at) == worker' = [worker EXCEPT ![w].at = at]
Ends(w)     == worker' = [worker EXCEPT ![w] = Idle]

\* The lock of a row, from the claim to the commit.
Locked(m) == \E w \in Worker : worker[w].m = m /\ worker[w].at \in {"claimed", "creating", "merging", "reworking"}

\* attempts is only compared with the limit.
BugTried(r) == [r EXCEPT !.attempts = @ + 1]
Tried(r) == [r EXCEPT !.attempts = IF @ < MaxAttempts THEN @ + 1 ELSE @]

effects == <<alarm, follow, runs, asked, lost>>

-----------------------------------------------------------------------------
(* Storing. *)

\* store_raw(): the key (gateway, sequence) is unique; a repeated message only
\* gets the answer that it is known.
Store(w, m) ==
    /\ w \in Request /\ worker[w].at = "idle"
    /\ row[m].status = "absent"
    /\ row' = [row EXCEPT ![m].status = IF m \in Recorded THEN "logged" ELSE "stored"]
    /\ worker' = [worker EXCEPT ![w] = [Idle EXCEPT !.at = "stored", !.m = m]]
    /\ UNCHANGED <<inc, effects, faults>>

\* verarbeite_elvis_event(): events of the organisation with the same content in
\* the last ten minutes.
BugRepeats(m) ==
    {o \in Elvis \ {m} : TextOf[o] = TextOf[m] /\ row[o].status \in {"stored", "logged", "applied"}}
Repeats(m) ==
    {o \in Elvis \ {m} : TextOf[o] = TextOf[m] /\ row[o].status \in {"logged", "applied"}}

ElvisDedup(w) ==
    LET m == worker[w].m
    IN /\ worker[w].at = "stored" /\ m \in Elvis /\ ~Locked(m)
       /\ \/ \E o \in Repeats(m) :
                /\ row' = [row EXCEPT ![m] = [@ EXCEPT !.status = "logged", !.action = "duplicate",
                                                       !.linked = row[o].linked]]
                /\ Ends(w)
          \/ /\ UNCHANGED row
             /\ IF m \in AlarmSource THEN Goes(w, "deduped") ELSE Ends(w)
       /\ UNCHANGED <<inc, effects, faults>>

-----------------------------------------------------------------------------
(* Processing: process_ingest(), wende_an(), merge_folgenachricht(). *)

\* The transaction begins.
Open(w) ==
    /\ worker[w].at = IF worker[w].m \in Elvis THEN "deduped" ELSE "stored"
    /\ worker' = [worker EXCEPT ![w].at = "open", ![w].snap = Snapshot]
    /\ UNCHANGED <<row, inc, effects, faults>>

\* _eligible(), at some time.
BugEligible(m) == row[m].status = "error" /\ row[m].attempts < MaxAttempts
Eligible(m) ==
    \/ row[m].status = "stored"
    \/ row[m].status = "error" /\ row[m].attempts < MaxAttempts

\* The loop meets a row that is due; a row that is only recorded stays as it is.
Recover(w, m) ==
    /\ w \in Recovery /\ worker[w].at = "idle"
    /\ Eligible(m) /\ m \notin Recorded
    /\ worker' = [worker EXCEPT ![w] = [Idle EXCEPT !.at = "open", !.m = m, !.snap = Snapshot]]
    /\ UNCHANGED <<row, inc, effects, faults>>

\* The conditional UPDATE waits for the lock of the row.
BugClaimable(w, m) == row[m].status # "absent"
Claimable(w, m) ==
    IF w \in Recovery THEN Eligible(m) ELSE row[m].status \in {"stored", "error"}

Claim(w) ==
    LET m == worker[w].m
    IN /\ worker[w].at = "open" /\ ~Locked(m)
       /\ IF Claimable(w, m) THEN Goes(w, "claimed") ELSE Ends(w)
       /\ UNCHANGED <<row, inc, effects, faults>>

\* find_matching_incident() knows the incident of the snapshot ...
Match(w) ==
    /\ worker[w].at = "claimed" /\ worker[w].snap.inc.there
    /\ worker' = [worker EXCEPT ![w].at = "merging", ![w].base = worker[w].snap.inc]
    /\ UNCHANGED <<row, inc, effects, faults>>

\* ... or it knows none or fails: create_incident().  Its number is unique, the INSERT waits
\* for another one; if that is committed the incident is read with a lock, the
\* rows of its fields are those of the snapshot.
FreshRow(w) == [inc EXCEPT !.codes = worker[w].snap.inc.codes, !.fields = worker[w].snap.inc.fields]

Insert(w) ==
    /\ worker[w].at = "claimed"
    /\ \A v \in Worker : worker[v].at # "creating"
    /\ IF inc.there
       THEN worker' = [worker EXCEPT ![w].at = "merging", ![w].base = FreshRow(w)]
       ELSE Goes(w, "creating")
    /\ UNCHANGED <<row, inc, effects, faults>>

\* What the transaction had read is forgotten; the request of an administrator keeps
\* what it read first.
Committed(w, m, r) ==
    /\ row' = [row EXCEPT ![m] = Tried(r)]
    /\ worker' = [worker EXCEPT ![w].at = "applied", ![w].base = NoIncident,
                                ![w].snap = IF worker[w].manual THEN @ ELSE NoSnap]

CommitCreated(w) ==
    LET m == worker[w].m
        t == TextOf[m]
    IN /\ worker[w].at = "creating"
       /\ Committed(w, m, [row[m] EXCEPT !.status = "applied", !.linked = TRUE, !.version = 1,
                                         !.action = "created"])
       /\ inc' = [there |-> TRUE, closed |-> FALSE, text |-> {t}, codes |-> CodesOf[t],
                  fields |-> Field]
       /\ UNCHANGED <<effects, faults>>

\* What a message adds to an incident as the transaction sees it.  An administrator's
\* reprocessing only touches fields with the origin "alarm".
NewCodes(w, m) ==
    IF worker[w].at = "reworking" /\ "codes" \notin worker[w].base.fields THEN {}
    ELSE CodesOf[TextOf[m]] \ worker[w].base.codes

NewText(w, m) ==
    /\ TextOf[m] \notin worker[w].base.text
    /\ ~(worker[w].at = "reworking" /\ "report_text" \notin worker[w].base.fields)

\* The fields it writes; a row that the snapshot lacks is inserted, and is unique.
Written(w, m) == (IF NewCodes(w, m) # {} THEN {"codes"} ELSE {})
                 \cup (IF NewText(w, m) THEN {"report_text"} ELSE {})
Collides(w, m) == Written(w, m) \cap (inc.fields \ worker[w].base.fields) # {}

Merged(w, m) ==
    LET base == worker[w].base
    IN [inc EXCEPT !.codes  = IF NewCodes(w, m) # {} THEN base.codes \cup NewCodes(w, m) ELSE @,
                   !.text   = IF NewText(w, m) THEN base.text \cup {TextOf[m]} ELSE @,
                   !.fields = @ \cup Written(w, m)]

\* enqueue_nachalarmierung(), under the lock of the incident: codes that no earlier
\* follow-up alarm carries.
BugFollowUp(codes) == [c \in Code |-> IF c \in codes THEN follow[c] + 1 ELSE follow[c]]
FollowUp(codes) == [c \in Code |-> IF c \in codes /\ follow[c] = 0 THEN 1 ELSE follow[c]]

\* The same content was applied before.
Originals(w, m) == {o \in Msgs \ {m} : /\ worker[w].snap.row[o].status = "applied"
                                       /\ worker[w].snap.row[o].linked
                                       /\ TextOf[o] = TextOf[m]}
Version(w, m) == IF \E o \in Msgs \ {m} : worker[w].snap.row[o].version > 0 THEN 2 ELSE 1

CommitDuplicate(w) ==
    LET m == worker[w].m
    IN /\ worker[w].at = "merging"
       /\ \E o \in Originals(w, m) :
             Committed(w, m, [row[m] EXCEPT !.status = "applied", !.linked = TRUE,
                                 !.version = worker[w].snap.row[o].version, !.action = "duplicate"])
       /\ UNCHANGED <<inc, effects, faults>>

CommitMerged(w) ==
    LET m == worker[w].m
    IN /\ worker[w].at = "merging" /\ Originals(w, m) = {} /\ ~Collides(w, m)
       /\ Committed(w, m, [row[m] EXCEPT !.status = "applied", !.linked = TRUE,
                                         !.version = Version(w, m), !.action = "merged"])
       /\ inc' = Merged(w, m)
       /\ follow' = IF worker[w].base.closed THEN follow ELSE FollowUp(NewCodes(w, m))
       /\ UNCHANGED <<alarm, runs, asked, lost, faults>>

\* verarbeite_neu() on a row that has its incident: no alarm follows by itself.
CommitReworked(w) ==
    LET m == worker[w].m
    IN /\ worker[w].at = "reworking" /\ ~Collides(w, m)
       /\ Committed(w, m, [row[m] EXCEPT !.status = "applied"])
       /\ inc' = Merged(w, m)
       /\ UNCHANGED <<effects, faults>>

\* The savepoint is rolled back, the error committed.
Fail(w) ==
    LET m == worker[w].m
    IN /\ worker[w].at \in {"claimed", "creating", "merging", "reworking"}
       /\ IF worker[w].at \in {"merging", "reworking"} /\ Collides(w, m)
             /\ (worker[w].at = "merging" => Originals(w, m) = {})
          THEN UNCHANGED faults ELSE Fault
       /\ row' = [row EXCEPT ![m] = Tried([@ EXCEPT !.status = "error"])]
       /\ Ends(w)
       /\ UNCHANGED <<inc, effects>>

-----------------------------------------------------------------------------
(* After the commit. *)

\* nachlauf() returns for duplicates and later versions, after-applied callbacks
\* do so for duplicates.
Alarms(r) ==
    /\ r.status = "applied"
    /\ r.action # "duplicate" /\ ~(r.action = "merged" /\ r.version > 1)

\* The request of an administrator only alarms for a row that had no incident when the
\* request began.
BugMayAlarm(w) == w \in Request /\ ~worker[w].snap.row[worker[w].m].linked
MayAlarm(w) == worker[w].manual => ~worker[w].snap.row[worker[w].m].linked

Nachlauf(w) ==
    LET m == worker[w].m
    IN /\ worker[w].at = "applied"
       /\ IF MayAlarm(w) /\ Alarms(row[m])
          THEN alarm' = TRUE /\ runs' = [runs EXCEPT ![m] = @ + 1]
          ELSE UNCHANGED <<alarm, runs>>
       /\ Ends(w)
       /\ UNCHANGED <<row, inc, follow, asked, lost, faults>>

-----------------------------------------------------------------------------
(* An administrator, other sources, crashes. *)

\* gateway_alarmempfang_aktion() reads the row; its transaction begins.
Click(w, m) ==
    /\ w \in Request /\ worker[w].at = "idle"
    /\ m \notin asked /\ Cardinality(asked) < MaxAsked
    /\ row[m].status # "absent"
    /\ asked' = asked \cup {m}
    /\ worker' = [worker EXCEPT ![w] = [Idle EXCEPT !.at = "clicked", !.m = m, !.snap = Snapshot,
                                                    !.manual = TRUE]]
    /\ UNCHANGED <<row, inc, alarm, follow, runs, lost, faults>>

\* verarbeite_neu(), from its locking read on.
Rework(w) ==
    LET m == worker[w].m
    IN /\ worker[w].at = "clicked" /\ ~Locked(m)
       /\ \/ /\ row[m].linked
             /\ worker' = [worker EXCEPT ![w].at = "reworking", ![w].base = FreshRow(w)]
             /\ UNCHANGED row
          \/ /\ ~row[m].linked
             /\ IF m \in Recorded
                THEN row' = [row EXCEPT ![m].status = "error"] /\ Ends(w)
                ELSE UNCHANGED row /\ Goes(w, "claimed")
       /\ UNCHANGED <<inc, effects, faults>>

\* The LIS or a REST client creates the incident with its alarm.
CreatedElsewhere ==
    /\ ~inc.there
    /\ \A v \in Worker : worker[v].at # "creating"
    /\ inc' = [NoIncident EXCEPT !.there = TRUE]
    /\ alarm' = TRUE
    /\ UNCHANGED <<row, follow, runs, asked, lost, worker, faults>>

Close ==
    /\ inc.there /\ ~inc.closed
    /\ inc' = [inc EXCEPT !.closed = TRUE]
    /\ UNCHANGED <<row, effects, worker, faults>>

\* A worker dies: an open transaction is rolled back.
Crash(w) ==
    /\ worker[w].at # "idle" /\ Fault
    /\ lost' = IF worker[w].at = "applied" THEN lost \cup {worker[w].m} ELSE lost
    /\ Ends(w)
    /\ UNCHANGED <<row, inc, alarm, follow, runs, asked>>

Steps(w) ==
    \/ ElvisDedup(w) \/ Open(w) \/ Claim(w) \/ Match(w) \/ Insert(w)
    \/ CommitCreated(w) \/ CommitDuplicate(w) \/ CommitMerged(w) \/ CommitReworked(w)
    \/ Fail(w) \/ Nachlauf(w) \/ Rework(w)

Next ==
    \/ \E w \in Worker, m \in Msgs : Store(w, m) \/ Recover(w, m) \/ Click(w, m)
    \/ \E w \in Worker : Steps(w) \/ Crash(w)
    \/ CreatedElsewhere \/ Close

Spec == Init /\ [][Next]_vars

\* A live worker goes on, and some leader runs the recovery loop every 15 seconds.
Fairness ==
    /\ \A w \in Worker : WF_vars(Steps(w))
    /\ \A w \in Recovery, m \in Msgs : WF_vars(Recover(w, m))

LiveSpec == Spec /\ Fairness

-----------------------------------------------------------------------------
(* Properties. *)

\* A code raises one follow-up alarm at most, and none when it came with the message
\* that created the incident (enqueue_nachalarmierung), however messages race.
FollowUpOnce ==
    \A c \in Code :
        /\ follow[c] <= 1
        /\ follow[c] > 0 => \A m \in Msgs : row[m].action = "created" => c \notin CodesOf[TextOf[m]]

\* Only the winner of the claim runs the nachlauf, so once per message; a second
\* time at most because an administrator had it processed again (process_ingest).
NachlaufOnce == \A m \in Msgs : runs[m] <= 1 \/ m \in asked

\* A request that took longer from storing to ElvisDedup than the recovery waits has
\* relabelled a row that the recovery had applied.
Relabelled(m) == row[m].status = "logged" /\ row[m].version > 0

OnItsWay == \E w \in Worker : worker[w].at = "applied" /\ Alarms(row[worker[w].m])

\* No alarm is swallowed ("Nie einen Alarm verschlucken", serial_alarm_service.py): once
\* a message is applied the first alarm is in the outbox, or a worker is about to put
\* it there.  That fails only for a worker that died on that way, an administrator's
\* reprocessing beside it, and a row relabelled beside it.
AlarmIsRaised ==
    (\E m \in Msgs : row[m].status = "applied")
        => \/ alarm \/ OnItsWay
           \/ lost # {} \/ asked # {} \/ \E m \in Msgs : Relabelled(m)

\* A message of an alarm source is not just recorded: it belongs to an incident
\* (mode "alarmquelle", verarbeite_elvis_event).
NothingSwallowed ==
    \A m \in Msgs \ Recorded : row[m].status = "logged" => row[m].linked

\* What is stored is applied, whoever dies on the way; only a row that failed as often as
\* the recovery allows is left to a person.
EveryMessageApplied ==
    \A m \in Msgs : row[m].status = "stored" ~>
        \/ row[m].status \in {"applied", "logged"}
        \/ row[m].status = "error" /\ row[m].attempts = MaxAttempts
=============================================================================
