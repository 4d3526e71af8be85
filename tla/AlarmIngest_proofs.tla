------------------------- MODULE AlarmIngest_proofs -------------------------
(***************************************************************************)
(* Theorems about AlarmIngest, for any messages, contents and codes, any   *)
(* number of requests and recovery passes, and any bound.                  *)
(***************************************************************************)
EXTENDS AlarmIngest, TLAPS

WorkerType == [at : Place, m : Msgs \cup {None}, base : Incident, manual : BOOLEAN,
               snap : [row : [Msgs -> Row], inc : Incident]]

\* A worker that is not idle has a message; what only an administrator starts is marked.
WorkerInv ==
    \A w \in Worker :
        /\ worker[w].at # "idle" => worker[w].m \in Msgs
        /\ worker[w].at \in {"clicked", "reworking"} => worker[w].manual
        /\ worker[w].manual => worker[w].m \in asked

HasLock(w) == worker[w].at \in {"claimed", "creating", "merging", "reworking"}

-----------------------------------------------------------------------------
\* The rows, the incident and what every worker has in hand keep their types.
LEMMA InitTyped == Init => TypeOK /\ WorkerInv
  <1> SUFFICES ASSUME Init PROVE TypeOK /\ WorkerInv
    OBVIOUS
  <1> USE DEF Init
  <1>1. NoRow \in Row /\ NoIncident \in Incident
    BY IngestBoundAssumption DEF NoRow, Row, NoIncident, Incident
  <1>2. NoSnap \in [row : [Msgs -> Row], inc : Incident]
    BY <1>1 DEF NoSnap
  <1>3. Idle \in WorkerType
    BY <1>1, <1>2 DEF Idle, WorkerType, Place
  <1>4. TypeOK
    <2>1. worker \in [Worker -> WorkerType] /\ row \in [Msgs -> Row]
      BY <1>1, <1>3
    <2>2. follow \in [Code -> Nat] /\ runs \in [Msgs -> Nat] /\ faults \in 0 .. MaxFaults
      BY IngestBoundAssumption
    <2> QED
      BY <1>1, <2>1, <2>2 DEF TypeOK, WorkerType
  <1>5. WorkerInv
    BY DEF WorkerInv, Idle
  <1> QED
    BY <1>4, <1>5

\* Every step keeps the types, and a worker under way has a message.
LEMMA StepTyped == TypeOK /\ WorkerInv /\ [Next]_vars => TypeOK' /\ WorkerInv'
  <1> SUFFICES ASSUME TypeOK, WorkerInv, [Next]_vars PROVE TypeOK' /\ WorkerInv'
    OBVIOUS
  <1> USE IngestBoundAssumption, MessageAssumption
  <1>1. /\ NoRow \in Row /\ NoIncident \in Incident
        /\ NoSnap \in [row : [Msgs -> Row], inc : Incident]
        /\ Idle \in WorkerType
    <2>1. NoRow \in Row /\ NoIncident \in Incident
      BY DEF NoRow, Row, NoIncident, Incident
    <2> QED
      BY <2>1 DEF NoSnap, Idle, WorkerType, Place
  <1>2. /\ row \in [Msgs -> Row] /\ inc \in Incident /\ alarm \in BOOLEAN
        /\ follow \in [Code -> Nat] /\ runs \in [Msgs -> Nat]
        /\ asked \subseteq Msgs /\ lost \subseteq Msgs
        /\ worker \in [Worker -> WorkerType] /\ faults \in 0 .. MaxFaults
    BY DEF TypeOK, WorkerType
  <1>3. Snapshot \in [row : [Msgs -> Row], inc : Incident]
    BY <1>2 DEF Snapshot
  <1>4. Fault => faults' \in 0 .. MaxFaults
    BY <1>2 DEF Fault
  <1> DEFINE Typed == TypeOK' /\ WorkerInv'
             Hands == worker' \in [Worker -> WorkerType] /\ WorkerInv'
  <1>5. ASSUME NEW w \in Worker, Ends(w), asked' = asked
        PROVE  Hands
    <2>1. Idle.at = "idle" /\ Idle.manual = FALSE
      BY DEF Idle
    <2> QED
      BY <1>1, <1>2, <1>5, <2>1 DEF Ends, WorkerInv
  <1>6. ASSUME NEW w \in Worker, NEW at \in Place \ {"clicked", "reworking"}, Goes(w, at),
               asked' = asked, worker[w].at # "idle"
        PROVE  Hands
    BY <1>2, <1>6 DEF Goes, WorkerType, WorkerInv
  <1>7. ASSUME NEW m \in Msgs, NEW r \in Row
        PROVE  Tried(r) \in Row /\ [row EXCEPT ![m] = Tried(r)] \in [Msgs -> Row]
    <2>1. Tried(r) \in Row
      BY DEF Tried, Row
    <2> QED
      BY <1>2, <2>1
  <1>8. ASSUME NEW w \in Worker, NEW m \in Msgs, NEW r \in Row, Committed(w, m, r), asked' = asked,
               worker[w].at # "idle"
        PROVE  Hands /\ row' \in [Msgs -> Row]
    <2>1. row' \in [Msgs -> Row]
      BY <1>7, <1>8 DEF Committed
    <2>2. worker' \in [Worker -> WorkerType]
      <3> DEFINE snap == IF worker[w].manual THEN worker[w].snap ELSE NoSnap
                 rec == [worker[w] EXCEPT !.at = "applied", !.base = NoIncident, !.snap = snap]
      <3>1. worker[w] \in WorkerType
        BY <1>2
      <3>2. snap \in [row : [Msgs -> Row], inc : Incident]
        BY <1>1, <3>1 DEF WorkerType
      <3> HIDE DEF snap
      <3>3. rec \in WorkerType
        BY <1>1, <3>1, <3>2 DEF WorkerType, Place
      <3>4. worker' = [worker EXCEPT ![w] = rec]
        BY <1>2, <3>1, <1>8 DEF Committed, WorkerType, snap
      <3> HIDE DEF rec
      <3> QED
        BY <1>2, <3>3, <3>4
    <2>3. WorkerInv'
      BY <1>2, <1>8 DEF Committed, WorkerType, WorkerInv
    <2> QED
      BY <2>1, <2>2, <2>3
  <1>9. ASSUME NEW w \in Worker, NEW m \in Msgs, worker[w].at \in {"merging", "reworking"}
        PROVE  Merged(w, m) \in Incident
    <2>1. worker[w].base \in Incident
      BY <1>2 DEF WorkerType
    <2>2. NewCodes(w, m) \in SUBSET Code
      BY DEF NewCodes
    <2>3. TextOf[m] \in Texts
      OBVIOUS
    <2>4. Written(w, m) \in SUBSET Field
      BY DEF Written, Field
    <2> QED
      BY <1>2, <2>1, <2>2, <2>3, <2>4 DEF Merged, Incident
  <1>10. ASSUME NEW w \in Worker PROVE FreshRow(w) \in Incident /\ worker[w].snap.inc \in Incident
    <2>1. worker[w].snap \in [row : [Msgs -> Row], inc : Incident]
      BY <1>2 DEF WorkerType
    <2>2. worker[w].snap.inc \in Incident
      BY <2>1
    <2> QED
      BY <1>2, <2>2 DEF FreshRow, Incident
  <1>a. ASSUME NEW m \in Msgs, NEW st \in {"stored", "applied", "error", "logged"}
        PROVE  [row EXCEPT ![m].status = st] \in [Msgs -> Row]
    <2>1. [row[m] EXCEPT !.status = st] \in Row
      BY <1>2 DEF Row
    <2>2. [row EXCEPT ![m] = [row[m] EXCEPT !.status = st]] \in [Msgs -> Row]
      BY <1>2, <2>1
    <2> QED
      BY <2>2
  <1>b. ASSUME NEW w \in Worker, NEW r \in WorkerType, worker' = [worker EXCEPT ![w] = r],
               asked \subseteq asked', r.at # "idle" => r.m \in Msgs, r.manual => r.m \in asked',
               r.at \in {"clicked", "reworking"} => r.manual
        PROVE  Hands
    BY <1>2, <1>b DEF WorkerInv
  <1>c. \A w \in Worker : worker[w] \in WorkerType
    BY <1>2
  <1>d. \A k \in Msgs : row[k] \in Row
    BY <1>2
  <1>11. ASSUME NEW w \in Worker, NEW m \in Msgs, Store(w, m) PROVE Typed
    <2>1. row' \in [Msgs -> Row]
      BY <1>a, <1>11 DEF Store
    <2>2. Hands
      BY <1>1, <1>2, <1>11 DEF Store, WorkerType, Place, Idle, WorkerInv, effects
    <2> QED
      BY <1>2, <1>11, <2>1, <2>2 DEF TypeOK, WorkerType, Store, effects
  <1>12. ASSUME NEW w \in Worker, NEW m \in Msgs, Recover(w, m) PROVE Typed
    <2>1. Hands
      BY <1>1, <1>2, <1>3, <1>12 DEF Recover, WorkerType, Place, Idle, WorkerInv, effects
    <2> QED
      BY <1>2, <1>12, <2>1 DEF TypeOK, WorkerType, Recover, effects
  <1>13. ASSUME NEW w \in Worker, NEW m \in Msgs, Click(w, m) PROVE Typed
    <2>1. Hands
      BY <1>1, <1>2, <1>3, <1>13 DEF Click, WorkerType, Place, Idle, WorkerInv
    <2>2. asked' \subseteq Msgs
      BY <1>2, <1>13 DEF Click
    <2> QED
      BY <1>2, <1>13, <2>1, <2>2 DEF TypeOK, WorkerType, Click
  <1>14. ASSUME NEW w \in Worker, ElvisDedup(w) PROVE Typed
    <2>1. worker[w].m \in Msgs
      BY <1>14 DEF ElvisDedup, WorkerInv
    <2>2. row' \in [Msgs -> Row]
      <3>1. CASE UNCHANGED row
        BY <1>2, <3>1
      <3>2. CASE \E o \in Msgs :
                    row' = [row EXCEPT ![worker[w].m] = [@ EXCEPT !.status = "logged", !.action = "duplicate",
                                                                  !.linked = row[o].linked]]
        <4>1. PICK o \in Msgs :
                    row' = [row EXCEPT ![worker[w].m] = [@ EXCEPT !.status = "logged", !.action = "duplicate",
                                                                  !.linked = row[o].linked]]
          BY <3>2
        <4>2. [row[worker[w].m] EXCEPT !.status = "logged", !.action = "duplicate", !.linked = row[o].linked]
                 \in Row
          <5>1. row[worker[w].m] \in Row /\ row[o].linked \in BOOLEAN
            BY <1>d, <2>1 DEF Row
          <5> QED
            BY <5>1 DEF Row
        <4> QED
          BY <1>2, <2>1, <4>1, <4>2
      <3> QED
        BY <1>14, <3>1, <3>2 DEF ElvisDedup, Repeats
    <2>3. Hands
      BY <1>5, <1>6, <1>14 DEF ElvisDedup, Place, effects
    <2> QED
      BY <1>2, <1>14, <2>1, <2>2, <2>3 DEF TypeOK, WorkerType, ElvisDedup, effects
  <1>15. ASSUME NEW w \in Worker, Open(w) PROVE Typed
    <2>1. Hands
      <3> DEFINE r == [worker[w] EXCEPT !.at = "open", !.snap = Snapshot]
      <3>1. r \in WorkerType /\ r.at = "open" /\ r.m = worker[w].m /\ r.manual = worker[w].manual
        BY <1>3, <1>c DEF WorkerType, Place
      <3>2. worker' = [worker EXCEPT ![w] = r]
        BY <1>15 DEF Open
      <3>3. asked' = asked /\ worker[w].m \in Msgs /\ (worker[w].manual => worker[w].m \in asked)
        BY <1>15 DEF Open, effects, WorkerInv
      <3> HIDE DEF r
      <3> QED
        BY <1>b, <3>1, <3>2, <3>3
    <2> QED
      BY <1>2, <1>15, <2>1 DEF TypeOK, WorkerType, Open, effects
  <1>16. ASSUME NEW w \in Worker, Claim(w) PROVE Typed
    <2>1. Hands
      BY <1>5, <1>6, <1>16 DEF Claim, Place, effects
    <2> QED
      BY <1>2, <1>16, <2>1 DEF TypeOK, WorkerType, Claim, effects
  <1>17. ASSUME NEW w \in Worker, Match(w) PROVE Typed
    <2>1. Hands
      <3> DEFINE r == [worker[w] EXCEPT !.at = "merging", !.base = worker[w].snap.inc]
      <3>1. r \in WorkerType /\ r.at = "merging" /\ r.m = worker[w].m /\ r.manual = worker[w].manual
        BY <1>10, <1>c DEF WorkerType, Place
      <3>2. worker' = [worker EXCEPT ![w] = r]
        BY <1>17 DEF Match
      <3>3. asked' = asked /\ worker[w].m \in Msgs /\ (worker[w].manual => worker[w].m \in asked)
        BY <1>17 DEF Match, effects, WorkerInv
      <3> HIDE DEF r
      <3> QED
        BY <1>b, <3>1, <3>2, <3>3
    <2> QED
      BY <1>2, <1>17, <2>1 DEF TypeOK, WorkerType, Match, effects
  <1>18. ASSUME NEW w \in Worker, Insert(w) PROVE Typed
    <2>1. Hands
      <3> DEFINE r == [worker[w] EXCEPT !.at = "merging", !.base = FreshRow(w)]
      <3>1. r \in WorkerType /\ r.at = "merging" /\ r.m = worker[w].m /\ r.manual = worker[w].manual
        BY <1>10, <1>c DEF WorkerType, Place
      <3>2. /\ asked' = asked /\ worker[w].at # "idle" /\ worker[w].m \in Msgs
            /\ worker[w].manual => worker[w].m \in asked
        BY <1>18 DEF Insert, effects, WorkerInv
      <3>4. CASE worker' = [worker EXCEPT ![w].at = "merging", ![w].base = FreshRow(w)]
        <4>1. worker' = [worker EXCEPT ![w] = r]
          BY <3>4
        <4> HIDE DEF r
        <4> QED
          BY <1>b, <3>1, <3>2, <4>1
      <3>5. CASE Goes(w, "creating")
        BY <1>6, <3>2, <3>5 DEF Place
      <3> QED
        BY <1>18, <3>4, <3>5 DEF Insert
    <2> QED
      BY <1>2, <1>18, <2>1 DEF TypeOK, WorkerType, Insert, effects
  <1>19. ASSUME NEW w \in Worker, CommitCreated(w) PROVE Typed
    <2> DEFINE m == worker[w].m
               r == [row[m] EXCEPT !.status = "applied", !.linked = TRUE, !.version = 1, !.action = "created"]
    <2>1. m \in Msgs /\ worker[w].at # "idle"
      BY <1>19 DEF CommitCreated, WorkerInv
    <2>2. r \in Row
      <3>1. row[m] \in Row
        BY <1>d, <2>1
      <3>2. 1 \in 0 .. 2
        OBVIOUS
      <3> HIDE DEF m
      <3> QED
        BY <3>1, <3>2 DEF Row
    <2>3. Hands /\ row' \in [Msgs -> Row]
      <3>1. Committed(w, m, r) /\ asked' = asked
        BY <1>19 DEF CommitCreated, effects
      <3> QED
        BY <1>8, <2>1, <2>2, <3>1
    <2>4. inc' \in Incident
      BY <1>19, <2>1 DEF CommitCreated, Incident, Field
    <2> QED
      BY <1>2, <1>19, <2>3, <2>4 DEF TypeOK, WorkerType, CommitCreated, effects
  <1>20. ASSUME NEW w \in Worker, CommitDuplicate(w) PROVE Typed
    <2> DEFINE m == worker[w].m
    <2>1. m \in Msgs /\ worker[w].at # "idle"
      BY <1>20 DEF CommitDuplicate, WorkerInv
    <2>2. PICK o \in Msgs :
             Committed(w, m, [row[m] EXCEPT !.status = "applied", !.linked = TRUE,
                                 !.version = worker[w].snap.row[o].version, !.action = "duplicate"])
      BY <1>20 DEF CommitDuplicate, Originals
    <2>3. worker[w].snap.row[o] \in Row
      BY <1>2 DEF WorkerType
    <2>4. [row[m] EXCEPT !.status = "applied", !.linked = TRUE,
                         !.version = worker[w].snap.row[o].version, !.action = "duplicate"] \in Row
      BY <1>2, <2>1, <2>3 DEF Row
    <2>5. Hands /\ row' \in [Msgs -> Row]
      <3>1. asked' = asked
        BY <1>20 DEF CommitDuplicate, effects
      <3> QED
        BY <1>8, <2>1, <2>2, <2>4, <3>1
    <2> QED
      BY <1>2, <1>20, <2>5 DEF TypeOK, WorkerType, CommitDuplicate, effects
  <1>21. ASSUME NEW w \in Worker, CommitMerged(w) PROVE Typed
    <2> DEFINE m == worker[w].m
               r == [row[m] EXCEPT !.status = "applied", !.linked = TRUE, !.version = Version(w, m),
                                   !.action = "merged"]
    <2>1. m \in Msgs /\ worker[w].at = "merging"
      BY <1>21 DEF CommitMerged, WorkerInv
    <2>2. r \in Row
      <3>1. Version(w, m) \in 0 .. 2
        BY DEF Version
      <3> QED
        <4>1. row[m] \in Row
          BY <1>d, <2>1
        <4> HIDE DEF m
        <4> QED
          BY <3>1, <4>1 DEF Row
    <2>3. Hands /\ row' \in [Msgs -> Row]
      <3>1. Committed(w, m, r) /\ asked' = asked
        BY <1>21 DEF CommitMerged
      <3> QED
        BY <1>8, <2>1, <2>2, <3>1
    <2>4. inc' \in Incident
      BY <1>9, <1>21, <2>1 DEF CommitMerged
    <2>5. follow' \in [Code -> Nat]
      BY <1>2, <1>21 DEF CommitMerged, FollowUp
    <2> QED
      BY <1>2, <1>21, <2>3, <2>4, <2>5 DEF TypeOK, WorkerType, CommitMerged
  <1>22. ASSUME NEW w \in Worker, CommitReworked(w) PROVE Typed
    <2> DEFINE m == worker[w].m
               r == [row[m] EXCEPT !.status = "applied"]
    <2>1. m \in Msgs /\ worker[w].at = "reworking"
      BY <1>22 DEF CommitReworked, WorkerInv
    <2>2. r \in Row
      <3>1. row[m] \in Row
        BY <1>d, <2>1
      <3> HIDE DEF m
      <3> QED
        BY <3>1 DEF Row
    <2>3. Hands /\ row' \in [Msgs -> Row]
      <3>1. Committed(w, m, r) /\ asked' = asked
        BY <1>22 DEF CommitReworked, effects
      <3> QED
        BY <1>8, <2>1, <2>2, <3>1
    <2>4. inc' \in Incident
      BY <1>9, <1>22, <2>1 DEF CommitReworked
    <2> QED
      BY <1>2, <1>22, <2>3, <2>4 DEF TypeOK, WorkerType, CommitReworked, effects
  <1>23. ASSUME NEW w \in Worker, Fail(w) PROVE Typed
    <2>1. worker[w].m \in Msgs
      BY <1>23 DEF Fail, WorkerInv
    <2>2. [row[worker[w].m] EXCEPT !.status = "error"] \in Row
      BY <1>2, <2>1 DEF Row
    <2>3. row' \in [Msgs -> Row]
      BY <1>7, <1>23, <2>1, <2>2 DEF Fail
    <2>4. Hands
      BY <1>5, <1>23 DEF Fail, effects
    <2>5. faults' \in 0 .. MaxFaults
      BY <1>2, <1>4, <1>23 DEF Fail
    <2> QED
      BY <1>2, <1>23, <2>1, <2>2, <2>3, <2>4, <2>5 DEF TypeOK, WorkerType, Fail, effects
  <1>24. ASSUME NEW w \in Worker, Nachlauf(w) PROVE Typed
    <2>1. worker[w].m \in Msgs
      BY <1>24 DEF Nachlauf, WorkerInv
    <2>2. alarm' \in BOOLEAN /\ runs' \in [Msgs -> Nat]
      <3>1. CASE alarm' = TRUE /\ runs' = [runs EXCEPT ![worker[w].m] = @ + 1]
        BY <1>2, <2>1, <3>1
      <3>2. CASE UNCHANGED <<alarm, runs>>
        BY <1>2, <3>2
      <3> QED
        BY <1>24, <3>1, <3>2 DEF Nachlauf
    <2>3. Hands
      BY <1>5, <1>24 DEF Nachlauf
    <2> QED
      BY <1>2, <1>24, <2>1, <2>2, <2>3 DEF TypeOK, WorkerType, Nachlauf
  <1>25. ASSUME NEW w \in Worker, Rework(w) PROVE Typed
    <2>1. worker[w].m \in Msgs /\ worker[w].manual
      BY <1>25 DEF Rework, WorkerInv
    <2>2. row' \in [Msgs -> Row]
      <3>1. UNCHANGED row \/ row' = [row EXCEPT ![worker[w].m].status = "error"]
        BY <1>25 DEF Rework
      <3> QED
        <4>1. [row EXCEPT ![worker[w].m].status = "error"] \in [Msgs -> Row]
          BY <1>a, <2>1
        <4> QED
          BY <1>2, <3>1, <4>1
    <2>3. Hands
      <3>1. asked' = asked /\ worker[w].at # "idle"
        BY <1>25 DEF Rework, effects
      <3>2. CASE Ends(w)
        BY <1>5, <3>1, <3>2
      <3>3. CASE Goes(w, "claimed")
        BY <1>6, <3>1, <3>3 DEF Place
      <3>4. CASE worker' = [worker EXCEPT ![w].at = "reworking", ![w].base = FreshRow(w)]
        <4> DEFINE r == [worker[w] EXCEPT !.at = "reworking", !.base = FreshRow(w)]
        <4>1. r \in WorkerType /\ r.m = worker[w].m /\ r.manual = worker[w].manual
          BY <1>10, <1>c DEF WorkerType, Place
        <4>2. worker' = [worker EXCEPT ![w] = r]
          BY <3>4
        <4>3. worker[w].m \in asked
          BY <2>1 DEF WorkerInv
        <4> HIDE DEF r
        <4> QED
          BY <1>b, <2>1, <3>1, <4>1, <4>2, <4>3
      <3> QED
        BY <1>25, <3>2, <3>3, <3>4 DEF Rework
    <2> QED
      BY <1>2, <1>25, <2>1, <2>2, <2>3 DEF TypeOK, WorkerType, Rework, effects
  <1>26. ASSUME NEW w \in Worker, Crash(w) PROVE Typed
    <2>1. Hands
      BY <1>5, <1>26 DEF Crash
    <2>2. lost' \subseteq Msgs
      BY <1>2, <1>26 DEF Crash, WorkerInv
    <2>3. faults' \in 0 .. MaxFaults
      BY <1>4, <1>26 DEF Crash
    <2> QED
      BY <1>2, <1>26, <2>1, <2>2, <2>3 DEF TypeOK, WorkerType, Crash
  <1>27. ASSUME CreatedElsewhere \/ Close PROVE Typed
    <2>1. inc' \in Incident
      BY <1>1, <1>2, <1>27 DEF CreatedElsewhere, Close, Incident
    <2>2. alarm' \in BOOLEAN /\ UNCHANGED <<row, worker, follow, runs, asked, lost, faults>>
      BY <1>2, <1>27 DEF CreatedElsewhere, Close, effects
    <2> QED
      BY <1>2, <2>1, <2>2 DEF TypeOK, WorkerInv
  <1>28. CASE UNCHANGED vars
    BY <1>28 DEF vars, TypeOK, WorkerInv
  <1> QED
    BY <1>11, <1>12, <1>13, <1>14, <1>15, <1>16, <1>17, <1>18, <1>19, <1>20,
       <1>21, <1>22, <1>23, <1>24, <1>25, <1>26, <1>27, <1>28 DEF Next, Steps

\* The rows, the incident and what every worker has in hand keep their types, through
\* process_ingest(), the recovery, an administrator's reprocessing, failures and crashes.
THEOREM IngestTypeCorrect == Spec => []TypeOK
  <1>1. Init => TypeOK /\ WorkerInv
    BY InitTyped
  <1>2. (TypeOK /\ WorkerInv) /\ [Next]_vars => (TypeOK /\ WorkerInv)'
    BY StepTyped
  <1> QED
    BY <1>1, <1>2, PTL DEF Spec

-----------------------------------------------------------------------------
(* Every step is one of these events of a worker, or of nobody. *)

Others(w)    == \A v \in Worker \ {w} : worker'[v] = worker[v]
OtherRows(m) == \A k \in Msgs \ {m} : row'[k] = row[k]
Keeps(m)     == /\ row'[m].version = row[m].version /\ row'[m].action = row[m].action
                /\ row'[m].linked = row[m].linked

Quiet == UNCHANGED <<row, worker, runs>>

Moves(w) ==
    /\ worker[w].at # "applied" /\ worker'[w].at # "applied"
    /\ HasLock(w)' => HasLock(w) /\ worker'[w].m = worker[w].m
    /\ worker'[w].at = "reworking" => worker[w].at = "reworking"
    /\ UNCHANGED <<row, runs>>

Stores(w) ==
    /\ worker[w].at = "idle" /\ worker'[w].at = "stored"
    /\ \E m \in Msgs : /\ row[m].status = "absent" /\ Keeps(m) /\ OtherRows(m)
                       /\ row'[m].status = IF m \in Recorded THEN "logged" ELSE "stored"
    /\ UNCHANGED runs

Marks(w) ==
    LET m == worker[w].m
    IN /\ worker[w].at = "stored" /\ worker'[w].at = "idle" /\ m \in Elvis
       /\ ~Locked(m) /\ OtherRows(m)
       /\ row'[m].status = "logged" /\ row'[m].version = row[m].version /\ row'[m].action = "duplicate"
       /\ \E o \in Repeats(m) : row'[m].linked = row[o].linked
       /\ UNCHANGED runs

Locks(w) ==
    LET m == worker[w].m
    IN /\ ~HasLock(w) /\ worker[w].at # "applied" /\ HasLock(w)' /\ worker'[w].m = m
       /\ ~Locked(m)
       /\ m \notin asked => row[m].status \in {"stored", "error"}
       /\ worker'[w].at = "reworking" => row[m].linked
       /\ UNCHANGED <<row, runs>>

Commits(w) ==
    LET m == worker[w].m
    IN /\ HasLock(w) /\ worker'[w].at = "applied" /\ worker'[w].m = m
       /\ OtherRows(m) /\ row'[m].status = "applied"
       /\ \/ row'[m].action = "created" /\ row'[m].version = 1 /\ row'[m].linked
          \/ /\ row'[m].action = "merged" /\ row'[m].linked
             /\ \/ row'[m].version = 1
                \/ row'[m].version = 2 /\ \E o \in Msgs : worker[w].snap.row[o].version > 0
          \/ /\ row'[m].action = "duplicate" /\ row'[m].linked
             /\ \E o \in Msgs : /\ worker[w].snap.row[o].status = "applied"
                                /\ row'[m].version = worker[w].snap.row[o].version
          \/ worker[w].at = "reworking" /\ Keeps(m)
       /\ UNCHANGED runs

Fails(w) ==
    LET m == worker[w].m
    IN /\ HasLock(w) /\ worker'[w].at = "idle"
       /\ OtherRows(m) /\ Keeps(m) /\ row'[m].status = "error"
       /\ UNCHANGED runs

Resets(w) ==
    LET m == worker[w].m
    IN /\ worker[w].at = "clicked" /\ worker'[w].at = "idle" /\ m \in Recorded
       /\ ~Locked(m) /\ OtherRows(m) /\ Keeps(m) /\ row'[m].status = "error"
       /\ UNCHANGED runs

Runs(w) ==
    LET m == worker[w].m
    IN /\ worker[w].at = "applied" /\ worker'[w].at = "idle" /\ UNCHANGED row
       /\ IF MayAlarm(w) /\ Alarms(row[m]) THEN alarm' /\ runs' = [runs EXCEPT ![m] = @ + 1]
                                           ELSE UNCHANGED runs

Dies(w) ==
    /\ worker[w].at # "idle" /\ worker'[w].at = "idle"
    /\ worker[w].at = "applied" => lost' # {}
    /\ UNCHANGED <<row, runs>>

Event(w) ==
    /\ Others(w)
    /\ \/ Moves(w) \/ Stores(w) \/ Marks(w) \/ Locks(w) \/ Commits(w)
       \/ Fails(w) \/ Resets(w) \/ Runs(w) \/ Dies(w)

Grows ==
    /\ asked \subseteq asked' /\ lost \subseteq lost' /\ (alarm => alarm')
    /\ \A v \in Worker : worker'[v].snap \in {worker[v].snap, Snapshot, NoSnap}

\* A step is at most one event of one worker, and nothing that was asked, lost or raised is undone.
LEMMA Events == TypeOK /\ WorkerInv /\ [Next]_vars => Grows /\ (Quiet \/ \E w \in Worker : Event(w))
  <1> SUFFICES ASSUME TypeOK, WorkerInv, [Next]_vars
               PROVE  Grows /\ (Quiet \/ \E w \in Worker : Event(w))
    OBVIOUS
  <1> DEFINE Goal == Grows /\ (Quiet \/ \E w \in Worker : Event(w))
  <1>1. /\ row \in [Msgs -> Row] /\ asked \subseteq Msgs /\ runs \in [Msgs -> Nat]
        /\ worker \in [Worker -> WorkerType]
    BY DEF TypeOK, WorkerType
  <1>2. \A w \in Worker : worker[w] \in WorkerType
    BY <1>1
  <1>3. Idle.at = "idle" /\ Idle.snap = NoSnap
    BY DEF Idle
  <1>4. ASSUME NEW w \in Worker, Ends(w)
        PROVE  Others(w) /\ worker'[w].at = "idle" /\ worker'[w].snap = NoSnap
    BY <1>1, <1>3, <1>4 DEF Ends, Others
  <1>5. ASSUME NEW w \in Worker, NEW at \in Place, Goes(w, at)
        PROVE  /\ Others(w) /\ worker'[w].at = at /\ worker'[w].m = worker[w].m
               /\ worker'[w].snap = worker[w].snap
    BY <1>1, <1>2, <1>5 DEF Goes, Others, WorkerType
  <1>6. ASSUME NEW w \in Worker, Others(w), worker'[w].snap \in {worker[w].snap, Snapshot, NoSnap},
               asked \subseteq asked', lost \subseteq lost', alarm => alarm'
        PROVE  Grows
    BY <1>6 DEF Grows, Others
  <1>7. ASSUME NEW w \in Worker, NEW m \in Msgs, Store(w, m) PROVE Goal
    <2>1. Others(w) /\ worker'[w].at = "stored" /\ worker'[w].snap = NoSnap
      BY <1>1, <1>7 DEF Store, Others, Idle
    <2>2. /\ Keeps(m) /\ OtherRows(m) /\ row[m].status = "absent"
          /\ row'[m].status = IF m \in Recorded THEN "logged" ELSE "stored"
      BY <1>1, <1>7 DEF Store, Keeps, OtherRows, Row
    <2>3. Stores(w)
      BY <1>7, <2>1, <2>2 DEF Store, Stores, effects
    <2> QED
      BY <1>6, <1>7, <2>1, <2>3 DEF Store, effects, Event
  <1>8. ASSUME NEW w \in Worker, NEW m \in Msgs, Recover(w, m) \/ Click(w, m) PROVE Goal
    <2>1. /\ Others(w) /\ worker[w].at = "idle" /\ worker'[w].at \in {"open", "clicked"}
          /\ worker'[w].snap = Snapshot
      BY <1>1, <1>8 DEF Recover, Click, Others, Idle
    <2>2. Moves(w)
      BY <1>8, <2>1 DEF Recover, Click, effects, Moves, HasLock
    <2> QED
      BY <1>6, <1>8, <2>1, <2>2 DEF Recover, Click, effects, Event
  <1>9. ASSUME NEW w \in Worker, ElvisDedup(w) PROVE Goal
    <2>1. CASE \E o \in Repeats(worker[w].m) :
                  /\ row' = [row EXCEPT ![worker[w].m] = [@ EXCEPT !.status = "logged", !.action = "duplicate",
                                                                  !.linked = row[o].linked]]
                  /\ Ends(w)
      <3>1. worker[w].m \in Msgs
        BY <1>9 DEF ElvisDedup, WorkerInv
      <3> DEFINE m == worker[w].m
      <3>3. PICK o \in Repeats(m) :
               row' = [row EXCEPT ![m] = [row[m] EXCEPT !.status = "logged", !.action = "duplicate",
                                                        !.linked = row[o].linked]]
        BY <2>1
      <3>4. OtherRows(m)
        BY <1>1, <3>1, <3>3 DEF OtherRows
      <3>5. /\ row'[m].status = "logged" /\ row'[m].version = row[m].version
            /\ row'[m].action = "duplicate" /\ row'[m].linked = row[o].linked
        <4>1. row[m] \in Row
          BY <1>1, <3>1
        <4>2. row'[m] = [row[m] EXCEPT !.status = "logged", !.action = "duplicate", !.linked = row[o].linked]
          BY <1>1, <3>1, <3>3
        <4> HIDE DEF m
        <4> QED
          BY <4>1, <4>2 DEF Row
      <3>2. Marks(w)
        BY <1>4, <1>9, <2>1, <3>4, <3>5 DEF ElvisDedup, Marks, effects
      <3> QED
        BY <1>4, <1>6, <1>9, <2>1, <3>2 DEF ElvisDedup, effects, Event
    <2>2. CASE UNCHANGED row /\ (Ends(w) \/ Goes(w, "deduped"))
      <3>1. Moves(w) /\ Others(w) /\ worker'[w].snap \in {worker[w].snap, NoSnap}
        BY <1>4, <1>5, <1>9, <2>2 DEF ElvisDedup, Moves, HasLock, effects, Place
      <3> QED
        BY <1>6, <1>9, <3>1 DEF ElvisDedup, effects, Event
    <2> QED
      BY <1>9, <2>1, <2>2 DEF ElvisDedup
  <1>10. ASSUME NEW w \in Worker, Open(w) PROVE Goal
    <2>1. Others(w) /\ worker'[w].at = "open" /\ worker'[w].snap = Snapshot
      BY <1>1, <1>10 DEF Open, Others, WorkerType
    <2>2. Moves(w)
      BY <1>10, <2>1 DEF Open, effects, Moves, HasLock
    <2> QED
      BY <1>6, <1>10, <2>1, <2>2 DEF Open, effects, Event
  <1>11. ASSUME NEW w \in Worker, Claim(w) PROVE Goal
    <2>1. CASE Claimable(w, worker[w].m) /\ Goes(w, "claimed")
      <3>1. Locks(w) /\ Others(w) /\ worker'[w].snap = worker[w].snap
        BY <1>5, <1>11, <2>1 DEF Claim, Claimable, Eligible, Locks, HasLock, effects, Place
      <3> QED
        BY <1>6, <1>11, <3>1 DEF Claim, effects, Event
    <2>2. CASE Ends(w)
      <3>1. Moves(w)
        BY <1>4, <1>11, <2>2 DEF Claim, Moves, HasLock, effects
      <3> QED
        BY <1>4, <1>6, <1>11, <2>2, <3>1 DEF Claim, effects, Event
    <2> QED
      BY <1>11, <2>1, <2>2 DEF Claim
  <1>12. ASSUME NEW w \in Worker, Match(w) \/ Insert(w) PROVE Goal
    <2>1. /\ Others(w) /\ worker'[w].at \in {"merging", "creating"} /\ worker'[w].m = worker[w].m
          /\ worker'[w].snap = worker[w].snap /\ worker[w].at = "claimed"
      BY <1>1, <1>2, <1>5, <1>12 DEF Match, Insert, Others, WorkerType, Place
    <2>2. Moves(w)
      BY <1>12, <2>1 DEF Match, Insert, effects, Moves, HasLock
    <2> QED
      BY <1>6, <1>12, <2>1, <2>2 DEF Match, Insert, effects, Event
  <1>13. ASSUME NEW w \in Worker, NEW r \in Row, Committed(w, worker[w].m, r), HasLock(w),
                UNCHANGED <<alarm, asked, lost>>
         PROVE  /\ Others(w) /\ worker'[w].at = "applied" /\ worker'[w].m = worker[w].m
                /\ OtherRows(worker[w].m)
                /\ row'[worker[w].m].status = r.status /\ row'[worker[w].m].version = r.version
                /\ row'[worker[w].m].action = r.action /\ row'[worker[w].m].linked = r.linked
                /\ Grows
    <2> DEFINE m == worker[w].m
    <2>1. m \in Msgs
      BY <1>13 DEF HasLock, WorkerInv
    <2>2. /\ Others(w) /\ worker'[w].at = "applied" /\ worker'[w].m = m
          /\ worker'[w].snap \in {worker[w].snap, NoSnap}
      BY <1>1, <1>2, <1>13 DEF Committed, Others, WorkerType
    <2>3. OtherRows(m) /\ row'[m] = Tried(r)
      BY <1>1, <1>13, <2>1 DEF Committed, OtherRows
    <2>4. /\ Tried(r).status = r.status /\ Tried(r).version = r.version
          /\ Tried(r).action = r.action /\ Tried(r).linked = r.linked
      BY DEF Tried, Row
    <2> QED
      BY <1>6, <1>13, <2>2, <2>3, <2>4
  <1>14. ASSUME NEW w \in Worker, CommitCreated(w) PROVE Goal
    <2> DEFINE m == worker[w].m
               r == [row[m] EXCEPT !.status = "applied", !.linked = TRUE, !.version = 1, !.action = "created"]
    <2>1. m \in Msgs /\ HasLock(w) /\ Committed(w, m, r) /\ UNCHANGED <<alarm, asked, lost, runs>>
      BY <1>14 DEF CommitCreated, WorkerInv, HasLock, effects
    <2>2. r \in Row /\ r.status = "applied" /\ r.linked /\ r.version = 1 /\ r.action = "created"
      <3>1. row[m] \in Row /\ 1 \in 0 .. 2
        BY <1>1, <2>1
      <3> HIDE DEF m
      <3> QED
        BY <3>1 DEF Row
    <2> HIDE DEF r
    <2>3. Commits(w) /\ Others(w) /\ Grows
      BY <1>13, <2>1, <2>2 DEF Commits
    <2> QED
      BY <2>3 DEF Event
  <1>15. ASSUME NEW w \in Worker, CommitDuplicate(w) PROVE Goal
    <2> DEFINE m == worker[w].m
    <2>1. m \in Msgs /\ HasLock(w) /\ UNCHANGED <<alarm, asked, lost, runs>>
      BY <1>15 DEF CommitDuplicate, WorkerInv, HasLock, effects
    <2>2. PICK o \in Originals(w, m) :
             Committed(w, m, [row[m] EXCEPT !.status = "applied", !.linked = TRUE,
                                 !.version = worker[w].snap.row[o].version, !.action = "duplicate"])
      BY <1>15 DEF CommitDuplicate
    <2> DEFINE n == worker[w].snap.row[o].version
               r == [row[m] EXCEPT !.status = "applied", !.linked = TRUE, !.version = n,
                                   !.action = "duplicate"]
    <2>3. o \in Msgs /\ worker[w].snap.row[o].status = "applied"
      BY DEF Originals
    <2>4. r \in Row /\ r.status = "applied" /\ r.linked /\ r.version = n /\ r.action = "duplicate"
      <3>1. row[m] \in Row /\ n \in 0 .. 2
        <4>1. worker[w].snap \in [row : [Msgs -> Row], inc : Incident]
          BY <1>2 DEF WorkerType
        <4>2. worker[w].snap.row[o] \in Row
          BY <2>3, <4>1
        <4> QED
          BY <1>1, <2>1, <4>2 DEF Row
      <3> HIDE DEF m, n
      <3> QED
        BY <3>1 DEF Row
    <2>5. Committed(w, m, r)
      BY <2>2
    <2> HIDE DEF r
    <2>6. Others(w) /\ Grows /\ Commits(w)
      BY <1>13, <2>1, <2>3, <2>4, <2>5 DEF Commits
    <2> QED
      BY <2>6 DEF Event
  <1>16. ASSUME NEW w \in Worker, CommitMerged(w) PROVE Goal
    <2> DEFINE m == worker[w].m
               n == Version(w, m)
               r == [row[m] EXCEPT !.status = "applied", !.linked = TRUE, !.version = n, !.action = "merged"]
    <2>1. m \in Msgs /\ HasLock(w) /\ Committed(w, m, r) /\ UNCHANGED <<alarm, asked, lost, runs>>
      BY <1>16 DEF CommitMerged, WorkerInv, HasLock
    <2>2. \/ n = 1
          \/ n = 2 /\ \E o \in Msgs : worker[w].snap.row[o].version > 0
      BY DEF Version
    <2>3. r \in Row /\ r.status = "applied" /\ r.linked /\ r.version = n /\ r.action = "merged"
      <3>1. row[m] \in Row /\ n \in 0 .. 2
        BY <1>1, <2>1, <2>2
      <3> HIDE DEF m, n
      <3> QED
        BY <3>1 DEF Row
    <2> HIDE DEF r
    <2>4. Commits(w) /\ Others(w) /\ Grows
      BY <1>13, <2>1, <2>2, <2>3 DEF Commits
    <2> QED
      BY <2>4 DEF Event
  <1>17. ASSUME NEW w \in Worker, CommitReworked(w) PROVE Goal
    <2> DEFINE m == worker[w].m
               r == [row[m] EXCEPT !.status = "applied"]
    <2>1. /\ m \in Msgs /\ HasLock(w) /\ worker[w].at = "reworking" /\ Committed(w, m, r)
          /\ UNCHANGED <<alarm, asked, lost, runs>>
      BY <1>17 DEF CommitReworked, WorkerInv, HasLock, effects
    <2>2. /\ r \in Row /\ r.status = "applied" /\ r.linked = row[m].linked
          /\ r.version = row[m].version /\ r.action = row[m].action
      <3>1. row[m] \in Row
        BY <1>1, <2>1
      <3> HIDE DEF m
      <3> QED
        BY <3>1 DEF Row
    <2> HIDE DEF r
    <2>3. Commits(w) /\ Others(w) /\ Grows
      BY <1>13, <2>1, <2>2 DEF Commits, Keeps
    <2> QED
      BY <2>3 DEF Event
  <1>18. ASSUME NEW m \in Msgs, NEW r \in Row, r.status = "error", row' = [row EXCEPT ![m] = r],
                r.version = row[m].version, r.action = row[m].action, r.linked = row[m].linked
         PROVE  OtherRows(m) /\ Keeps(m) /\ row'[m].status = "error"
    BY <1>1, <1>18 DEF OtherRows, Keeps
  <1>19. ASSUME NEW m \in Msgs
         PROVE  LET r == [row[m] EXCEPT !.status = "error"]
                IN \A q \in {r, Tried(r)} :
                      /\ q \in Row /\ q.status = "error" /\ q.version = row[m].version
                      /\ q.action = row[m].action /\ q.linked = row[m].linked
    <2> DEFINE r == [row[m] EXCEPT !.status = "error"]
    <2>1. /\ r \in Row /\ r.status = "error" /\ r.version = row[m].version
          /\ r.action = row[m].action /\ r.linked = row[m].linked
      BY <1>1 DEF Row
    <2> HIDE DEF r
    <2>2. /\ Tried(r) \in Row /\ Tried(r).status = r.status /\ Tried(r).version = r.version
          /\ Tried(r).action = r.action /\ Tried(r).linked = r.linked
      BY <2>1, IngestBoundAssumption DEF Tried, Row
    <2> QED
      BY <2>1, <2>2 DEF r
  <1>20. ASSUME NEW w \in Worker, Fail(w) PROVE Goal
    <2> DEFINE m == worker[w].m
               r == [row[m] EXCEPT !.status = "error"]
    <2>1. m \in Msgs /\ HasLock(w) /\ Ends(w) /\ UNCHANGED <<alarm, asked, lost, runs>>
      BY <1>20 DEF Fail, WorkerInv, HasLock, effects
    <2>2. row' = [row EXCEPT ![m] = Tried(r)]
      BY <1>20 DEF Fail
    <2>3. OtherRows(m) /\ Keeps(m) /\ row'[m].status = "error"
      BY <1>18, <1>19, <2>1, <2>2
    <2>4. Fails(w)
      BY <1>4, <2>1, <2>3 DEF Fails
    <2> QED
      BY <1>4, <1>6, <2>1, <2>4 DEF Event
  <1>21. ASSUME NEW w \in Worker, Nachlauf(w) PROVE Goal
    <2>1. Runs(w) /\ Others(w) /\ worker'[w].snap = NoSnap
      BY <1>4, <1>21 DEF Nachlauf, Runs
    <2>2. asked' = asked /\ lost' = lost /\ (alarm => alarm')
      BY <1>21 DEF Nachlauf
    <2> QED
      BY <1>6, <2>1, <2>2 DEF Event
  <1>22. ASSUME NEW w \in Worker, Rework(w) PROVE Goal
    <2> DEFINE m == worker[w].m
    <2>1. /\ m \in Msgs /\ m \in asked /\ worker[w].at = "clicked" /\ ~Locked(m)
          /\ UNCHANGED <<alarm, asked, lost, runs>>
      BY <1>22 DEF Rework, WorkerInv, effects
    <2>2. CASE row[m].linked /\ UNCHANGED row
               /\ worker' = [worker EXCEPT ![w].at = "reworking", ![w].base = FreshRow(w)]
      <3>1. /\ Others(w) /\ worker'[w].at = "reworking" /\ worker'[w].m = m
            /\ worker'[w].snap = worker[w].snap
        BY <1>1, <1>2, <2>2 DEF Others, WorkerType
      <3>2. Locks(w)
        BY <2>1, <2>2, <3>1 DEF Locks, HasLock
      <3> QED
        BY <1>6, <2>1, <3>1, <3>2 DEF Event
    <2>3. CASE m \in Recorded /\ row' = [row EXCEPT ![m].status = "error"] /\ Ends(w)
      <3>1. row' = [row EXCEPT ![m] = [row[m] EXCEPT !.status = "error"]]
        BY <2>3
      <3>2. OtherRows(m) /\ Keeps(m) /\ row'[m].status = "error"
        BY <1>18, <1>19, <2>1, <3>1
      <3>3. Resets(w)
        BY <1>4, <2>1, <2>3, <3>2 DEF Resets
      <3> QED
        BY <1>4, <1>6, <2>1, <2>3, <3>3 DEF Event
    <2>4. CASE UNCHANGED row /\ Goes(w, "claimed")
      <3>1. /\ Others(w) /\ worker'[w].at = "claimed" /\ worker'[w].m = m
            /\ worker'[w].snap = worker[w].snap
        BY <1>5, <2>4 DEF Place
      <3>2. Locks(w)
        BY <2>1, <2>4, <3>1 DEF Locks, HasLock
      <3> QED
        BY <1>6, <2>1, <3>1, <3>2 DEF Event
    <2> QED
      BY <1>22, <2>2, <2>3, <2>4 DEF Rework
  <1>23. ASSUME NEW w \in Worker, Crash(w) PROVE Goal
    <2>1. Dies(w)
      BY <1>4, <1>23 DEF Crash, Dies
    <2>2. /\ Others(w) /\ worker'[w].snap = NoSnap /\ lost \subseteq lost'
          /\ UNCHANGED <<alarm, asked>>
      BY <1>4, <1>23 DEF Crash
    <2> QED
      BY <1>6, <2>1, <2>2 DEF Event
  <1>24. CASE CreatedElsewhere \/ Close \/ UNCHANGED vars
    <2>1. UNCHANGED <<row, worker, runs, asked, lost>> /\ (alarm => alarm')
      BY <1>24 DEF CreatedElsewhere, Close, vars, effects
    <2> QED
      BY <2>1 DEF Quiet, Grows
  <1> QED
    BY <1>7, <1>8, <1>9, <1>10, <1>11, <1>12, <1>14, <1>15, <1>16, <1>17, <1>20, <1>21, <1>22, <1>23,
       <1>24 DEF Next, Steps

-----------------------------------------------------------------------------
(* One winner of the claim. *)

Sole == \A v, w \in Worker : HasLock(v) /\ HasLock(w) /\ worker[v].m = worker[w].m => v = w
Due  == \A w \in Worker : HasLock(w) /\ worker[w].m \notin asked
                              => row[worker[w].m].status \in {"stored", "error"}

Applies(w, m) == worker[w].at = "applied" /\ worker[w].m = m
Fresh(m)      == runs[m] = 0 /\ \A w \in Worker : ~Applies(w, m)

\* Nobody has applied a row that can still be claimed, one worker applies one that
\* cannot, and then has its nachlauf ahead.
Unclaimed == \A m \in Msgs \ asked : row[m].status \in {"absent", "stored", "error"} => Fresh(m)
Winner    == \A m \in Msgs \ asked :
                /\ runs[m] <= 1
                /\ \A w \in Worker : Applies(w, m) => runs[m] = 0
                /\ \A v, w \in Worker : Applies(v, m) /\ Applies(w, m) => v = w

ClaimInv == Sole /\ Due /\ Unclaimed /\ Winner

\* At the start nobody has claimed anything.
LEMMA ClaimInit == Init => ClaimInv
  BY DEF Init, Idle, HasLock, Applies, Fresh, Sole, Due, Unclaimed, Winner, ClaimInv

\* Row locks and results keep a message with one worker, whatever the event.
LEMMA ClaimStep == TypeOK /\ WorkerInv /\ ClaimInv /\ [Next]_vars => ClaimInv'
  <1> SUFFICES ASSUME TypeOK, WorkerInv, ClaimInv, [Next]_vars PROVE ClaimInv'
    OBVIOUS
  <1>1. Grows /\ (Quiet \/ \E w \in Worker : Event(w))
    BY Events
  <1>2. asked \subseteq asked' /\ runs \in [Msgs -> Nat]
    BY <1>1 DEF Grows, TypeOK
  <1>3. \A v \in Worker : HasLock(v) => worker[v].m \in Msgs
    BY DEF WorkerInv, HasLock
  <1>4. CASE Quiet
    BY <1>2, <1>4 DEF Quiet, ClaimInv, Sole, Due, Unclaimed, Winner, Fresh, Applies, HasLock
  <1>5. ASSUME NEW w \in Worker, Event(w) PROVE ClaimInv'
    <2>1. Others(w)
      BY <1>5 DEF Event
    <2> DEFINE m == worker[w].m
    <2> USE <1>2, <1>3, <2>1 DEF ClaimInv, Others
    <2>2. CASE Moves(w)
      BY <2>2 DEF Moves, Sole, Due, Unclaimed, Winner, Fresh, Applies, HasLock
    <2>3. CASE Stores(w)
      <3>1. PICK k \in Msgs : /\ row[k].status = "absent" /\ OtherRows(k)
                              /\ row'[k].status \in {"logged", "stored"}
        BY <2>3 DEF Stores
      <3>2. Sole' /\ Due'
        BY <2>3, <3>1 DEF Stores, OtherRows, Sole, Due, HasLock
      <3>3. Unclaimed' /\ Winner'
        BY <2>3, <3>1 DEF Stores, OtherRows, Unclaimed, Winner, Fresh, Applies
      <3> QED
        BY <3>2, <3>3
    <2>4. CASE Marks(w)
      <3>1. m \in Msgs
        BY <2>4 DEF Marks, WorkerInv
      <3> QED
        <4>1. \A v \in Worker : HasLock(v) => worker[v].m # m /\ v # w
          BY <2>4 DEF Marks, Locked, HasLock
        <4>2. Sole' /\ Due'
          BY <2>4, <3>1, <4>1 DEF Marks, OtherRows, Sole, Due, HasLock
        <4>3. Unclaimed' /\ Winner'
          BY <2>4, <3>1 DEF Marks, OtherRows, Unclaimed, Winner, Fresh, Applies
        <4> QED
          BY <4>2, <4>3
    <2>5. CASE Locks(w)
      BY <2>5 DEF Locks, Locked, Sole, Due, Unclaimed, Winner, Fresh, Applies, HasLock
    <2>6. CASE Commits(w)
      <3>1. m \in Msgs
        BY <2>6 DEF Commits, HasLock, WorkerInv
      <3>2. /\ HasLock(w) /\ worker'[w].at = "applied" /\ worker'[w].m = m
            /\ OtherRows(m) /\ row'[m].status = "applied" /\ UNCHANGED runs
        BY <2>6 DEF Commits
      <3>3. Sole'
        BY <3>2 DEF Sole, HasLock
      <3>4. Due'
        BY <3>1, <3>2 DEF OtherRows, Sole, Due, HasLock
      <3>5. Unclaimed'
        BY <3>1, <3>2 DEF OtherRows, Unclaimed, Fresh, Applies
      <3>6. m \notin asked => Fresh(m)
        BY <3>1, <3>2 DEF Due, Unclaimed
      <3>7. Winner'
        BY <3>1, <3>2, <3>6 DEF Winner, Fresh, Applies
      <3> QED
        BY <3>3, <3>4, <3>5, <3>7
    <2>7. CASE Fails(w)
      <3>1. m \in Msgs
        BY <2>7 DEF Fails, HasLock, WorkerInv
      <3>2. Sole' /\ Due'
        BY <2>7, <3>1 DEF Fails, OtherRows, Sole, Due, HasLock
      <3>3. Unclaimed' /\ Winner'
        BY <2>7, <3>1 DEF Fails, OtherRows, Due, Unclaimed, Winner, Fresh, Applies
      <3> QED
        BY <3>2, <3>3
    <2>8. CASE Resets(w)
      <3>1. m \in Msgs /\ m \in asked
        BY <2>8 DEF Resets, WorkerInv
      <3> QED
        <4>1. \A v \in Worker : HasLock(v) => worker[v].m # m /\ v # w
          BY <2>8 DEF Resets, Locked, HasLock
        <4>2. Sole' /\ Due'
          BY <2>8, <3>1, <4>1 DEF Resets, OtherRows, Sole, Due, HasLock
        <4>3. Unclaimed' /\ Winner'
          BY <2>8, <3>1 DEF Resets, OtherRows, Unclaimed, Winner, Fresh, Applies
        <4> QED
          BY <4>2, <4>3
    <2>9. CASE Runs(w)
      <3>1. m \in Msgs /\ Applies(w, m) /\ worker'[w].at = "idle"
        BY <2>9 DEF Runs, WorkerInv, Applies
      <3>2. /\ \A k \in Msgs \ {m} : runs'[k] = runs[k]
            /\ runs'[m] \in {runs[m], runs[m] + 1}
        BY <2>9, <3>1 DEF Runs
      <3>3. UNCHANGED row
        BY <2>9 DEF Runs
      <3>4. Sole' /\ Due'
        BY <3>1, <3>3 DEF Sole, Due, HasLock
      <3>5. Unclaimed' /\ Winner'
        BY <3>1, <3>2, <3>3 DEF Unclaimed, Winner, Fresh, Applies
      <3> QED
        BY <3>4, <3>5
    <2>10. CASE Dies(w)
      BY <2>10 DEF Dies, Sole, Due, Unclaimed, Winner, Fresh, Applies, HasLock
    <2> QED
      BY <1>5, <2>2, <2>3, <2>4, <2>5, <2>6, <2>7, <2>8, <2>9, <2>10 DEF Event
  <1> QED
    BY <1>1, <1>4, <1>5

\* The nachlauf, which alarms the crew, runs once per message, whoever delivers it
\* again, recovers it or dies; only a message that an administrator had processed
\* again may run it twice (process_ingest, the conditional UPDATE).
THEOREM NachlaufOnceHolds == Spec => []NachlaufOnce
  <1> DEFINE Inv == TypeOK /\ WorkerInv /\ ClaimInv
  <1>1. Init => Inv
    BY InitTyped, ClaimInit
  <1>2. Inv /\ [Next]_vars => Inv'
    BY StepTyped, ClaimStep
  <1>3. Inv => NachlaufOnce
    BY DEF ClaimInv, Winner, NachlaufOnce
  <1> QED
    BY <1>1, <1>2, <1>3, PTL DEF Spec

-----------------------------------------------------------------------------
(* Applied messages and the first alarm. *)

Numbered == \A m \in Msgs : row[m].status = "applied" => row[m].version > 0

\* What a transaction has read about versions is still so.
ReadTruly ==
    \A w \in Worker, m \in Msgs :
        LET old == worker[w].snap.row[m]
        IN /\ old.status = "applied" => old.version > 0
           /\ old.version > 0 => row[m].version > 0

Raised == alarm \/ OnItsWay \/ \E m \in Msgs : Relabelled(m)

\* A row has a version once somebody had the first alarm to raise.
RaisedInv ==
    asked = {} => /\ Numbered /\ ReadTruly
                  /\ lost = {} /\ (\E m \in Msgs : row[m].version > 0) => Raised

\* At the start there is no version, and so no alarm due.
LEMMA RaisedInit == Init => RaisedInv
  BY DEF Init, NoRow, Idle, NoSnap, RaisedInv, Numbered, ReadTruly

\* Without a person's request versions only grow, and what a transaction has read of them stays true.
LEMMA NumberedStep ==
    ASSUME TypeOK, WorkerInv, ClaimInv, RaisedInv, [Next]_vars, asked' = {}
    PROVE  Numbered' /\ ReadTruly' /\ \A m \in Msgs : row[m].version > 0 => row'[m].version > 0
  <1>1. Grows /\ (Quiet \/ \E w \in Worker : Event(w))
    BY Events
  <1>2. asked = {} /\ Numbered /\ ReadTruly
    BY <1>1 DEF Grows, RaisedInv
  <1>3. Numbered' /\ \A m \in Msgs : row[m].version > 0 => row'[m].version > 0
    <2>1. CASE UNCHANGED row
      BY <1>2, <2>1 DEF Numbered
    <2>2. ASSUME NEW m \in Msgs, OtherRows(m), row'[m].version = row[m].version, row'[m].status # "applied"
          PROVE  Numbered' /\ \A k \in Msgs : row[k].version > 0 => row'[k].version > 0
      BY <1>2, <2>2 DEF OtherRows, Numbered
    <2>3. ASSUME NEW m \in Msgs, OtherRows(m), row'[m].version > 0
          PROVE  Numbered' /\ \A k \in Msgs : row[k].version > 0 => row'[k].version > 0
      BY <1>2, <2>3 DEF OtherRows, Numbered
    <2>4. ASSUME NEW w \in Worker, Event(w)
          PROVE  \/ UNCHANGED row
                 \/ \E m \in Msgs : OtherRows(m) /\ \/ row'[m].version = row[m].version /\ row'[m].status # "applied"
                                                    \/ row'[m].version > 0
      <3>1. CASE Moves(w) \/ Locks(w) \/ Runs(w) \/ Dies(w)
        BY <3>1 DEF Moves, Locks, Runs, Dies
      <3>2. CASE Stores(w)
        <4>1. PICK m \in Msgs : /\ row'[m].version = row[m].version /\ OtherRows(m)
                                /\ row'[m].status \in {"logged", "stored"}
          BY <3>2 DEF Stores, Keeps
        <4> QED
          BY <4>1
      <3>3. CASE Marks(w) \/ Fails(w) \/ Resets(w)
        <4>1. worker[w].m \in Msgs
          BY <3>3 DEF Marks, Fails, Resets, HasLock, WorkerInv
        <4>2. /\ OtherRows(worker[w].m) /\ row'[worker[w].m].version = row[worker[w].m].version
              /\ row'[worker[w].m].status \in {"logged", "error"}
          BY <3>3 DEF Marks, Fails, Resets, Keeps
        <4> QED
          BY <4>1, <4>2
      <3>4. CASE Commits(w)
        <4>1. worker[w].m \in Msgs /\ worker[w].at # "reworking"
          BY <1>2, <3>4 DEF Commits, HasLock, WorkerInv
        <4> DEFINE v == row'[worker[w].m].version
        <4>2. /\ OtherRows(worker[w].m)
              /\ \/ v = 1 \/ v = 2
                 \/ \E o \in Msgs : worker[w].snap.row[o].status = "applied"
                                   /\ v = worker[w].snap.row[o].version
          BY <3>4, <4>1 DEF Commits
        <4> HIDE DEF v
        <4>3. v > 0
          BY <1>2, <4>2 DEF ReadTruly
        <4> QED
          BY <4>1, <4>2, <4>3 DEF v
      <3> QED
        BY <2>4, <3>1, <3>2, <3>3, <3>4 DEF Event
    <2> QED
      BY <1>1, <2>1, <2>2, <2>3, <2>4 DEF Quiet
  <1>4. ReadTruly'
    <2> SUFFICES ASSUME NEW w \in Worker, NEW m \in Msgs
                 PROVE  LET old == worker'[w].snap.row[m]
                        IN /\ old.status = "applied" => old.version > 0
                           /\ old.version > 0 => row'[m].version > 0
      BY DEF ReadTruly
    <2>1. CASE worker'[w].snap = worker[w].snap
      BY <1>2, <1>3, <2>1 DEF ReadTruly
    <2>2. CASE worker'[w].snap = Snapshot
      BY <1>2, <1>3, <2>2 DEF Snapshot, Numbered
    <2>3. CASE worker'[w].snap = NoSnap
      BY <2>3 DEF NoSnap, NoRow
    <2> QED
      BY <1>1, <2>1, <2>2, <2>3 DEF Grows
  <1> QED
    BY <1>3, <1>4

\* Without a request and without a crash the alarm of the first version stays raised or on its way.
LEMMA RaisedStep == TypeOK /\ WorkerInv /\ ClaimInv /\ RaisedInv /\ [Next]_vars => RaisedInv'
  <1> SUFFICES ASSUME TypeOK, WorkerInv, ClaimInv, RaisedInv, [Next]_vars, asked' = {}, lost' = {},
                      NEW n \in Msgs, row'[n].version > 0
               PROVE  Raised'
    BY NumberedStep DEF RaisedInv
  <1>1. Grows /\ (Quiet \/ \E w \in Worker : Event(w))
    BY Events
  <1>2. asked = {} /\ lost = {} /\ Numbered /\ ReadTruly
    BY <1>1 DEF Grows, RaisedInv
  <1>3. alarm => alarm'
    BY <1>1 DEF Grows
  <1>4. ASSUME NEW m \in Msgs, row[m].version > 0 PROVE Raised
    BY <1>2, <1>4 DEF RaisedInv
  <1>5. ASSUME NEW w \in Worker, Event(w) PROVE Raised'
    <2> DEFINE m == worker[w].m
    <2>1. Others(w)
      BY <1>5 DEF Event
    \* What announced the alarm still does so when the row in hand was not applied.
    <2>2. ASSUME Raised, NEW k \in Msgs, OtherRows(k), row[k].status \notin {"applied", "logged"},
                 worker[w].at # "applied"
          PROVE  Raised'
      <3>1. CASE alarm
        BY <1>3, <3>1 DEF Raised
      <3>2. ASSUME NEW v \in Worker, worker[v].at = "applied", Alarms(row[worker[v].m]) PROVE Raised'
        <4>1. worker[v].m \in Msgs /\ worker[v].m # k /\ v # w
          BY <2>2, <3>2 DEF WorkerInv, Alarms
        <4>2. worker'[v] = worker[v] /\ row'[worker[v].m] = row[worker[v].m]
          BY <2>1, <2>2, <4>1 DEF Others, OtherRows
        <4> QED
          BY <3>2, <4>2 DEF Raised, OnItsWay, Alarms
      <3>3. ASSUME NEW o \in Msgs, Relabelled(o) PROVE Raised'
        BY <2>2, <3>3 DEF Relabelled, OtherRows, Raised
      <3> QED
        BY <2>2, <3>1, <3>2, <3>3 DEF Raised, OnItsWay
    <2>3. ASSUME Raised, UNCHANGED row, worker[w].at # "applied" PROVE Raised'
      BY <1>3, <2>1, <2>3 DEF Raised, OnItsWay, Others, Relabelled, Alarms
    <2>4. CASE Moves(w) \/ Locks(w)
      BY <1>4, <2>3, <2>4 DEF Moves, Locks
    <2>5. CASE Dies(w)
      BY <1>2, <1>4, <2>3, <2>5 DEF Dies
    <2>6. CASE Stores(w)
      <3>1. PICK k \in Msgs : row[k].status = "absent" /\ Keeps(k) /\ OtherRows(k)
        BY <2>6 DEF Stores
      <3>2. row[n].version > 0
        BY <3>1 DEF Keeps, OtherRows
      <3> QED
        BY <1>4, <2>2, <2>6, <3>1, <3>2 DEF Stores
    <2>7. CASE Fails(w)
      <3>1. m \in Msgs /\ row[m].status \in {"stored", "error"} /\ worker[w].at # "applied"
        BY <1>2, <2>7 DEF Fails, HasLock, WorkerInv, ClaimInv, Due
      <3>2. Keeps(m) /\ OtherRows(m)
        BY <2>7 DEF Fails
      <3>3. row[n].version > 0
        BY <3>2 DEF Keeps, OtherRows
      <3> QED
        BY <1>4, <2>2, <3>1, <3>2, <3>3
    <2>8. CASE Resets(w)
      BY <1>2, <2>8 DEF Resets, WorkerInv
    <2>9. CASE Marks(w)
      <3>1. m \in Msgs /\ OtherRows(m) /\ row'[m].status = "logged" /\ row'[m].version = row[m].version
        BY <2>9 DEF Marks, WorkerInv
      <3>2. row[n].version > 0
        BY <3>1 DEF OtherRows
      <3>3. CASE row[m].version > 0
        BY <3>1, <3>3 DEF Raised, Relabelled
      <3>4. CASE ~(row[m].version > 0)
        <4>1. row[m].status # "applied"
          BY <1>2, <3>1, <3>4 DEF Numbered
        <4>2. Raised
          BY <1>4, <3>2
        <4>3. CASE alarm
          BY <1>3, <4>3 DEF Raised
        <4>4. ASSUME NEW v \in Worker, worker[v].at = "applied", Alarms(row[worker[v].m]) PROVE Raised'
          <5>1. worker[v].m \in Msgs /\ worker[v].m # m /\ v # w
            BY <2>9, <4>1, <4>4 DEF WorkerInv, Alarms, Marks
          <5>2. worker'[v] = worker[v] /\ row'[worker[v].m] = row[worker[v].m]
            BY <2>1, <3>1, <5>1 DEF Others, OtherRows
          <5> QED
            BY <4>4, <5>2 DEF Raised, OnItsWay, Alarms
        <4>5. ASSUME NEW o \in Msgs, Relabelled(o) PROVE Raised'
          BY <3>1, <3>4, <4>5 DEF Relabelled, OtherRows, Raised
        <4> QED
          BY <4>2, <4>3, <4>4, <4>5 DEF Raised, OnItsWay
      <3> QED
        BY <3>3, <3>4
    <2>10. CASE Commits(w)
      <3>1. m \in Msgs /\ row[m].status \in {"stored", "error"} /\ worker[w].at \notin {"applied", "reworking"}
        BY <1>2, <2>10 DEF Commits, HasLock, WorkerInv, ClaimInv, Due
      <3>2. OtherRows(m) /\ row'[m].status = "applied" /\ worker'[w].at = "applied" /\ worker'[w].m = m
        BY <2>10 DEF Commits
      <3>3. CASE row'[m].action = "created" \/ (row'[m].action = "merged" /\ row'[m].version = 1)
        <4>1. Alarms(row'[m])
          BY <3>2, <3>3 DEF Alarms
        <4>2. Alarms(row[worker[w].m])'
          BY <3>2, <4>1 DEF Alarms
        <4> QED
          BY <3>2, <4>2 DEF Raised, OnItsWay
      <3>4. CASE \E o \in Msgs : worker[w].snap.row[o].version > 0
        <4>1. Raised
          BY <1>2, <1>4, <3>4 DEF ReadTruly
        <4> QED
          BY <2>2, <3>1, <3>2, <4>1
      <3>5. CASE \E o \in Msgs : worker[w].snap.row[o].status = "applied"
        BY <1>2, <3>4, <3>5 DEF ReadTruly
      <3> QED
        BY <2>10, <3>1, <3>3, <3>4, <3>5 DEF Commits
    <2>11. CASE Runs(w)
      <3>1. UNCHANGED row
        BY <2>11 DEF Runs
      <3>2. CASE Alarms(row[m])
        <4>1. MayAlarm(w)
          BY <1>2 DEF MayAlarm, WorkerInv
        <4> QED
          BY <2>11, <3>2, <4>1 DEF Runs, Raised
      <3>3. CASE ~Alarms(row[m])
        <4>1. Raised
          BY <1>4, <3>1
        <4>2. ASSUME NEW v \in Worker, worker[v].at = "applied", Alarms(row[worker[v].m]) PROVE Raised'
          <5>1. worker'[v] = worker[v]
            BY <2>1, <3>3, <4>2 DEF Others
          <5> QED
            BY <3>1, <4>2, <5>1 DEF Raised, OnItsWay, Alarms
        <4> QED
          BY <1>3, <3>1, <4>1, <4>2 DEF Raised, OnItsWay, Relabelled
      <3> QED
        BY <3>2, <3>3
    <2> QED
      BY <1>5, <2>4, <2>5, <2>6, <2>7, <2>8, <2>9, <2>10, <2>11 DEF Event
  <1>6. CASE Quiet
    <2>1. Raised
      BY <1>4, <1>6 DEF Quiet
    <2> QED
      BY <1>3, <1>6, <2>1 DEF Quiet, Raised, OnItsWay, Relabelled, Alarms
  <1> QED
    BY <1>1, <1>5, <1>6

\* No alarm is swallowed: whoever applies a message, however the deliveries, the recovery
\* and failures interleave, the first alarm is in the outbox or a worker has yet to run the nachlauf
\* (process_ingest, nachlauf, recover_stored).  What breaks it are the three cases the
\* property names.
THEOREM AlarmIsRaisedHolds == Spec => []AlarmIsRaised
  <1> DEFINE Inv == TypeOK /\ WorkerInv /\ ClaimInv /\ RaisedInv
  <1>1. Init => Inv
    BY InitTyped, ClaimInit, RaisedInit
  <1>2. Inv /\ [Next]_vars => Inv'
    BY StepTyped, ClaimStep, RaisedStep
  <1>3. Inv => AlarmIsRaised
    BY DEF RaisedInv, Numbered, Raised, AlarmIsRaised
  <1> QED
    BY <1>1, <1>2, <1>3, PTL DEF Spec

-----------------------------------------------------------------------------
(* Agents in mode "alarmquelle" only. *)

BelongsInv == /\ \A m \in Msgs : row[m].status \in {"applied", "logged"} => row[m].linked
              /\ \A w \in Worker : worker[w].at = "reworking" => row[worker[w].m].linked

\* With every agent in mode "alarmquelle" no event leaves a row without its incident.
LEMMA BelongsStep ==
    ASSUME Recorded = {}, TypeOK, WorkerInv, BelongsInv, [Next]_vars
    PROVE  BelongsInv'
  <1>1. Quiet \/ \E w \in Worker : Event(w)
    BY Events
  <1>2. \A w \in Worker : worker[w].at = "reworking" => worker[w].m \in Msgs /\ row[worker[w].m].linked
    BY DEF BelongsInv, WorkerInv
  <1>3. CASE Quiet
    BY <1>3 DEF Quiet, BelongsInv
  <1>4. ASSUME NEW w \in Worker, Event(w) PROVE BelongsInv'
    <2> DEFINE m == worker[w].m
    <2>1. Others(w)
      BY <1>4 DEF Event
    <2>2. ASSUME NEW k \in Msgs, OtherRows(k), row[k].linked => row'[k].linked,
                 row'[k].status \in {"applied", "logged"} => row'[k].linked, worker'[w].at # "reworking"
          PROVE  BelongsInv'
      <3>1. \A o \in Msgs : row[o].linked => row'[o].linked
        BY <2>2 DEF OtherRows
      <3> QED
        BY <1>2, <2>1, <2>2, <3>1 DEF BelongsInv, Others, OtherRows
    <2>3. CASE Moves(w) \/ Locks(w) \/ Runs(w) \/ Dies(w)
      <3>1. UNCHANGED row
        BY <2>3 DEF Moves, Locks, Runs, Dies
      <3>2. worker'[w].at = "reworking" => row[worker'[w].m].linked
        BY <1>2, <2>3 DEF Moves, Locks, Runs, Dies, HasLock
      <3> QED
        BY <2>1, <3>1, <3>2 DEF BelongsInv, Others
    <2>4. CASE Stores(w)
      <3>1. PICK k \in Msgs : Keeps(k) /\ OtherRows(k) /\ row'[k].status = "stored"
        BY <2>4 DEF Stores
      <3> QED
        BY <2>2, <2>4, <3>1 DEF Stores, Keeps
    <2>5. CASE Fails(w)
      <3>1. m \in Msgs
        BY <2>5 DEF Fails, HasLock, WorkerInv
      <3> QED
        BY <2>2, <2>5, <3>1 DEF Fails, Keeps
    <2>6. CASE Marks(w)
      <3>1. m \in Msgs /\ OtherRows(m) /\ worker'[w].at = "idle"
        BY <2>6 DEF Marks, WorkerInv
      <3>2. row'[m].linked
        <4>1. PICK o \in Repeats(m) : row'[m].linked = row[o].linked
          BY <2>6 DEF Marks
        <4>2. row[o].linked
          BY MessageAssumption DEF Repeats, BelongsInv
        <4> QED
          BY <4>1, <4>2
      <3> QED
        BY <2>2, <3>1, <3>2
    <2>7. CASE Commits(w)
      <3>1. m \in Msgs
        BY <2>7 DEF Commits, HasLock, WorkerInv
      <3>2. row'[m].linked
        BY <1>2, <2>7 DEF Commits, Keeps
      <3> QED
        BY <2>2, <2>7, <3>1, <3>2 DEF Commits
    <2> QED
      BY <1>4, <2>3, <2>4, <2>5, <2>6, <2>7 DEF Event, Resets
  <1> QED
    BY <1>1, <1>3, <1>4

\* Where every agent is in mode "alarmquelle", no ELVis event is only recorded: what a
\* duplicate repeats belongs to an incident (verarbeite_elvis_event).  With an agent in
\* another mode the property fails.
THEOREM NothingSwallowedHolds ==
    ASSUME AlarmSource = Elvis
    PROVE  Spec => []NothingSwallowed
  <1> DEFINE Inv == TypeOK /\ WorkerInv /\ BelongsInv
  <1>1. Recorded = {}
    BY DEF Recorded
  <1>2. Init => Inv
    <2>1. Init => BelongsInv
      BY DEF Init, NoRow, Idle, BelongsInv
    <2> QED
      BY <2>1, InitTyped
  <1>3. Inv /\ [Next]_vars => Inv'
    BY <1>1, StepTyped, BelongsStep
  <1>4. Inv => NothingSwallowed
    BY DEF BelongsInv, NothingSwallowed
  <1> QED
    BY <1>2, <1>3, <1>4, PTL DEF Spec

-----------------------------------------------------------------------------
(* Codes and follow-up alarms. *)

Created(m) == row[m].action = "created"

\* Whoever sees the row of the field "codes" sees the codes of the first message.
Carries(i) == "codes" \in i.fields => \A m \in Msgs : Created(m) => CodesOf[TextOf[m]] \subseteq i.codes

Alerted  == \A c \in Code : /\ follow[c] <= 1
                            /\ follow[c] > 0 => inc.there
                            /\ follow[c] > 0 => \A m \in Msgs : Created(m) => c \notin CodesOf[TextOf[m]]
Views    == \A w \in Worker : Carries(worker[w].snap.inc) /\ Carries(worker[w].base)
Known    == Carries(inc) /\ ((\E m \in Msgs : Created(m)) => "codes" \in inc.fields)
Nothing  == ~inc.there => /\ inc.fields = {}
                          /\ \A m \in Msgs : ~row[m].linked
                          /\ \A w \in Worker : /\ worker[w].snap.inc.fields = {} /\ worker[w].base.fields = {}
                                               /\ ~worker[w].snap.inc.there
                                               /\ worker[w].at \notin {"merging", "reworking"}
Creating == /\ \A w \in Worker : worker[w].at = "creating" => ~inc.there
            /\ \A v, w \in Worker : worker[v].at = "creating" /\ worker[w].at = "creating" => v = w

FollowInv == Alerted /\ Views /\ Known /\ Nothing /\ Creating

\* At the start there is no incident, and so no field, view or follow-up.
LEMMA FollowInit == Init => FollowInv
  <1> SUFFICES ASSUME Init PROVE FollowInv
    OBVIOUS
  <1>1. /\ inc.fields = {} /\ \A m \in Msgs : ~Created(m) /\ ~row[m].linked
        /\ \A c \in Code : follow[c] = 0
    <2>1. NoIncident.fields = {} /\ NoRow.action = None /\ ~NoRow.linked
      BY DEF NoIncident, NoRow
    <2>2. None # "created"
      BY MessageAssumption
    <2> QED
      BY <2>1, <2>2 DEF Init, Created
  <1>2. \A w \in Worker : /\ worker[w].at = "idle" /\ ~worker[w].snap.inc.there
                          /\ worker[w].snap.inc.fields = {} /\ worker[w].base.fields = {}
    BY DEF Init, Idle, NoSnap, NoIncident
  <1>3. Alerted /\ Known
    BY <1>1 DEF Alerted, Known, Carries
  <1>4. Views /\ Nothing /\ Creating
    BY <1>1, <1>2 DEF Views, Nothing, Creating, Carries
  <1> QED
    BY <1>3, <1>4 DEF FollowInv

\* A step that only looks at the incident.
Looks(w) ==
    /\ Others(w) /\ UNCHANGED <<inc, follow>>
    /\ \A m \in Msgs : /\ Created(m)' => Created(m)
                       /\ row'[m].linked => inc.there \/ \E o \in Msgs : row[o].linked
    /\ worker'[w].snap.inc \in {worker[w].snap.inc, inc, NoIncident}
    /\ worker'[w].base \in {worker[w].base, worker[w].snap.inc, FreshRow(w), NoIncident}
    /\ worker'[w].at = "creating" => \/ worker[w].at = "creating"
                                     \/ ~inc.there /\ \A v \in Worker : worker[v].at # "creating"
    /\ worker'[w].at \in {"merging", "reworking"} =>
          \/ inc.there \/ worker[w].snap.inc.there \/ worker[w].at \in {"merging", "reworking"}
          \/ worker[w].m \in Msgs /\ row[worker[w].m].linked

\* A worker that only looks, claims or gives up changes nothing the follow-ups depend on.
LEMMA LooksStep ==
    ASSUME TypeOK, FollowInv, NEW w \in Worker, Looks(w)
    PROVE  FollowInv'
  <1> USE DEF FollowInv
  <1>1. /\ \A v \in Worker \ {w} : worker'[v] = worker[v]
        /\ inc' = inc /\ follow' = follow
        /\ \A m \in Msgs : Created(m)' => Created(m)
        /\ worker'[w].snap.inc \in {worker[w].snap.inc, inc, NoIncident}
        /\ worker'[w].base \in {worker[w].base, worker[w].snap.inc, FreshRow(w), NoIncident}
    BY DEF Looks, Others
  <1>2. NoIncident.fields = {} /\ ~NoIncident.there
    BY DEF NoIncident
  <1>3. FreshRow(w).fields = worker[w].snap.inc.fields /\ FreshRow(w).codes = worker[w].snap.inc.codes
    BY DEF FreshRow, TypeOK, Incident
  <1>4. Alerted'
    BY <1>1 DEF Alerted
  <1>6. Views'
    <2> SUFFICES ASSUME NEW v \in Worker PROVE (Carries(worker[v].snap.inc) /\ Carries(worker[v].base))'
      BY DEF Views
    <2>1. Carries(worker[w].snap.inc) /\ Carries(worker[w].base) /\ Carries(inc)
      BY DEF Views, Known
    <2>2. Carries(NoIncident)
      BY <1>2 DEF Carries
    <2>3. Carries(FreshRow(w))
      BY <1>3, <2>1 DEF Carries
    <2>4. CASE v = w
      <3>1. Carries(worker'[w].snap.inc) /\ Carries(worker'[w].base)
        BY <1>1, <2>1, <2>2, <2>3
      <3> QED
        BY <1>1, <2>4, <3>1 DEF Carries
    <2>5. CASE v # w
      <3>1. Carries(worker[v].snap.inc) /\ Carries(worker[v].base)
        BY DEF Views
      <3> QED
        BY <1>1, <2>5, <3>1 DEF Carries
    <2> QED
      BY <2>4, <2>5
  <1>7. Known'
    BY <1>1 DEF Known, Carries
  <1>8. Nothing'
    <2> SUFFICES ASSUME ~inc.there PROVE Nothing'
      BY <1>1 DEF Nothing
    <2>1. \A m \in Msgs : ~row'[m].linked
      BY DEF Nothing, Looks
    <2>2. worker'[w].snap.inc.fields = {} /\ worker'[w].base.fields = {} /\ ~worker'[w].snap.inc.there
      BY <1>1, <1>2, <1>3 DEF Nothing
    <2>3. worker'[w].at \notin {"merging", "reworking"}
      BY DEF Nothing, Looks
    <2> QED
      BY <1>1, <2>1, <2>2, <2>3 DEF Nothing
  <1>9. Creating'
    BY <1>1 DEF Creating, Looks
  <1> QED
    BY <1>4, <1>6, <1>7, <1>8, <1>9

\* A worker of its own moves on, and its row at most.
LEMMA Looking ==
    ASSUME TypeOK, WorkerInv, NEW w \in Worker,
           \/ \E m \in Msgs : Store(w, m) \/ Recover(w, m) \/ Click(w, m)
           \/ ElvisDedup(w) \/ Open(w) \/ Claim(w) \/ Match(w) \/ Insert(w) \/ CommitDuplicate(w)
           \/ Fail(w) \/ Nachlauf(w) \/ Rework(w) \/ Crash(w),
           worker[w].at = "merging" => inc.there
    PROVE  Looks(w)
  <1>1. row \in [Msgs -> Row] /\ worker \in [Worker -> WorkerType] /\ worker[w] \in WorkerType
    BY DEF TypeOK, WorkerType
  <1>2. Idle.at = "idle" /\ Idle.snap.inc = NoIncident /\ Idle.base = NoIncident
    BY DEF Idle, NoSnap
  <1>3. Snapshot.inc = inc /\ NoSnap.inc = NoIncident
    BY DEF Snapshot, NoSnap
  <1> DEFINE Hand == /\ Others(w)
                     /\ worker'[w].snap.inc \in {worker[w].snap.inc, inc, NoIncident}
                     /\ worker'[w].base \in {worker[w].base, worker[w].snap.inc, FreshRow(w), NoIncident}
             Rows == \A m \in Msgs : /\ Created(m)' => Created(m)
                                     /\ row'[m].linked => inc.there \/ \E o \in Msgs : row[o].linked
  <1>4. UNCHANGED row => Rows
    BY DEF Created
  <1>5. ASSUME NEW m \in Msgs, NEW r \in Row, row' = [row EXCEPT ![m] = r] \/ row' = [row EXCEPT ![m] = Tried(r)],
               r.action = "created" => Created(m),
               r.linked => inc.there \/ \E o \in Msgs : row[o].linked
        PROVE  Rows
    <2>1. Tried(r).action = r.action /\ Tried(r).linked = r.linked
      BY DEF Tried, Row
    <2> QED
      BY <1>1, <1>5, <2>1 DEF Created
  <1>6. Ends(w) => Hand /\ worker'[w].at = "idle"
    BY <1>1, <1>2 DEF Ends, Others
  <1>7. ASSUME NEW at \in Place, Goes(w, at) PROVE Hand /\ worker'[w].at = at
    BY <1>1, <1>7 DEF Goes, Others, WorkerType
  <1>8. ASSUME NEW m \in Msgs, Store(w, m) PROVE Looks(w)
    <2>1. Hand /\ worker'[w].at = "stored"
      BY <1>1, <1>2, <1>8 DEF Store, Others, Idle, NoSnap
    <2> DEFINE st == IF m \in Recorded THEN "logged" ELSE "stored"
               r == [row[m] EXCEPT !.status = st]
    <2>2. r \in Row /\ r.action = row[m].action /\ r.linked = row[m].linked
      <3>1. row[m] \in Row
        BY <1>1
      <3> QED
        BY <3>1 DEF Row
    <2>3. row' = [row EXCEPT ![m] = r]
      BY <1>8 DEF Store
    <2> HIDE DEF r
    <2>4. Rows
      BY <1>5, <2>2, <2>3 DEF Created
    <2> QED
      BY <1>8, <2>1, <2>4 DEF Store, Looks, effects
  <1>9. ASSUME NEW m \in Msgs, Recover(w, m) \/ Click(w, m) PROVE Looks(w)
    <2>1. Hand /\ worker'[w].at \in {"open", "clicked"}
      <3>1. PICK r \in {[Idle EXCEPT !.at = "open", !.m = m, !.snap = Snapshot],
                        [Idle EXCEPT !.at = "clicked", !.m = m, !.snap = Snapshot, !.manual = TRUE]} :
               worker' = [worker EXCEPT ![w] = r]
        BY <1>9 DEF Recover, Click
      <3>2. r.at \in {"open", "clicked"} /\ r.snap = Snapshot /\ r.base = NoIncident
        BY <3>1 DEF Idle
      <3> HIDE DEF Idle
      <3> QED
        BY <1>1, <1>3, <3>1, <3>2 DEF Others
    <2> QED
      BY <1>4, <1>9, <2>1 DEF Recover, Click, Looks, effects
  <1>10. ASSUME ElvisDedup(w) PROVE Looks(w)
    <2> DEFINE m == worker[w].m
    <2>1. Hand /\ worker'[w].at \in {"idle", "deduped"}
      BY <1>6, <1>7, <1>10 DEF ElvisDedup, Place
    <2>2. CASE \E o \in Repeats(m) :
                  row' = [row EXCEPT ![m] = [@ EXCEPT !.status = "logged", !.action = "duplicate",
                                                      !.linked = row[o].linked]]
      <3>1. PICK o \in Repeats(m) :
                  row' = [row EXCEPT ![m] = [row[m] EXCEPT !.status = "logged", !.action = "duplicate",
                                                           !.linked = row[o].linked]]
        BY <2>2
      <3> DEFINE l == row[o].linked
                 r == [row[m] EXCEPT !.status = "logged", !.action = "duplicate", !.linked = l]
      <3>2. m \in Msgs /\ o \in Msgs
        BY <1>10, MessageAssumption DEF ElvisDedup, WorkerInv, Repeats
      <3>3. r \in Row /\ r.action = "duplicate" /\ r.linked = l
        <4>1. row[m] \in Row /\ l \in BOOLEAN
          BY <1>1, <3>2 DEF Row
        <4> HIDE DEF m, l
        <4> QED
          BY <4>1 DEF Row
      <3>4. row' = [row EXCEPT ![m] = r]
        BY <3>1
      <3> HIDE DEF r
      <3>5. Rows
        BY <1>5, <3>2, <3>3, <3>4
      <3> QED
        BY <1>10, <2>1, <3>5 DEF ElvisDedup, Looks, effects
    <2>3. CASE UNCHANGED row
      BY <1>4, <1>10, <2>1, <2>3 DEF ElvisDedup, Looks, effects
    <2> QED
      BY <1>10, <2>2, <2>3 DEF ElvisDedup
  <1>11. ASSUME Open(w) PROVE Looks(w)
    <2>1. Hand /\ worker'[w].at = "open"
      BY <1>1, <1>3, <1>11 DEF Open, Others, WorkerType
    <2> QED
      BY <1>4, <1>11, <2>1 DEF Open, Looks, effects
  <1>12. ASSUME Claim(w) PROVE Looks(w)
    <2>1. Hand /\ worker'[w].at \in {"idle", "claimed"}
      BY <1>6, <1>7, <1>12 DEF Claim, Place
    <2> QED
      BY <1>4, <1>12, <2>1 DEF Claim, Looks, effects
  <1>13. ASSUME Match(w) PROVE Looks(w)
    <2>1. Hand /\ worker'[w].at = "merging" /\ worker[w].snap.inc.there
      BY <1>1, <1>13 DEF Match, Others, WorkerType
    <2> QED
      BY <1>4, <1>13, <2>1 DEF Match, Looks, effects
  <1>14. ASSUME Insert(w) PROVE Looks(w)
    <2>1. CASE inc.there /\ worker' = [worker EXCEPT ![w].at = "merging", ![w].base = FreshRow(w)]
      <3>1. Hand /\ worker'[w].at = "merging"
        BY <1>1, <2>1 DEF Others, WorkerType
      <3> QED
        BY <1>4, <1>14, <2>1, <3>1 DEF Insert, Looks, effects
    <2>2. CASE ~inc.there /\ Goes(w, "creating")
      <3>1. Hand /\ worker'[w].at = "creating"
        BY <1>7, <2>2 DEF Place
      <3> QED
        BY <1>4, <1>14, <2>2, <3>1 DEF Insert, Looks, effects
    <2> QED
      BY <1>14, <2>1, <2>2 DEF Insert
  <1>15. ASSUME CommitDuplicate(w) PROVE Looks(w)
    <2> DEFINE m == worker[w].m
    <2>1. m \in Msgs /\ inc.there
      BY <1>15 DEF CommitDuplicate, WorkerInv
    <2>2. PICK o \in Originals(w, m) :
             Committed(w, m, [row[m] EXCEPT !.status = "applied", !.linked = TRUE,
                                 !.version = worker[w].snap.row[o].version, !.action = "duplicate"])
      BY <1>15 DEF CommitDuplicate
    <2> DEFINE n == worker[w].snap.row[o].version
               r == [row[m] EXCEPT !.status = "applied", !.linked = TRUE, !.version = n,
                                   !.action = "duplicate"]
    <2>3. r \in Row /\ r.action = "duplicate"
      <3>1. row[m] \in Row /\ n \in 0 .. 2
        <4>1. o \in Msgs
          BY DEF Originals
        <4>2. worker[w].snap \in [row : [Msgs -> Row], inc : Incident]
          BY <1>1 DEF WorkerType
        <4>3. worker[w].snap.row[o] \in Row
          BY <4>1, <4>2
        <4> QED
          BY <1>1, <2>1, <4>3 DEF Row
      <3> HIDE DEF m, n
      <3> QED
        BY <3>1 DEF Row
    <2>4. Committed(w, m, r)
      BY <2>2
    <2> HIDE DEF r
    <2>5. Rows
      BY <1>5, <2>1, <2>3, <2>4 DEF Committed
    <2>6. Hand /\ worker'[w].at = "applied"
      BY <1>1, <1>3, <2>4 DEF Committed, Others, WorkerType
    <2> QED
      BY <1>15, <2>5, <2>6 DEF CommitDuplicate, Looks, effects
  <1>16. ASSUME Fail(w) PROVE Looks(w)
    <2> DEFINE m == worker[w].m
               r == [row[m] EXCEPT !.status = "error"]
    <2>1. m \in Msgs
      BY <1>16 DEF Fail, WorkerInv
    <2>2. r \in Row /\ r.action = row[m].action /\ r.linked = row[m].linked
      <3>1. row[m] \in Row
        BY <1>1, <2>1
      <3> HIDE DEF m
      <3> QED
        BY <3>1 DEF Row
    <2>3. row' = [row EXCEPT ![m] = Tried(r)]
      BY <1>16 DEF Fail
    <2> HIDE DEF r
    <2>4. Rows
      BY <1>5, <2>1, <2>2, <2>3 DEF Created
    <2> QED
      BY <1>6, <1>16, <2>4 DEF Fail, Looks, effects
  <1>17. ASSUME Nachlauf(w) \/ Crash(w) PROVE Looks(w)
    BY <1>4, <1>6, <1>17 DEF Nachlauf, Crash, Looks
  <1>18. ASSUME Rework(w) PROVE Looks(w)
    <2> DEFINE m == worker[w].m
               r == [row[m] EXCEPT !.status = "error"]
    <2>1. m \in Msgs
      BY <1>18 DEF Rework, WorkerInv
    <2>2. r \in Row /\ r.action = row[m].action /\ r.linked = row[m].linked
      <3>1. row[m] \in Row
        BY <1>1, <2>1
      <3> HIDE DEF m
      <3> QED
        BY <3>1 DEF Row
    <2>3. CASE row[m].linked /\ UNCHANGED row
               /\ worker' = [worker EXCEPT ![w].at = "reworking", ![w].base = FreshRow(w)]
      <3>1. Hand /\ worker'[w].at = "reworking"
        BY <1>1, <2>3 DEF Others, WorkerType
      <3> QED
        BY <1>4, <1>18, <2>1, <2>3, <3>1 DEF Rework, Looks, effects
    <2>4. CASE row' = [row EXCEPT ![m].status = "error"] /\ Ends(w)
      <3>1. row' = [row EXCEPT ![m] = r]
        BY <2>4
      <3> HIDE DEF r
      <3>2. Rows
        BY <1>5, <2>1, <2>2, <3>1 DEF Created
      <3> QED
        BY <1>6, <1>18, <2>4, <3>2 DEF Rework, Looks, effects
    <2>5. CASE UNCHANGED row /\ Goes(w, "claimed")
      <3>1. Hand /\ worker'[w].at = "claimed"
        BY <1>7, <2>5 DEF Place
      <3> QED
        BY <1>4, <1>18, <2>5, <3>1 DEF Rework, Looks, effects
    <2> QED
      BY <1>18, <2>3, <2>4, <2>5 DEF Rework
  <1> QED
    BY <1>8, <1>9, <1>10, <1>11, <1>12, <1>13, <1>14, <1>15, <1>16, <1>17, <1>18

\* A transaction that writes the incident ends, and what it had read is forgotten.
LEMMA Forgets ==
    ASSUME TypeOK, WorkerInv, NEW w \in Worker, worker[w].at # "idle", NEW r \in Row,
           Committed(w, worker[w].m, r)
    PROVE  /\ \A v \in Worker : /\ worker'[v].snap.inc \in {worker[v].snap.inc, NoIncident}
                                /\ worker'[v].base \in {worker[v].base, NoIncident}
                                /\ worker'[v].at = IF v = w THEN "applied" ELSE worker[v].at
           /\ \A m \in Msgs : Created(m)' => Created(m) \/ (m = worker[w].m /\ r.action = "created")
  <1> DEFINE k == worker[w].m
  <1>1. k \in Msgs
    BY DEF WorkerInv
  <1>2. /\ row \in [Msgs -> Row] /\ worker \in [Worker -> WorkerType]
        /\ \A v \in Worker : worker[v] \in WorkerType
    BY DEF TypeOK, WorkerType
  <1>3. NoSnap.inc = NoIncident
    BY DEF NoSnap
  <1>4. row' = [row EXCEPT ![k] = Tried(r)] /\ Tried(r).action = r.action
    BY DEF Committed, Tried, Row
  <1>5. \A v \in Worker : /\ worker'[v].snap.inc \in {worker[v].snap.inc, NoIncident}
                          /\ worker'[v].base \in {worker[v].base, NoIncident}
                          /\ worker'[v].at = IF v = w THEN "applied" ELSE worker[v].at
    <2>1. \A v \in Worker \ {w} : worker'[v] = worker[v]
      BY <1>2 DEF Committed
    <2>2. worker'[w].at = "applied" /\ worker'[w].base = NoIncident /\ worker'[w].snap \in {worker[w].snap, NoSnap}
      BY <1>2 DEF Committed, WorkerType
    <2> QED
      BY <1>3, <2>1, <2>2
  <1>6. \A m \in Msgs : Created(m)' => Created(m) \/ (m = k /\ r.action = "created")
    BY <1>1, <1>2, <1>4 DEF Created
  <1> QED
    BY <1>5, <1>6

\* The transaction that creates the incident writes all its fields.
LEMMA CreateStep ==
    ASSUME TypeOK, WorkerInv, FollowInv, NEW w \in Worker, CommitCreated(w)
    PROVE  FollowInv'
  <1> USE DEF FollowInv
  <1> DEFINE k == worker[w].m
             r == [row[k] EXCEPT !.status = "applied", !.linked = TRUE, !.version = 1, !.action = "created"]
  <1>1. /\ k \in Msgs /\ worker[w].at = "creating" /\ Committed(w, k, r) /\ follow' = follow
        /\ inc' = [there |-> TRUE, closed |-> FALSE, text |-> {TextOf[k]}, codes |-> CodesOf[TextOf[k]],
                   fields |-> Field]
    BY DEF CommitCreated, WorkerInv, effects
  <1>2. r \in Row
    <2>1. row[k] \in Row /\ 1 \in 0 .. 2
      BY <1>1 DEF TypeOK
    <2> HIDE DEF k
    <2> QED
      BY <2>1 DEF Row
  <1> HIDE DEF r
  <1>3. ~inc.there
    BY <1>1 DEF Creating
  <1>4. /\ \A v \in Worker : /\ worker'[v].snap.inc \in {worker[v].snap.inc, NoIncident}
                             /\ worker'[v].base \in {worker[v].base, NoIncident}
                             /\ worker'[v].at = IF v = w THEN "applied" ELSE worker[v].at
        /\ \A m \in Msgs : Created(m)' => Created(m) \/ m = k
    BY <1>1, <1>2, Forgets
  <1>5. inc'.there /\ "codes" \in inc'.fields /\ inc'.codes = CodesOf[TextOf[k]]
    BY <1>1 DEF Field
  <1>6. \A m \in Msgs : Created(m)' => m = k
    BY <1>3, <1>4 DEF Known, Nothing
  <1>7. Alerted'
    BY <1>1, <1>3, <1>5 DEF Alerted
  <1>8. Views'
    <2>1. \A v \in Worker : worker'[v].snap.inc.fields = {} /\ worker'[v].base.fields = {}
      BY <1>3, <1>4 DEF Nothing, NoIncident
    <2> QED
      BY <2>1 DEF Views, Carries
  <1>9. Known'
    BY <1>5, <1>6 DEF Known, Carries
  <1>10. Nothing'
    BY <1>5 DEF Nothing
  <1>11. Creating'
    <2>1. \A v \in Worker : worker'[v].at # "creating"
      BY <1>1, <1>4 DEF Creating
    <2> QED
      BY <2>1 DEF Creating
  <1> QED
    BY <1>7, <1>8, <1>9, <1>10, <1>11

\* A merge asks for what its snapshot did not know, and collides if that was stale.
LEMMA MergeStep ==
    ASSUME TypeOK, WorkerInv, FollowInv, NEW w \in Worker, CommitMerged(w) \/ CommitReworked(w)
    PROVE  FollowInv'
  <1> USE DEF FollowInv
  <1> DEFINE k   == worker[w].m
             new == NewCodes(w, k)
             base == worker[w].base
  <1>1. k \in Msgs /\ worker[w].at \in {"merging", "reworking"} /\ ~Collides(w, k) /\ inc' = Merged(w, k)
    BY DEF CommitMerged, CommitReworked, WorkerInv
  <1>2. inc \in Incident /\ inc.there
    BY <1>1 DEF TypeOK, Nothing
  <1>3. PICK r \in Row : Committed(w, k, r) /\ (r.action = "created" => Created(k))
    <2>1. row[k] \in Row /\ Version(w, k) \in 0 .. 2
      BY <1>1 DEF TypeOK, Version
    <2> DEFINE n == Version(w, k)
               p == [row[k] EXCEPT !.status = "applied", !.linked = TRUE, !.version = n, !.action = "merged"]
               q == [row[k] EXCEPT !.status = "applied"]
    <2>2. p \in Row /\ p.action = "merged" /\ q \in Row /\ q.action = row[k].action
      <3> HIDE DEF k, n
      <3> QED
        BY <2>1 DEF Row, n
    <2>3. Committed(w, k, p) \/ Committed(w, k, q)
      BY DEF CommitMerged, CommitReworked
    <2> HIDE DEF p, q
    <2> QED
      BY <2>2, <2>3 DEF Created
  <1>4. /\ \A v \in Worker : /\ worker'[v].snap.inc \in {worker[v].snap.inc, NoIncident}
                             /\ worker'[v].base \in {worker[v].base, NoIncident}
                             /\ worker'[v].at = IF v = w THEN "applied" ELSE worker[v].at
        /\ \A m \in Msgs : Created(m)' => Created(m)
    BY <1>1, <1>3, Forgets
  <1>5. /\ inc'.there /\ inc'.fields = inc.fields \cup Written(w, k)
        /\ inc'.codes = IF new # {} THEN base.codes \cup new ELSE inc.codes
    BY <1>1, <1>2 DEF Merged, Incident
  <1>6. new # {} => "codes" \in Written(w, k)
    BY DEF Written
  \* What it adds is not what the first message had: it sees the row of the field, or
  \* its INSERT collides with it.
  <1>7. ASSUME new # {}, NEW m \in Msgs, Created(m) PROVE CodesOf[TextOf[m]] \subseteq base.codes
    <2>1. "codes" \in inc.fields
      BY <1>7 DEF Known
    <2>2. "codes" \in base.fields
      BY <1>1, <1>6, <1>7, <2>1 DEF Collides
    <2> QED
      BY <1>7, <2>2 DEF Views, Carries
  <1>8. Known'
    BY <1>4, <1>5, <1>7 DEF Known, Carries
  <1>9. Alerted'
    <2>1. CASE follow' = follow
      BY <1>2, <1>4, <1>5, <2>1 DEF Alerted
    <2>2. CASE worker[w].at = "merging" /\ follow' = FollowUp(new)
      <3>1. new \cap base.codes = {}
        BY <2>2 DEF NewCodes
      <3> SUFFICES ASSUME NEW c \in Code
                   PROVE  /\ follow'[c] <= 1
                          /\ follow'[c] > 0 => \A m \in Msgs : Created(m)' => c \notin CodesOf[TextOf[m]]
        BY <1>5 DEF Alerted
      <3>2. follow'[c] = IF c \in new /\ follow[c] = 0 THEN 1 ELSE follow[c]
        BY <2>2 DEF FollowUp
      <3>3. CASE c \in new
        BY <1>4, <1>7, <3>1, <3>2, <3>3 DEF Alerted
      <3>4. CASE c \notin new
        BY <1>4, <3>2, <3>4 DEF Alerted
      <3> QED
        BY <3>3, <3>4
    <2> QED
      BY <2>1, <2>2 DEF CommitMerged, CommitReworked, effects
  <1>10. Views'
    <2> SUFFICES ASSUME NEW v \in Worker PROVE (Carries(worker[v].snap.inc) /\ Carries(worker[v].base))'
      BY DEF Views
    <2>1. NoIncident.fields = {}
      BY DEF NoIncident
    <2> QED
      BY <1>4, <2>1 DEF Views, Carries
  <1>11. Nothing'
    BY <1>5 DEF Nothing
  <1>12. Creating'
    <2>1. \A v \in Worker : worker'[v].at # "creating"
      BY <1>2, <1>4 DEF Creating
    <2> QED
      BY <2>1 DEF Creating
  <1> QED
    BY <1>8, <1>9, <1>10, <1>11, <1>12

\* Every step keeps what the follow-ups depend on.
LEMMA FollowStep == TypeOK /\ WorkerInv /\ FollowInv /\ [Next]_vars => FollowInv'
  <1> SUFFICES ASSUME TypeOK, WorkerInv, FollowInv, [Next]_vars PROVE FollowInv'
    OBVIOUS
  <1>1. ASSUME NEW w \in Worker,
               \/ \E m \in Msgs : Store(w, m) \/ Recover(w, m) \/ Click(w, m)
               \/ ElvisDedup(w) \/ Open(w) \/ Claim(w) \/ Match(w) \/ Insert(w) \/ CommitDuplicate(w)
               \/ Fail(w) \/ Nachlauf(w) \/ Rework(w) \/ Crash(w)
        PROVE  FollowInv'
    <2>1. worker[w].at = "merging" => inc.there
      BY DEF FollowInv, Nothing
    <2> QED
      BY <1>1, <2>1, Looking, LooksStep
  <1>2. CASE CreatedElsewhere
    <2>1. ~inc.there /\ inc'.there /\ inc'.fields = {} /\ UNCHANGED <<row, follow, worker>>
      BY <1>2 DEF CreatedElsewhere, NoIncident
    <2>2. \A w \in Worker : worker[w].at # "creating"
      BY <1>2 DEF CreatedElsewhere
    <2>3. \A m \in Msgs : ~Created(m)
      BY <2>1 DEF FollowInv, Known, Nothing
    <2>4. Alerted' /\ Known' /\ Nothing' /\ Creating'
      BY <2>1, <2>2, <2>3 DEF FollowInv, Alerted, Known, Nothing, Creating, Created, Carries
    <2>5. Views'
      BY <2>1, <2>3 DEF Views, Carries, Created
    <2> QED
      BY <2>4, <2>5 DEF FollowInv
  <1>3. CASE Close
    <2>1. /\ inc'.there = inc.there /\ inc'.fields = inc.fields /\ inc'.codes = inc.codes
          /\ UNCHANGED <<row, follow, worker>>
      BY <1>3 DEF Close, effects, TypeOK, Incident
    <2> QED
      BY <2>1 DEF FollowInv, Alerted, Views, Known, Nothing, Creating, Created, Carries
  <1>4. CASE UNCHANGED vars
    BY <1>4 DEF vars, FollowInv, Alerted, Views, Known, Nothing, Creating, Created, Carries
  <1> QED
    BY <1>1, <1>2, <1>3, <1>4, CreateStep, MergeStep DEF Next, Steps

\* A code raises one follow-up alarm at most, and none when it came with the message that
\* created the incident, although a message merges what it read before others committed:
\* either it sees the row of the field or its INSERT of that row collides
\* (merge_folgenachricht, enqueue_nachalarmierung).
THEOREM FollowUpOnceHolds == Spec => []FollowUpOnce
  <1> DEFINE Inv == TypeOK /\ WorkerInv /\ FollowInv
  <1>1. Init => Inv
    BY InitTyped, FollowInit
  <1>2. Inv /\ [Next]_vars => Inv'
    BY StepTyped, FollowStep
  <1>3. Inv => FollowUpOnce
    BY DEF FollowInv, Alerted, Created, FollowUpOnce
  <1> QED
    BY <1>1, <1>2, <1>3, PTL DEF Spec
=============================================================================
