------------------------- MODULE PrintCopies_proofs -------------------------
(***************************************************************************)
(* NoBlindReprint of PrintSystem: what has to be true of a row, the        *)
(* journals and the transports so that no step ever gives a job to a       *)
(* second spooler, and the one step of the code that breaks it.            *)
(***************************************************************************)
EXTENDS PrintSystem_proofs

-----------------------------------------------------------------------------
(* Sums of one and of two numbers. *)

First(s) == CHOOSE z \in s : TRUE
Obeys(rec, f, S) ==
    /\ rec[{}] = 0
    /\ \A s \in SUBSET S : s # {} => rec[s] = f[First(s)] + rec[s \ {First(s)}]
SumOver(f, S) == MapThenSumSet(LAMBDA k : f[k], S)

\* The library folds a set by removing one chosen element after the other.  A function
\* that obeys this recursion exists for sets of one or two numbers, so the fold obeys it.
LEMMA FoldObeys ==
    ASSUME NEW f, NEW x, NEW y, f[x] \in Nat, f[y] \in Nat,
           NEW S, S = {x, y}
    PROVE  \E rec : SumOver(f, S) = rec[S] /\ Obeys(rec, f, S)
  <1> DEFINE body(g) == [s \in SUBSET S |-> IF s = {} THEN 0 ELSE LET z == First(s) IN f[z] + g[s \ {z}]]
             sum == [s \in SUBSET S |-> IF s = {} THEN 0
                                        ELSE IF s = {x} THEN f[x]
                                        ELSE IF s = {y} THEN f[y] ELSE f[x] + f[y]]
             rec == CHOOSE g : g = body(g)
  <1>1. \A s \in SUBSET S : s = {} \/ s = {x} \/ s = {y} \/ s = {x, y}
    OBVIOUS
  <1>2. \A s \in SUBSET S : s # {} => First(s) \in s
    BY DEF First
  <1>3. SumOver(f, S) = rec[S]
    BY DEF SumOver, MapThenSumSet, MapThenFoldSet, First
  <1>4. sum = body(sum)
    <2>1. ASSUME NEW s \in SUBSET S, s # {} PROVE sum[s] = f[First(s)] + sum[s \ {First(s)}]
      <3>1. sum[{}] = 0 /\ sum[{x}] = f[x] /\ sum[{y}] = f[y] /\ (x # y => sum[{x, y}] = f[x] + f[y])
        OBVIOUS
      <3> HIDE DEF sum
      <3>2. CASE s = {x}
        <4>1. First(s) = x /\ s \ {First(s)} = {}
          BY <1>2, <3>2
        <4>2. sum[s] = f[x] /\ sum[s \ {First(s)}] = 0
          BY <3>1, <3>2, <4>1
        <4> QED
          BY <4>1, <4>2
      <3>3. CASE s = {y}
        <4>1. First(s) = y /\ s \ {First(s)} = {}
          BY <1>2, <3>3
        <4>2. sum[s] = f[y] /\ sum[s \ {First(s)}] = 0
          BY <3>1, <3>3, <4>1
        <4> QED
          BY <4>1, <4>2
      <3>4. CASE s = {x, y} /\ x # y
        <4>1. First(s) = x \/ First(s) = y
          BY <1>2, <3>4
        <4>2. CASE First(s) = x
          <5>1. s \ {x} = {y}
            BY <3>4
          <5> QED
            BY <3>1, <3>4, <4>2, <5>1
        <4>3. CASE First(s) = y
          <5>1. s \ {y} = {x}
            BY <3>4
          <5>2. f[x] + f[y] = f[y] + f[x]
            OBVIOUS
          <5> QED
            BY <3>1, <3>4, <4>3, <5>1, <5>2
        <4> QED
          BY <4>1, <4>2, <4>3
      <3>5. s = {x} \/ s = {y} \/ (s = {x, y} /\ x # y)
        BY <1>1, <2>1
      <3> QED
        BY <3>2, <3>3, <3>4, <3>5
    <2>2. sum[{}] = 0
      OBVIOUS
    <2>3. sum = [s \in SUBSET S |-> sum[s]]
      OBVIOUS
    <2> HIDE DEF sum
    <2> QED
      BY <2>1, <2>2, <2>3
  <1>5. rec = body(rec)
    <2> HIDE DEF sum, body
    <2> QED
      BY <1>4
  <1> HIDE DEF rec, sum
  <1>6. rec[{}] = 0
    BY <1>5
  <1>7. ASSUME NEW s \in SUBSET S, s # {} PROVE rec[s] = f[First(s)] + rec[s \ {First(s)}]
    BY <1>5, <1>7
  <1> QED
    BY <1>3, <1>6, <1>7 DEF Obeys

\* The sum over one number, and over two.
LEMMA SumOfTwo ==
    ASSUME NEW f, NEW x, NEW y, f[x] \in Nat, f[y] \in Nat
    PROVE  /\ SumOver(f, {x}) = f[x]
           /\ x # y => SumOver(f, {x, y}) = f[x] + f[y]
  <1>1. SumOver(f, {x}) = f[x]
    <2> DEFINE S == {x}
    <2>1. PICK rec : SumOver(f, S) = rec[S] /\ Obeys(rec, f, S)
      <3>1. S = {x, x}
        OBVIOUS
      <3> HIDE DEF S
      <3> QED
        BY <3>1, FoldObeys
    <2>2. First(S) = x /\ S \ {x} = {} /\ S # {}
      BY DEF First
    <2>3. rec[S] = f[x] + 0
      BY <2>1, <2>2 DEF Obeys
    <2> QED
      BY <2>1, <2>3
  <1>2. ASSUME x # y PROVE SumOver(f, {x, y}) = f[x] + f[y]
    <2> DEFINE S == {x, y}
    <2>1. PICK rec : SumOver(f, S) = rec[S] /\ Obeys(rec, f, S)
      <3>1. S = {x, y}
        OBVIOUS
      <3> HIDE DEF S
      <3> QED
        BY <3>1, FoldObeys
    <2>2. ASSUME NEW z, {z} \in SUBSET S PROVE rec[{z}] = f[z] + 0
      <3>1. First({z}) = z /\ {z} \ {z} = {} /\ {z} # {}
        BY DEF First
      <3> QED
        BY <2>1, <2>2, <3>1 DEF Obeys
    <2>3. rec[{x}] = f[x] /\ rec[{y}] = f[y]
      BY <2>2
    <2>4. First(S) \in {x, y}
      BY DEF First
    <2>5. rec[S] = f[First(S)] + rec[S \ {First(S)}]
      BY <2>1 DEF Obeys
    <2>6. S \ {x} = {y} /\ S \ {y} = {x}
      BY <1>2
    <2>7. First(S) = x => rec[S] = f[x] + f[y]
      BY <2>3, <2>5, <2>6
    <2>8. First(S) = y => rec[S] = f[y] + f[x]
      BY <2>3, <2>5, <2>6
    <2> QED
      BY <2>1, <2>4, <2>7, <2>8
  <1> QED
    BY <1>1, <1>2

-----------------------------------------------------------------------------
(* The invariant. *)

\* No copy of the job exists, and nobody has what it takes to make one without asking
\* print_intent() again: no agent is approved, and the gateway has no transport in the
\* old protocol, which does not ask.
OffPaper(j) ==
    /\ printed[j] = 0
    /\ \A a \in Agents : win[a][j].st # "approved"
    /\ lin[j] # "approved"
    /\ ~route[j].asks => /\ lin[j] # "got"
                         /\ lin[j] = "none" => route[j].state \notin {"queued", "sending"}

\* The row knows: waiting, failed and leased rows have no copy, a pushed one has none
\* before its gateway submits it, and it carries a token only for a transport that asks.
RowPaper(j) ==
    /\ printed[j] <= 1
    /\ job[j].status \in {"absent", "queued", "failed"} => OffPaper(j)
    /\ job[j].delivery = "lease" /\ job[j].status \in {"sent", "printing"} =>
          /\ job[j].phase \in HANDED_OVER \cup BEFORE_HANDOVER
          /\ job[j].phase \in BEFORE_HANDOVER => OffPaper(j)
    /\ job[j].delivery = "push" =>
          /\ lin[j] \in {"none", "got", "approved", "gave_up"} => printed[j] = 0
          /\ job[j].status \in {"sent", "printing"} /\ job[j].token # 0 => route[j].asks

\* The agents know: a journal is about a lease, of a generation that has been; until the
\* job is handed over, or after the spooler has rejected it, the current lease has no copy.
JournalPaper(a, j) ==
    /\ win[a][j].gen <= job[j].gen
    /\ win[a][j].st = "none" => win[a][j].gen = 0
    /\ win[a][j].st # "none" => job[j].delivery = "lease" /\ job[j].status # "absent"
    /\ win[a][j].st = "approved" => printed[j] = 0
    /\ win[a][j].st \in {"granted", "fetch_failed", "rejected"} /\ Owns(a, j) => OffPaper(j)

\* A report with the proof that nothing was submitted is right about the lease it is for.
CallPaper(a, j) ==
    call[a].j = j =>
        /\ job[j].delivery = "lease" /\ job[j].status # "absent"
        /\ /\ call[a].report.proof
           /\ job[j].holder = a /\ job[j].token = call[a].gen /\ job[j].token # 0
           => OffPaper(j)

JobPaper(j) == RowPaper(j) /\ \A a \in Agents : JournalPaper(a, j) /\ CallPaper(a, j)

\* Replaced by a rule: failed, or cancelled since, and without a copy for good.
Settled(j) == job[j].status \in {"failed", "canceled"} /\ OffPaper(j)

Heirs(j) == Successors(j, "rule")
Succession ==
    \A j \in Jobs : /\ Heirs(j) # {} => Settled(j)
                    /\ \A k, l \in Heirs(j) : k = l

PaperInv == (\A j \in Jobs : JobPaper(j)) /\ Succession

-----------------------------------------------------------------------------
(* One job at a time. *)

\* What a step has to keep of a job.
Keeps(j) ==
    /\ JobPaper(j)'
    /\ Settled(j) => Settled(j)'
    /\ job'[j].parent = job[j].parent /\ job'[j].source = job[j].source

\* Nothing of a job has changed but the calls that are about others.
Untouched(j) ==
    /\ job'[j] = job[j] /\ printed'[j] = printed[j] /\ route'[j] = route[j] /\ lin'[j] = lin[j]
    /\ \A a \in Agents : win'[a][j] = win[a][j]
    /\ \A a \in Agents : call'[a] = call[a] \/ call'[a].j # j

\* A job that the step is not about keeps what is true of it.
LEMMA UntouchedKeeps ==
    ASSUME NEW j \in Jobs, JobPaper(j), Untouched(j)
    PROVE  Keeps(j)
  <1>1. OffPaper(j)' <=> OffPaper(j)
    BY DEF OffPaper, Untouched
  <1>2. \A a \in Agents : Owns(a, j)' <=> Owns(a, j)
    BY DEF Owns, Untouched
  <1>3. RowPaper(j)'
    BY <1>1 DEF JobPaper, RowPaper, Untouched
  <1>4. \A a \in Agents : JournalPaper(a, j)'
    BY <1>1, <1>2 DEF JobPaper, JournalPaper, Untouched
  <1>5. \A a \in Agents : CallPaper(a, j)'
    BY <1>1 DEF JobPaper, CallPaper, Untouched
  <1>6. Settled(j) => Settled(j)'
    BY <1>1 DEF Settled, Untouched
  <1> QED
    BY <1>3, <1>4, <1>5, <1>6 DEF Keeps, JobPaper, Untouched

\* A step that writes the row and the journals of a job but approves and prints nothing.
\* What it must respect: a row without a holder has no owner; only a job without a copy
\* waits or fails; a journal is kept, forgotten, or goes on with what has left the agent.
QuietRow(j) ==
    /\ job'[j].parent = job[j].parent /\ job'[j].source = job[j].source /\ job'[j].gen = job[j].gen
    /\ job[j].status # "absent" => job'[j].status # "absent"
    /\ \/ job'[j].holder = job[j].holder /\ job'[j].token = job[j].token
       \/ job'[j].holder = None
    /\ job[j].delivery = "lease" => job'[j].delivery = "lease"
    /\ job'[j].status \in {"absent", "queued", "failed"} => OffPaper(j)
    /\ job[j].status \in {"failed", "canceled"} => job'[j].status \in {"failed", "canceled"}
    /\ job'[j].delivery = "lease" /\ job'[j].status \in {"sent", "printing"} =>
          /\ job'[j].phase \in HANDED_OVER \cup BEFORE_HANDOVER
          /\ job'[j].phase \in BEFORE_HANDOVER => OffPaper(j)
    /\ job'[j].delivery = "push" =>
          /\ job[j].delivery = "push"
          /\ job'[j].status \in {"sent", "printing"} /\ job'[j].token # 0 => route[j].asks

QuietJournal(a, j) ==
    \/ win'[a][j] = win[a][j]
    \/ win'[a][j] = NoLease
    \/ /\ win'[a][j].gen = win[a][j].gen
       /\ \/ win'[a][j].st \in {"spooled", "printing", "unclear"}
          \/ win'[a][j].st = "fetch_failed" /\ win[a][j].st = "granted"
       /\ job[j].delivery = "lease" /\ job[j].status # "absent"

QuietCall(a, j) == call'[a] = call[a] \/ call'[a].j # j \/ CallPaper(a, j)'

\* A quiet step makes no copy and keeps what is true of the job.
LEMMA QuietKeeps ==
    ASSUME NEW j \in Jobs, JobPaper(j), QuietRow(j), job[j].gen \in Nat,
           \A a \in Agents : QuietJournal(a, j) /\ QuietCall(a, j),
           printed'[j] = printed[j], route'[j] = route[j], lin'[j] = lin[j]
    PROVE  Keeps(j)
  <1>1. None \notin Agents
    BY PrintJobAssumption DEF Holders
  <1>2. OffPaper(j) => OffPaper(j)'
    BY DEF OffPaper, QuietJournal, NoLease
  <1>3. RowPaper(j)'
    BY <1>2 DEF JobPaper, RowPaper, QuietRow
  <1>4. ASSUME NEW a \in Agents PROVE JournalPaper(a, j)'
    <2>1. JournalPaper(a, j) /\ QuietJournal(a, j)
      BY <1>4 DEF JobPaper
    <2>2. CASE win'[a][j] = NoLease
      <3>1. win'[a][j].st = "none" /\ win'[a][j].gen = 0
        BY <2>2 DEF NoLease
      <3>2. 0 <= job'[j].gen
        BY DEF QuietRow
      <3> QED
        BY <3>1, <3>2 DEF JournalPaper
    <2>3. Owns(a, j)' /\ win'[a][j].gen = win[a][j].gen => Owns(a, j)
      BY <1>1 DEF Owns, QuietRow
    <2>4. CASE win'[a][j] = win[a][j]
      BY <1>2, <2>1, <2>3, <2>4 DEF JournalPaper, QuietRow
    <2>5. CASE /\ win'[a][j].gen = win[a][j].gen
               /\ \/ win'[a][j].st \in {"spooled", "printing", "unclear"}
                  \/ win'[a][j].st = "fetch_failed" /\ win[a][j].st = "granted"
               /\ job[j].delivery = "lease" /\ job[j].status # "absent"
      BY <1>2, <2>1, <2>3, <2>5 DEF JournalPaper, QuietRow
    <2> QED
      BY <2>1, <2>2, <2>4, <2>5 DEF QuietJournal
  <1>5. ASSUME NEW a \in Agents PROVE CallPaper(a, j)'
    <2>1. CASE call'[a] = call[a]
      BY <1>1, <1>2, <1>5, <2>1 DEF JobPaper, CallPaper, QuietRow
    <2>2. CASE call'[a].j # j
      BY <2>2 DEF CallPaper
    <2> QED
      BY <1>5, <2>1, <2>2 DEF QuietCall
  <1>6. Settled(j) => Settled(j)'
    BY <1>2 DEF Settled, QuietRow
  <1> QED
    BY <1>3, <1>4, <1>5, <1>6 DEF Keeps, JobPaper, QuietRow

\* A step of the push delivery: agents have nothing to do with the job.
LEMMA PushKeeps ==
    ASSUME NEW j \in Jobs, JobPaper(j), UNCHANGED agentVars,
           job[j].delivery = "push", job'[j].delivery = "push",
           job[j].gen \in Nat, job'[j].gen \in Nat,
           job'[j].parent = job[j].parent, job'[j].source = job[j].source,
           RowPaper(j)', Settled(j) => Settled(j)'
    PROVE  Keeps(j)
  <1>1. ASSUME NEW a \in Agents PROVE JournalPaper(a, j)' /\ CallPaper(a, j)'
    <2>1. JournalPaper(a, j) /\ CallPaper(a, j) /\ win'[a][j] = win[a][j] /\ call'[a] = call[a]
      BY DEF JobPaper, agentVars
    <2>2. win[a][j].st = "none" /\ win[a][j].gen = 0 /\ call[a].j # j
      BY <2>1 DEF JournalPaper, CallPaper
    <2> QED
      BY <2>1, <2>2 DEF JournalPaper, CallPaper
  <1> QED
    BY <1>1 DEF Keeps, JobPaper

\* Nobody is approved for a pushed job, so a transport that asks and has not been
\* answered, or none, leaves it without a copy.
LEMMA PushOff ==
    ASSUME NEW j \in Jobs, JobPaper(j), UNCHANGED <<win, printed>>, job[j].delivery = "push",
           printed[j] = 0, lin'[j] # "approved",
           ~route'[j].asks => /\ lin'[j] # "got"
                              /\ lin'[j] = "none" => route'[j].state \notin {"queued", "sending"}
    PROVE  OffPaper(j)'
  BY DEF OffPaper, JobPaper, JournalPaper

-----------------------------------------------------------------------------
(* The family of a job: who replaces whom. *)

\* Rows that keep their parents and stay settled keep the succession.
LEMMA SuccessionKept ==
    ASSUME Succession, \A j \in Jobs : Keeps(j)
    PROVE  Succession'
  <1>1. \A j \in Jobs : Heirs(j)' = Heirs(j)
    BY DEF Heirs, Successors, Keeps
  <1> QED
    BY <1>1 DEF Succession, Keeps

\* A step that keeps every job keeps the invariant.
LEMMA AllKept ==
    ASSUME PaperInv, \A j \in Jobs : Keeps(j)
    PROVE  PaperInv'
  BY SuccessionKept DEF PaperInv, Keeps

\* A step about one job.
LEMMA OneKept ==
    ASSUME PaperInv, NEW j \in Jobs, Keeps(j), \A k \in Jobs \ {j} : Untouched(k)
    PROVE  PaperInv'
  <1>1. \A k \in Jobs \ {j} : Keeps(k)
    BY UntouchedKeeps DEF PaperInv
  <1> QED
    BY <1>1, AllKept

\* A step that is about no row, transport or journal keeps it.
LEMMA NothingKept ==
    ASSUME PaperInv, UNCHANGED <<job, printed, route, lin, agentVars>>
    PROVE  PaperInv'
  <1>1. \A j \in Jobs : Untouched(j)
    BY DEF Untouched, agentVars
  <1>2. \A j \in Jobs : Keeps(j)
    BY <1>1, UntouchedKeeps DEF PaperInv
  <1> QED
    BY <1>2, AllKept

\* A step that writes one row and nothing else.
LEMMA RowOnly ==
    ASSUME PrintInv, PaperInv, NEW j \in Jobs, NEW s, job' = [job EXCEPT ![j] = s], QuietRow(j),
           UNCHANGED <<printed, route, lin, agentVars>>
    PROVE  PaperInv'
  <1>1. job \in [Jobs -> Row] /\ job[j].gen \in Nat
    BY DEF PrintInv, TypeOK, TypeOKJobs, Row
  <1>2. \A k \in Jobs \ {j} : Untouched(k)
    BY <1>1 DEF Untouched, agentVars
  <1>3. \A a \in Agents : QuietJournal(a, j) /\ QuietCall(a, j)
    BY DEF QuietJournal, QuietCall, agentVars
  <1>4. Keeps(j)
    BY <1>1, <1>3, QuietKeeps DEF PaperInv
  <1> QED
    BY <1>2, <1>4, OneKept

\* An outcome is written: failed only where no copy is, and nothing over a failure but
\* its cancellation.
LEMMA OutcomeQuiet ==
    ASSUME RowsOK, NEW j \in Jobs, NEW st \in ENDED,
           st = "failed" => OffPaper(j),
           job[j].status \in {"failed", "canceled"} => st \in {"failed", "canceled"},
           job'[j] = [job[j] EXCEPT !.status = st]
    PROVE  QuietRow(j)
  <1>1. job[j] \in Row
    BY DEF RowsOK
  <1>2. /\ job'[j].status = st /\ job'[j].delivery = job[j].delivery /\ job'[j].gen = job[j].gen
        /\ job'[j].holder = job[j].holder /\ job'[j].token = job[j].token
        /\ job'[j].parent = job[j].parent /\ job'[j].source = job[j].source
    BY <1>1 DEF Row
  <1>3. st \notin {"absent", "queued", "sent", "printing"}
    BY DEF ENDED, JOB_TERMINAL
  <1> QED
    BY <1>2, <1>3 DEF QuietRow

\* Such an outcome, written to one row, keeps the invariant.
LEMMA OutcomeKept ==
    ASSUME PrintInv, PaperInv, NEW j \in Jobs, NEW st \in ENDED,
           st = "failed" => OffPaper(j),
           job[j].status \in {"failed", "canceled"} => st \in {"failed", "canceled"},
           job' = [job EXCEPT ![j].status = st],
           UNCHANGED <<printed, route, lin, agentVars>>
    PROVE  PaperInv'
  <1> DEFINE s == [job[j] EXCEPT !.status = st]
  <1>1. RowsOK /\ job' = [job EXCEPT ![j] = s] /\ job'[j] = s
    BY DEF PrintInv, TypeOK, TypeOKJobs, RowsOK
  <1>2. QuietRow(j)
    BY <1>1, OutcomeQuiet
  <1> HIDE DEF s
  <1> QED
    BY <1>1, <1>2, RowOnly

\* create_print_job() makes a new row: a job that nothing has been done for.
LEMMA BornPaper ==
    ASSUME NEW k \in Jobs, JobPaper(k), job[k].status = "absent",
           NEW source \in {"rule", "manual"}, NEW j \in Jobs, NEW lease \in BOOLEAN,
           job'[k] = NewRow("queued", source, j, lease),
           UNCHANGED <<printed, route, lin, agentVars>>
    PROVE  JobPaper(k)'
  <1>1. OffPaper(k)' /\ printed'[k] = 0
    BY DEF JobPaper, RowPaper, OffPaper, agentVars
  <1>2. job'[k].status = "queued" /\ job'[k].gen = 0
    BY DEF NewRow
  <1>3. RowPaper(k)'
    BY <1>1, <1>2 DEF RowPaper
  <1>4. ASSUME NEW a \in Agents PROVE JournalPaper(a, k)' /\ CallPaper(a, k)'
    <2>1. JournalPaper(a, k) /\ CallPaper(a, k) /\ win'[a][k] = win[a][k] /\ call'[a] = call[a]
      BY DEF JobPaper, agentVars
    <2>2. win[a][k].st = "none" /\ win[a][k].gen = 0 /\ call[a].j # k
      BY <2>1 DEF JournalPaper, CallPaper
    <2> QED
      BY <1>2, <2>1, <2>2 DEF JournalPaper, CallPaper
  <1> QED
    BY <1>3, <1>4 DEF JobPaper

\* A new row keeps the invariant; as the replacement of a rule it is the first, and the job it
\* replaces has failed without a copy.
LEMMA BornKept ==
    ASSUME PaperInv, NEW j \in Jobs, NEW k \in Jobs, job[k].status = "absent",
           NEW source \in {"rule", "manual"}, NEW lease \in BOOLEAN,
           job'[k] = NewRow("queued", source, j, lease),
           UNCHANGED <<printed, route, lin, agentVars>>,
           \A i \in Jobs \ {k} : Keeps(i),
           source = "rule" => Heirs(j) = {} /\ Settled(j)
    PROVE  PaperInv'
  <1>1. JobPaper(k)'
    BY BornPaper DEF PaperInv
  <1>2. job'[k].parent = j /\ job'[k].source = source
    BY DEF NewRow
  <1>3. \A i \in Jobs : Settled(i) => i # k /\ Settled(i)'
    BY DEF Settled, Keeps
  <1>4. \A i \in Jobs : \A l \in Heirs(i)' : l \in Heirs(i) \/ (l = k /\ i = j /\ source = "rule")
    BY <1>2 DEF Heirs, Successors, Keeps
  <1>5. ASSUME NEW i \in Jobs
        PROVE  /\ Heirs(i)' # {} => Settled(i)'
               /\ \A l, m \in Heirs(i)' : l = m
    <2>1. CASE i = j /\ source = "rule"
      BY <1>3, <1>4, <2>1
    <2>2. CASE ~(i = j /\ source = "rule")
      <3>1. Heirs(i)' \subseteq Heirs(i)
        BY <1>4, <2>2
      <3> QED
        BY <1>3, <3>1 DEF PaperInv, Succession
    <2> QED
      BY <2>1, <2>2
  <1>6. Succession'
    BY <1>5 DEF Succession
  <1> QED
    BY <1>1, <1>6 DEF PaperInv, Keeps

\* Users, replacements and the move to lease delivery.
LEMMA JobsPaper ==
    ASSUME PrintInv, PaperInv, NextJobs, UNCHANGED <<agentVars, linuxVars>>
    PROVE  PaperInv'
  <1>1. /\ RowsOK /\ routed \in [Jobs -> BOOLEAN]
        /\ UNCHANGED <<route, lin, agentVars>>
    BY DEF PrintInv, TypeOK, TypeOKJobs, RowsOK, linuxVars
  <1>2. ASSUME NEW j \in Jobs, FallbackLost(j) \/ CancelRead(j) \/ RouteActivated(j) PROVE PaperInv'
    <2>1. UNCHANGED <<job, printed>>
      BY <1>2 DEF FallbackLost, CancelRead, RouteActivated
    <2> QED
      BY <1>1, <2>1, NothingKept
  <1>3. ASSUME NEW j \in Jobs, DispatchFallback(j) PROVE PaperInv'
    <2>1. UNCHANGED printed
      BY <1>3 DEF DispatchFallback
    <2>2. CASE UNCHANGED job
      BY <1>1, <2>1, <2>2, NothingKept
    <2>3. CASE MayBeReplaced(j) /\ CreateJob(job, j, "rule") /\ job' # job
      <3>1. PICK k \in Jobs : /\ job[k].status = "absent"
                              /\ job' = [job EXCEPT ![k] = NewRow("queued", "rule", j, routed[k])]
        BY <2>3 DEF CreateJob
      <3>2. Heirs(j) = {}
        BY <2>3 DEF CreateJob, Heirs
      <3>3. Settled(j)
        BY <2>3 DEF MayBeReplaced, Settled, PaperInv, JobPaper, RowPaper
      <3>4. job'[k] = NewRow("queued", "rule", j, routed[k]) /\ \A i \in Jobs \ {k} : job'[i] = job[i]
        BY <1>1, <3>1 DEF RowsOK
      <3>5. \A i \in Jobs \ {k} : Keeps(i)
        <4>1. \A i \in Jobs \ {k} : Untouched(i)
          BY <1>1, <2>1, <3>4 DEF Untouched, agentVars
        <4> QED
          BY <4>1, UntouchedKeeps DEF PaperInv
      <3>6. routed[k] \in BOOLEAN
        BY <1>1
      <3> QED
        BY <1>1, <2>1, <3>1, <3>2, <3>3, <3>4, <3>5, <3>6, BornKept
    <2> QED
      BY <1>3, <2>2, <2>3 DEF DispatchFallback
  <1>4. ASSUME NEW j \in Jobs, CancelWrite(j) PROVE PaperInv'
    <2>1. job' = [job EXCEPT ![j].status = "canceled"] /\ UNCHANGED printed
      BY <1>4 DEF CancelWrite
    <2>2. PICK st \in ENDED : st = "canceled"
      BY DEF ENDED, JOB_TERMINAL
    <2>3. job' = [job EXCEPT ![j].status = st] /\ st # "failed" /\ st \in {"failed", "canceled"}
      BY <2>1, <2>2
    <2> QED
      BY <1>1, <2>1, <2>3, OutcomeKept
  <1>5. ASSUME NEW j \in Jobs, NEW action \in Actions, Resolve(j, action) PROVE PaperInv'
    <2> DEFINE st == IF action = "done" THEN "done" ELSE "canceled"
               s == [job[j] EXCEPT !.status = st]
               rows == [job EXCEPT ![j].status = st]
    <2>1. /\ st \in ENDED /\ st # "failed" /\ UNCHANGED printed
          /\ job[j].status \in {"failed", "canceled"} => st = "canceled"
          /\ job[j].status # "absent"
      BY <1>5 DEF Resolve, ENDED, JOB_TERMINAL
    <2>2. job' = rows \/ (job' # rows /\ CreateJob(rows, j, "manual"))
      BY <1>5 DEF Resolve
    <2>3. /\ rows[j] = s /\ DOMAIN rows = Jobs
          /\ \A i \in Jobs \ {j} : rows[i] = job[i]
      BY <1>1 DEF RowsOK
    <2> HIDE DEF st
    <2>4. CASE job' = rows
      BY <1>1, <2>1, <2>4, OutcomeKept
    <2> HIDE DEF rows
    <2>5. CASE job' # rows /\ CreateJob(rows, j, "manual")
      <3>1. PICK k \in Jobs : /\ job[k].status = "absent"
                              /\ job' = [rows EXCEPT ![k] = NewRow("queued", "manual", j, routed[k])]
        BY <2>5 DEF CreateJob
      <3>2. k # j
        BY <2>1, <3>1
      <3>3. /\ job'[k] = NewRow("queued", "manual", j, routed[k]) /\ job'[j] = s
            /\ \A i \in Jobs \ {j, k} : job'[i] = job[i]
        <4> HIDE DEF s
        <4> QED
          BY <2>3, <3>1, <3>2
      <3>4. Keeps(j)
        <4>1. QuietRow(j)
          BY <1>1, <2>1, <3>3, OutcomeQuiet
        <4>2. \A a \in Agents : QuietJournal(a, j) /\ QuietCall(a, j)
          BY <1>1 DEF QuietJournal, QuietCall, agentVars
        <4>3. job[j].gen \in Nat
          BY <1>1 DEF RowsOK, Row
        <4> QED
          BY <1>1, <2>1, <4>1, <4>2, <4>3, QuietKeeps DEF PaperInv
      <3>5. \A i \in Jobs \ {k} : Keeps(i)
        <4>1. \A i \in Jobs \ {j, k} : Untouched(i)
          BY <1>1, <2>1, <3>3 DEF Untouched, agentVars
        <4> QED
          BY <3>4, <4>1, UntouchedKeeps DEF PaperInv
      <3>6. routed[k] \in BOOLEAN
        BY <1>1
      <3> QED
        BY <1>1, <2>1, <3>1, <3>3, <3>5, <3>6, BornKept
    <2> QED
      BY <2>2, <2>4, <2>5
  <1>6. ASSUME NEW j \in Jobs, EnqueueForAgents(j) PROVE PaperInv'
    <2> DEFINE s == [job[j] EXCEPT !.delivery = "lease"]
    <2>1. job' = [job EXCEPT ![j] = s] /\ job[j].status = "queued" /\ UNCHANGED printed
      BY <1>6 DEF EnqueueForAgents
    <2>2. job'[j] = s /\ job[j] \in Row
      BY <1>1, <2>1 DEF RowsOK
    <2>3. /\ job'[j].status = "queued" /\ job'[j].delivery = "lease" /\ job'[j].gen = job[j].gen
          /\ job'[j].holder = job[j].holder /\ job'[j].token = job[j].token
          /\ job'[j].parent = job[j].parent /\ job'[j].source = job[j].source
      BY <2>1, <2>2 DEF Row
    <2>4. OffPaper(j)
      BY <2>1 DEF PaperInv, JobPaper, RowPaper
    <2>5. QuietRow(j)
      BY <2>1, <2>3, <2>4 DEF QuietRow
    <2> HIDE DEF s
    <2> QED
      BY <1>1, <2>1, <2>5, RowOnly
  <1> QED
    BY <1>2, <1>3, <1>4, <1>5, <1>6 DEF NextJobs

-----------------------------------------------------------------------------
(* Lease delivery. *)

\* A row that is not written is quiet.
LEMMA SameQuiet ==
    ASSUME NEW j \in Jobs, JobPaper(j), job'[j] = job[j]
    PROVE  QuietRow(j)
  BY DEF JobPaper, RowPaper, QuietRow

\* A leased job that waits, or has not been handed over, has no copy.
LEMMA LeaseOff ==
    ASSUME RowsOK, NEW j \in Jobs, JobPaper(j), job[j].delivery = "lease",
           job[j].status \notin ENDED,
           job[j].status \in {"sent", "printing"} => job[j].phase \notin HANDED_OVER
    PROVE  OffPaper(j)
  <1>1. job[j].status \in {"absent", "queued", "sent", "printing"}
    BY DEF RowsOK, Row
  <1> QED
    BY <1>1 DEF JobPaper, RowPaper

\* mark_job_failed() leaves a job that was handed over uncertain, and so is quiet.
LEMMA RenderQuiet ==
    ASSUME RowsOK, NEW j \in Jobs, JobPaper(j), job[j].delivery = "lease",
           job'[j] = AfterRenderError(job[j])
    PROVE  QuietRow(j)
  <1>1. CASE job[j].status \in ENDED
    <2>1. job'[j] = job[j]
      BY <1>1 DEF AfterRenderError
    <2> QED
      BY <2>1, SameQuiet
  <1>2. CASE job[j].status \notin ENDED
    <2>1. PICK st \in {"uncertain", "failed"} :
             /\ job'[j] = [job[j] EXCEPT !.status = st]
             /\ job[j].phase \in HANDED_OVER => st = "uncertain"
      BY <1>2 DEF AfterRenderError
    <2>2. st \in ENDED /\ job[j].status \notin {"failed", "canceled"}
      BY <1>2 DEF ENDED, JOB_TERMINAL
    <2>3. st = "failed" => OffPaper(j)
      BY <1>2, <2>1, LeaseOff
    <2> QED
      BY <2>1, <2>2, <2>3, OutcomeQuiet
  <1> QED
    BY <1>1, <1>2

\* A row goes back to the queue without a holder, if it has no copy.
LEMMA ReleasedQuiet ==
    ASSUME RowsOK, NEW j \in Jobs, OffPaper(j), job[j].status \notin ENDED,
           job'[j] = Released(job[j])
    PROVE  QuietRow(j)
  <1>1. job[j] \in Row
    BY DEF RowsOK
  <1>2. /\ job'[j].status = "queued" /\ job'[j].holder = None
        /\ job'[j].delivery = job[j].delivery /\ job'[j].gen = job[j].gen
        /\ job'[j].parent = job[j].parent /\ job'[j].source = job[j].source
    BY <1>1 DEF Row, Released
  <1>3. job[j].status \notin {"failed", "canceled"}
    BY DEF ENDED, JOB_TERMINAL
  <1> QED
    BY <1>2, <1>3 DEF QuietRow

\* What apply_agent_status() makes of the row: failed, or waiting again, only with the
\* proof or before the handover.
LEMMA ReportQuiet ==
    ASSUME RowsOK, NEW j \in Jobs, JobPaper(j), NEW c, c.report \in Report,
           job[j].delivery = "lease", job[j].status \notin ENDED, job[j].phase = c.phase,
           c.report.proof => OffPaper(j),
           job'[j] = AfterReport(job[j], c)
    PROVE  QuietRow(j)
  <1>1. job[j] \in Row /\ c.report.status \in {"printing", "done", "failed", "canceled", "uncertain"}
    BY DEF RowsOK, Report
  <1>2. job[j].status \notin {"failed", "canceled"}
    BY DEF ENDED, JOB_TERMINAL
  <1>3. CASE c.report.status = "printing"
    <2> DEFINE ref == job[j].ref \/ c.report.ref
    <2>1. job'[j] = [job[j] EXCEPT !.status = "printing", !.phase = "spooled", !.ref = ref]
      BY <1>3 DEF AfterReport
    <2> HIDE DEF ref
    <2>2. /\ job'[j].status = "printing" /\ job'[j].phase = "spooled"
          /\ job'[j].delivery = job[j].delivery /\ job'[j].gen = job[j].gen
          /\ job'[j].holder = job[j].holder /\ job'[j].token = job[j].token
          /\ job'[j].parent = job[j].parent /\ job'[j].source = job[j].source
      BY <1>1, <2>1 DEF Row
    <2>3. "spooled" \in HANDED_OVER /\ "spooled" \notin BEFORE_HANDOVER
      BY DEF HANDED_OVER, BEFORE_HANDOVER
    <2> QED
      BY <1>2, <2>2, <2>3 DEF QuietRow
  <1>4. ASSUME NEW st \in ENDED, job'[j] = [job[j] EXCEPT !.status = st], st = "failed" => OffPaper(j)
        PROVE  QuietRow(j)
    BY <1>2, <1>4, OutcomeQuiet
  <1>5. CASE c.report.status \in {"done", "canceled", "uncertain"}
    <2>1. job'[j] = [job[j] EXCEPT !.status = c.report.status]
      BY <1>5 DEF AfterReport
    <2>2. c.report.status \in ENDED /\ c.report.status # "failed"
      BY <1>5 DEF ENDED, JOB_TERMINAL
    <2> QED
      BY <1>4, <2>1, <2>2
  <1>6. CASE c.report.status = "failed"
    <2>1. \/ SafelyRejected(job[j], c) /\ job'[j] = [job[j] EXCEPT !.status = "failed"]
          \/ job'[j] = [job[j] EXCEPT !.status = "uncertain"]
          \/ c.phase \in BEFORE_HANDOVER /\ job'[j] = Released(job[j])
          \/ c.phase \in BEFORE_HANDOVER /\ job'[j] = [job[j] EXCEPT !.status = "failed"]
      BY <1>6 DEF AfterReport
    <2>2. SafelyRejected(job[j], c) => OffPaper(j)
      BY DEF SafelyRejected
    <2>3. c.phase \in BEFORE_HANDOVER => OffPaper(j)
      BY LeaseOff DEF BEFORE_HANDOVER, HANDED_OVER
    <2>4. "failed" \in ENDED /\ "uncertain" \in ENDED
      BY DEF ENDED, JOB_TERMINAL
    <2> QED
      BY <1>4, <2>1, <2>2, <2>3, <2>4, ReleasedQuiet
  <1> QED
    BY <1>1, <1>3, <1>5, <1>6

\* An entry that an agent drops or goes on with is quiet.
LEMMA JournalQuiet ==
    ASSUME TypeOKAgent, NEW a \in Agents, NEW j \in Jobs, NEW st, Journal(a, j, st),
           \/ st = "none"
           \/ /\ st \in {"spooled", "printing"} \/ (st = "fetch_failed" /\ win[a][j].st = "granted")
              /\ job[j].delivery = "lease" /\ job[j].status # "absent"
    PROVE  QuietJournal(a, j)
  <1>1. CASE st = "none"
    <2>1. win' = [win EXCEPT ![a][j] = NoLease]
      BY <1>1 DEF Journal
    <2>2. win'[a][j] = NoLease
      BY <2>1 DEF TypeOKAgent
    <2> QED
      BY <2>2 DEF QuietJournal
  <1>2. CASE st # "none"
    <2>1. win'[a][j].st = st /\ win'[a][j].gen = win[a][j].gen
      BY <1>2, JournalSets
    <2> QED
      BY <1>2, <2>1 DEF QuietJournal
  <1> QED
    BY <1>1, <1>2

\* A step of one agent for one job that approves and prints nothing.
LEMMA AgentQuiet ==
    ASSUME PrintInv, PaperInv, NEW a \in Agents, NEW j \in Jobs,
           QuietRow(j), \A k \in Jobs \ {j} : job'[k] = job[k],
           QuietJournal(a, j),
           \A b \in Agents, k \in Jobs : b # a \/ k # j => win'[b][k] = win[b][k],
           \A b \in Agents : call'[b] = call[b] \/ call'[b] = NoCall,
           UNCHANGED <<printed, route, lin>>
    PROVE  PaperInv'
  <1>1. job[j].gen \in Nat
    BY DEF PrintInv, TypeOK, TypeOKJobs, Row
  <1>2. \A b \in Agents, k \in Jobs : QuietCall(b, k) /\ (call'[b] = call[b] \/ call'[b].j # k)
    <2>1. \A k \in Jobs : NoCall.j # k
      BY PrintJobAssumption DEF NoCall
    <2> QED
      BY <2>1 DEF QuietCall
  <1>3. \A b \in Agents : QuietJournal(b, j)
    BY DEF QuietJournal
  <1>4. Keeps(j)
    BY <1>1, <1>2, <1>3, QuietKeeps DEF PaperInv
  <1>5. \A k \in Jobs \ {j} : Untouched(k)
    BY <1>2 DEF Untouched
  <1> QED
    BY <1>4, <1>5, OneKept

\* A leased row has no transport: it is without a copy when nothing is printed and nobody
\* approved.
LEMMA LeaseAlone ==
    ASSUME Pushed, NEW j \in Jobs, job[j].delivery = "lease", UNCHANGED <<route, lin>>,
           printed'[j] = 0, \A a \in Agents : win'[a][j].st # "approved"
    PROVE  OffPaper(j)'
  <1>1. lin[j] = "none" /\ route[j].state = "none"
    BY DEF Pushed
  <1> QED
    BY <1>1 DEF OffPaper

\* lease_jobs(): the job has no copy, and the new generation is nobody's before.
LEMMA LeasePaper ==
    ASSUME PrintInv, PaperInv, NEW a \in Agents, NEW j \in Jobs, Lease(a, j), UNCHANGED <<route, lin>>
    PROVE  PaperInv'
  <1> DEFINE g == job[j].gen + 1
             s == [job[j] EXCEPT !.status = "sent", !.phase = "leased", !.holder = a, !.token = g, !.gen = g]
             l == [st |-> "granted", gen |-> g]
  <1>1. /\ job[j].status = "queued" /\ job[j].delivery = "lease" /\ call[a].j = None
        /\ job' = [job EXCEPT ![j] = s]
        /\ win' = win \/ win' = [win EXCEPT ![a][j] = l]
        /\ UNCHANGED <<printed, call>>
    BY DEF Lease, Free, rest
  <1>2. /\ job \in [Jobs -> Row] /\ job[j].gen \in Nat /\ Pushed
        /\ win \in [Agents -> [Jobs -> [st : WinState, gen : 0 .. MaxGen]]]
    BY DEF PrintInv, TypeOK, TypeOKJobs, TypeOKAgent, Row
  <1>3. /\ job'[j] = s /\ s.gen = g /\ s.token = g /\ s.holder = a /\ s.status = "sent" /\ s.phase = "leased"
        /\ s.delivery = "lease" /\ s.parent = job[j].parent /\ s.source = job[j].source
        /\ \A k \in Jobs \ {j} : job'[k] = job[k]
    <2> HIDE DEF g
    <2> QED
      BY <1>1, <1>2 DEF Row
  <1>4. /\ \A b \in Agents, k \in Jobs : b # a \/ k # j => win'[b][k] = win[b][k]
        /\ win'[a][j] = win[a][j] \/ (win'[a][j].st = "granted" /\ win'[a][j].gen = g)
    <2>1. l.st = "granted" /\ l.gen = g
      OBVIOUS
    <2> HIDE DEF l
    <2> QED
      BY <1>1, <1>2, <2>1
  <1>5. g \in Nat /\ job[j].gen < g /\ g # 0
    BY <1>2
  <1>n. None \notin Jobs
    BY PrintJobAssumption
  <1> HIDE DEF g, s, l
  <1>6. JobPaper(j) /\ OffPaper(j)
    BY <1>1 DEF PaperInv, JobPaper, RowPaper
  <1>7. OffPaper(j)' /\ printed'[j] = 0
    <2>1. printed'[j] = 0 /\ \A b \in Agents : win'[b][j].st # "approved"
      BY <1>1, <1>4, <1>6 DEF OffPaper
    <2> QED
      BY <1>1, <1>2, <2>1, LeaseAlone
  <1>8. RowPaper(j)'
    <2>1. "leased" \in BEFORE_HANDOVER
      BY DEF BEFORE_HANDOVER
    <2> QED
      BY <1>3, <1>7, <2>1 DEF RowPaper
  <1>9. ASSUME NEW b \in Agents PROVE JournalPaper(b, j)'
    <2>1. JournalPaper(b, j) /\ win[b][j].gen \in Nat
      BY <1>2, <1>6 DEF JobPaper
    <2>2. CASE win'[b][j] = win[b][j]
      <3>1. win[b][j].gen < g
        BY <1>2, <1>5, <2>1 DEF JournalPaper
      <3> QED
        BY <1>3, <1>5, <1>7, <2>1, <2>2, <3>1 DEF JournalPaper, Owns
    <2>3. CASE win'[b][j].st = "granted" /\ win'[b][j].gen = g
      BY <1>3, <1>5, <1>7, <2>3 DEF JournalPaper
    <2> QED
      BY <1>4, <2>2, <2>3
  <1>10. ASSUME NEW b \in Agents PROVE CallPaper(b, j)'
    BY <1>1, <1>3, <1>n DEF CallPaper
  <1>11. Keeps(j)
    BY <1>1, <1>3, <1>8, <1>9, <1>10 DEF Keeps, JobPaper, Settled
  <1>12. \A k \in Jobs \ {j} : Untouched(k)
    BY <1>1, <1>3, <1>4 DEF Untouched
  <1> QED
    BY <1>11, <1>12, OneKept

\* print_intent(): approved is only the holder, before anything of this lease was handed over.
LEMMA IntentPaper ==
    ASSUME PrintInv, PaperInv, NEW a \in Agents, NEW j \in Jobs, Intent(a, j), UNCHANGED <<route, lin>>
    PROVE  PaperInv'
  <1> DEFINE s == [job[j] EXCEPT !.phase = "submitting"]
  <1>1. /\ win[a][j].st = "granted" /\ call[a].j = None /\ UNCHANGED <<printed, call>>
        /\ job' = job \/ (job' = [job EXCEPT ![j] = s] /\ Owns(a, j) /\ job[j].status = "sent")
        /\ \/ win' = win
           \/ Journal(a, j, "none") /\ job' = job
           \/ /\ Journal(a, j, "approved") /\ Owns(a, j) /\ job[j].status = "sent"
              /\ job' = [job EXCEPT ![j] = s] \/ (job' = job /\ job[j].phase = "submitting")
    BY DEF Intent, Free, rest
  <1>2. /\ job \in [Jobs -> Row] /\ Pushed /\ TypeOKAgent /\ RowsOK /\ job[j].gen \in Nat
        /\ JobPaper(j) /\ None \notin Jobs /\ None \notin Agents
    BY PrintJobAssumption DEF PrintInv, TypeOK, TypeOKJobs, PaperInv, RowsOK, Row, Holders
  <1>3. /\ \A k \in Jobs \ {j} : job'[k] = job[k]
        /\ \/ job'[j] = job[j]
           \/ job'[j] = s /\ Owns(a, j) /\ job[j].status = "sent"
    BY <1>1, <1>2
  <1>4. /\ s.phase = "submitting" /\ s.status = job[j].status /\ s.delivery = job[j].delivery
        /\ s.holder = job[j].holder /\ s.token = job[j].token /\ s.gen = job[j].gen
        /\ s.parent = job[j].parent /\ s.source = job[j].source
    BY <1>2 DEF Row
  <1>5. "submitting" \in HANDED_OVER /\ "submitting" \notin BEFORE_HANDOVER
    BY DEF HANDED_OVER, BEFORE_HANDOVER
  <1> HIDE DEF s
  <1>6. Owns(a, j) => job[j].delivery = "lease"
    BY <1>2 DEF Owns, RowsOK, RowsFit, Fit
  <1>7. QuietRow(j)
    <2>1. CASE job'[j] = job[j]
      BY <1>2, <2>1, SameQuiet
    <2>2. CASE job'[j] = s /\ Owns(a, j) /\ job[j].status = "sent"
      BY <1>4, <1>5, <1>6, <2>2 DEF QuietRow
    <2> QED
      BY <1>3, <2>1, <2>2
  <1>8. CASE win' = win \/ Journal(a, j, "none")
    <2>1. /\ QuietJournal(a, j)
          /\ \A b \in Agents, k \in Jobs : b # a \/ k # j => win'[b][k] = win[b][k]
      BY <1>2, <1>8, JournalQuiet, JournalSets DEF QuietJournal
    <2> QED
      BY <1>1, <1>3, <1>7, <2>1, AgentQuiet
  <1>9. CASE /\ Journal(a, j, "approved") /\ Owns(a, j) /\ job[j].status = "sent"
             /\ job'[j].phase = "submitting"
    <2>1. /\ win'[a][j].st = "approved" /\ win'[a][j].gen = win[a][j].gen
          /\ \A b \in Agents, k \in Jobs : b # a \/ k # j => win'[b][k] = win[b][k]
      BY <1>2, <1>9, JournalSets
    <2>2. printed[j] = 0
      BY <1>1, <1>2, <1>9 DEF JobPaper, JournalPaper, OffPaper
    <2>3. /\ job'[j].status = "sent" /\ job'[j].delivery = "lease" /\ job'[j].holder = a
          /\ job'[j].token = job[j].token /\ job'[j].gen = job[j].gen
          /\ job'[j].parent = job[j].parent /\ job'[j].source = job[j].source
      BY <1>3, <1>4, <1>6, <1>9 DEF Owns
    <2>4. RowPaper(j)'
      BY <1>1, <1>5, <1>9, <2>2, <2>3 DEF RowPaper
    <2>5. ASSUME NEW b \in Agents PROVE JournalPaper(b, j)'
      <3>1. JournalPaper(b, j)
        BY <1>2 DEF JobPaper
      <3>2. CASE b = a
        BY <1>1, <2>1, <2>2, <2>3, <3>1, <3>2 DEF JournalPaper
      <3>3. CASE b # a
        BY <1>1, <2>1, <2>2, <2>3, <3>1, <3>3 DEF JournalPaper, Owns
      <3> QED
        BY <3>2, <3>3
    <2>6. ASSUME NEW b \in Agents PROVE CallPaper(b, j)'
      BY <1>1, <1>2, <2>3 DEF CallPaper
    <2>7. Keeps(j)
      BY <1>9, <2>3, <2>4, <2>5, <2>6 DEF Keeps, JobPaper, Settled
    <2>8. \A k \in Jobs \ {j} : Untouched(k)
      BY <1>1, <1>3, <2>1 DEF Untouched
    <2> QED
      BY <2>7, <2>8, OneKept
  <1>10. job' = job \/ job'[j] = s
    BY <1>1, <1>2
  <1> QED
    BY <1>1, <1>4, <1>8, <1>9, <1>10, <1>2

\* The agent hands over: it is the only one approved, and nothing was printed before.
LEMMA SubmitPaper ==
    ASSUME PrintInv, HandoverInv, PaperInv, NEW a \in Agents, NEW j \in Jobs, Submit(a, j),
           UNCHANGED <<route, lin>>
    PROVE  PaperInv'
  <1>1. /\ win[a][j].st = "approved" /\ UNCHANGED <<job, call>>
        /\ \/ Journal(a, j, "handed") /\ printed' = [printed EXCEPT ![j] = @ + 1]
           \/ Journal(a, j, "rejected") /\ UNCHANGED printed
    BY DEF Submit
  <1>2. /\ TypeOKAgent /\ Pushed /\ printed \in [Jobs -> Nat] /\ JobPaper(j)
        /\ JournalPaper(a, j)
    BY DEF PrintInv, TypeOK, TypeOKJobs, PaperInv, JobPaper
  <1>3. Owns(a, j) /\ HeldRow(job[j]) /\ call[a].j # j
    BY <1>1 DEF HandoverInv, SpoolerHolds, AtSpooler, Reporting
  <1>4. printed[j] = 0 /\ job[j].delivery = "lease" /\ job[j].status # "absent"
    BY <1>1, <1>2 DEF JournalPaper
  <1>5. \A b \in Agents \ {a} : ~Owns(b, j) /\ win[b][j].st # "approved"
    <2>1. \A b \in Agents \ {a} : ~Owns(b, j)
      BY <1>3 DEF Owns
    <2> QED
      BY <2>1 DEF HandoverInv, SpoolerHolds, AtSpooler
  <1>6. /\ win'[a][j].gen = win[a][j].gen
        /\ \/ win'[a][j].st = "handed"
           \/ win'[a][j].st = "rejected" /\ printed'[j] = 0
        /\ \A b \in Agents, k \in Jobs : b # a \/ k # j => win'[b][k] = win[b][k]
    BY <1>1, <1>2, <1>4, JournalSets
  <1>7. printed'[j] \in {0, 1} /\ \A k \in Jobs \ {j} : printed'[k] = printed[k]
    BY <1>1, <1>2, <1>4
  <1>8. win'[a][j].st = "rejected" => OffPaper(j)'
    <2>1. ASSUME win'[a][j].st = "rejected" PROVE \A b \in Agents : win'[b][j].st # "approved"
      BY <1>5, <1>6, <2>1
    <2> QED
      BY <1>2, <1>4, <1>6, <2>1, LeaseAlone
  <1>9. RowPaper(j)'
    <2>1. job[j].status \in {"done", "canceled", "uncertain"} \/ (job[j].status = "sent" /\ job[j].phase = "submitting")
      BY <1>3 DEF HeldRow
    <2>2. "submitting" \in HANDED_OVER /\ "submitting" \notin BEFORE_HANDOVER
      BY DEF HANDED_OVER, BEFORE_HANDOVER
    <2> QED
      BY <1>1, <1>4, <1>7, <2>1, <2>2 DEF RowPaper
  <1>10. ASSUME NEW b \in Agents PROVE JournalPaper(b, j)'
    <2>1. CASE b = a
      BY <1>1, <1>2, <1>4, <1>6, <1>8, <2>1 DEF JournalPaper
    <2>2. CASE b # a
      <3>1. JournalPaper(b, j) /\ ~Owns(b, j) /\ win[b][j].st # "approved"
        BY <1>2, <1>5, <2>2 DEF JobPaper
      <3> QED
        BY <1>1, <1>6, <2>2, <3>1 DEF JournalPaper, Owns
    <2> QED
      BY <2>1, <2>2
  <1>11. ASSUME NEW b \in Agents PROVE CallPaper(b, j)'
    BY <1>1, <1>3, <1>4 DEF CallPaper, Owns
  <1>12. Settled(j) => Settled(j)'
    BY <1>1 DEF Settled, OffPaper
  <1>13. Keeps(j)
    BY <1>1, <1>9, <1>10, <1>11, <1>12 DEF Keeps, JobPaper
  <1>14. \A k \in Jobs \ {j} : Untouched(k)
    BY <1>1, <1>6, <1>7 DEF Untouched
  <1> QED
    BY <1>13, <1>14, OneKept

\* A proof is only given for a lease of which nothing was handed over.
LEMMA ProofStates ==
    ASSUME NEW st, NEW r \in ReportsOf(st), r.proof
    PROVE  st \in {"fetch_failed", "rejected"}
  <1>1. st \in {"fetch_failed", "rejected", "unclear", "spooled", "printing"}
    BY ReportsTyped
  <1>2. CASE st = "unclear"
    BY <1>2 DEF ReportsOf
  <1>3. CASE st = "spooled"
    BY <1>3 DEF ReportsOf
  <1>4. CASE st = "printing"
    BY <1>4 DEF ReportsOf
  <1> QED
    BY <1>1, <1>2, <1>3, <1>4

\* apply_agent_status() reads the row, or turns the report down at once.
LEMMA StatusReadPaper ==
    ASSUME PrintInv, PaperInv, NEW a \in Agents, NEW j \in Jobs, NEW r \in ReportsOf(win[a][j].st),
           StatusRead(a, j, r), UNCHANGED <<route, lin>>
    PROVE  PaperInv'
  <1> DEFINE c == [j |-> j, report |-> r, phase |-> job[j].phase, gen |-> job[j].gen]
  <1>1. /\ UNCHANGED <<job, printed>> /\ call[a].j = None
        /\ \/ Owns(a, j) /\ call' = [call EXCEPT ![a] = c] /\ UNCHANGED win
           \/ UNCHANGED call /\ \E acked \in BOOLEAN : Acked(a, j, r, acked)
    BY DEF StatusRead, Free, rest
  <1>2. /\ TypeOKAgent /\ JobPaper(j) /\ JournalPaper(a, j) /\ job[j].gen \in Nat
    BY DEF PrintInv, TypeOK, TypeOKJobs, PaperInv, JobPaper, Row
  <1>3. win[a][j].st \in {"fetch_failed", "rejected", "unclear", "spooled", "printing"}
    BY ReportsTyped
  <1>4. job[j].delivery = "lease" /\ job[j].status # "absent"
    BY <1>2, <1>3 DEF JournalPaper
  <1>5. QuietRow(j)
    BY <1>1, <1>2, SameQuiet
  <1>6. CASE UNCHANGED call /\ \E acked \in BOOLEAN : Acked(a, j, r, acked)
    <2>1. UNCHANGED win \/ \E st \in {"none", "printing"} : Journal(a, j, st)
      BY <1>6 DEF Acked
    <2>2. /\ QuietJournal(a, j)
          /\ \A b \in Agents, k \in Jobs : b # a \/ k # j => win'[b][k] = win[b][k]
      BY <1>2, <1>4, <2>1, JournalQuiet, JournalSets DEF QuietJournal
    <2> QED
      BY <1>1, <1>5, <1>6, <2>2, AgentQuiet
  <1>7. CASE Owns(a, j) /\ call' = [call EXCEPT ![a] = c] /\ UNCHANGED win
    <2>1. call'[a] = c /\ \A b \in Agents \ {a} : call'[b] = call[b]
      BY <1>2, <1>7 DEF TypeOKAgent
    <2>2. c.j = j /\ c.report = r
      OBVIOUS
    <2> HIDE DEF c
    <2>3. r.proof => OffPaper(j)
      BY <1>2, <1>7, ProofStates DEF JournalPaper
    <2>4. OffPaper(j) => OffPaper(j)'
      BY <1>1, <1>7 DEF OffPaper
    <2>5. CallPaper(a, j)'
      BY <1>1, <1>4, <2>1, <2>2, <2>3, <2>4 DEF CallPaper
    <2>6. \A b \in Agents : QuietJournal(b, j) /\ QuietCall(b, j)
      BY <1>7, <2>1, <2>5 DEF QuietJournal, QuietCall
    <2>7. Keeps(j)
      BY <1>1, <1>2, <1>5, <2>6, QuietKeeps
    <2>8. \A k \in Jobs \ {j} : Untouched(k)
      BY <1>1, <1>7, <2>1, <2>2 DEF Untouched
    <2> QED
      BY <2>7, <2>8, OneKept
  <1> QED
    BY <1>1, <1>6, <1>7

\* apply_agent_status() writes, if its fence holds.
LEMMA StatusWritePaper ==
    ASSUME PrintInv, PaperInv, NEW a \in Agents, StatusWrite(a), UNCHANGED <<route, lin>>
    PROVE  PaperInv'
  <1>1. PICK c : c = call[a]
    OBVIOUS
  <1>2. TypeOKAgent /\ RowsOK
    BY DEF PrintInv, TypeOK, TypeOKJobs, RowsOK
  <1>3. PICK j \in Jobs : j = c.j /\ c.report \in Report
    BY <1>1, <1>2 DEF TypeOKAgent, StatusWrite, Free, NoCall
  <1> DEFINE after == AfterReport(job[j], c)
  <1>4. /\ \/ UNCHANGED job
           \/ /\ job' = [job EXCEPT ![j] = after]
              /\ job[j].holder = a /\ job[j].token = c.gen /\ job[j].token # 0
              /\ job[j].status \notin ENDED /\ job[j].phase = c.phase
        /\ \E acked \in BOOLEAN : Acked(a, j, c.report, acked)
        /\ call' = [call EXCEPT ![a] = NoCall] /\ UNCHANGED printed
    BY <1>1, <1>3 DEF StatusWrite
  <1>5. JobPaper(j) /\ CallPaper(a, j)
    BY DEF PaperInv, JobPaper
  <1>6. /\ job[j].delivery = "lease" /\ job[j].status # "absent"
        /\ c.report.proof /\ job[j].holder = a /\ job[j].token = c.gen /\ job[j].token # 0 => OffPaper(j)
    BY <1>1, <1>3, <1>5 DEF CallPaper
  <1>7. \/ job' = job
        \/ job' = [job EXCEPT ![j] = after] /\ job'[j] = after
    BY <1>2, <1>4 DEF RowsOK
  <1>8. QuietRow(j) /\ \A k \in Jobs \ {j} : job'[k] = job[k]
    <2>1. CASE job' = job
      BY <1>5, <2>1, SameQuiet
    <2>2. CASE job' # job
      <3>1. job' = [job EXCEPT ![j] = after] /\ job'[j] = after
        BY <1>7, <2>2
      <3>2. \A k \in Jobs \ {j} : job'[k] = job[k]
        <4> HIDE DEF after
        <4> QED
          BY <1>2, <3>1 DEF RowsOK
      <3>3. QuietRow(j)
        BY <1>2, <1>3, <1>4, <1>5, <1>6, <2>2, <3>1, ReportQuiet
      <3> QED
        BY <3>2, <3>3
    <2> QED
      BY <2>1, <2>2
  <1>9. UNCHANGED win \/ \E st \in {"none", "printing"} : Journal(a, j, st)
    BY <1>4 DEF Acked
  <1>10. /\ QuietJournal(a, j)
         /\ \A b \in Agents, k \in Jobs : b # a \/ k # j => win'[b][k] = win[b][k]
    BY <1>2, <1>6, <1>9, JournalQuiet, JournalSets DEF QuietJournal
  <1>11. \A b \in Agents : call'[b] = call[b] \/ call'[b] = NoCall
    BY <1>2, <1>4 DEF TypeOKAgent
  <1> QED
    BY <1>4, <1>8, <1>10, <1>11, AgentQuiet

\* A restarted agent forgets what was not approved and prints nothing again.
LEMMA RestartQuiet ==
    ASSUME PrintInv, PaperInv, NEW a \in Agents, AgentRestart(a), NEW k \in Jobs
    PROVE  QuietJournal(a, k)
  <1> DEFINE After(found, i) == CASE win[a][i].st \in {"granted", "fetch_failed"} -> NoLease
                                  [] win[a][i].st = "handed" /\ found -> [win[a][i] EXCEPT !.st = "spooled"]
                                  [] win[a][i].st \in {"approved", "handed"} -> [win[a][i] EXCEPT !.st = "unclear"]
                                  [] OTHER -> win[a][i]
  <1>1. PICK found \in BOOLEAN : win' = [win EXCEPT ![a] = [i \in Jobs |-> After(found, i)]]
    BY DEF AgentRestart
  <1>2. win[a][k] \in [st : WinState, gen : 0 .. MaxGen] /\ win'[a][k] = After(found, k)
    <2>1. win \in [Agents -> [Jobs -> [st : WinState, gen : 0 .. MaxGen]]]
      BY DEF PrintInv, TypeOK, TypeOKAgent
    <2> HIDE DEF After
    <2> QED
      BY <1>1, <2>1
  <1>3. \/ After(found, k) = NoLease
        \/ After(found, k) = win[a][k]
        \/ /\ win[a][k].st \in {"approved", "handed"}
           /\ \E st \in {"spooled", "unclear"} : After(found, k) = [win[a][k] EXCEPT !.st = st]
    OBVIOUS
  <1> HIDE DEF After
  <1>4. win[a][k].st # "none" => job[k].delivery = "lease" /\ job[k].status # "absent"
    BY DEF PaperInv, JobPaper, JournalPaper
  <1>5. \A st \in {"spooled", "unclear"} : /\ [win[a][k] EXCEPT !.st = st].st = st
                                           /\ [win[a][k] EXCEPT !.st = st].gen = win[a][k].gen
    BY <1>2
  <1> QED
    BY <1>2, <1>3, <1>4, <1>5 DEF QuietJournal

\* The restart of an agent keeps the invariant.
LEMMA RestartPaper ==
    ASSUME PrintInv, PaperInv, NEW a \in Agents, AgentRestart(a), UNCHANGED <<route, lin>>
    PROVE  PaperInv'
  <1>1. /\ UNCHANGED <<job, printed, call>> /\ TypeOKAgent
        /\ \A k \in Jobs : job[k].gen \in Nat
    BY DEF AgentRestart, rest, PrintInv, TypeOK, TypeOKJobs, Row
  <1>2. \A b \in Agents \ {a}, k \in Jobs : win'[b][k] = win[b][k]
    BY <1>1 DEF AgentRestart, TypeOKAgent
  <1>3. ASSUME NEW k \in Jobs PROVE Keeps(k)
    <2>1. JobPaper(k) /\ QuietRow(k)
      BY <1>1, SameQuiet DEF PaperInv
    <2>2. \A b \in Agents : QuietJournal(b, k) /\ QuietCall(b, k)
      BY <1>1, <1>2, RestartQuiet DEF QuietJournal, QuietCall
    <2> QED
      BY <1>1, <2>1, <2>2, QuietKeeps
  <1> QED
    BY <1>3, AllKept

\* sweep(): an expired lease that was not handed over, or a job that has waited too long.
LEMMA SweepPaper ==
    ASSUME PrintInv, PaperInv, NEW j \in Jobs, Sweep(j), UNCHANGED <<route, lin>>
    PROVE  PaperInv'
  <1>1. /\ RowsOK /\ JobPaper(j) /\ UNCHANGED <<printed, route, lin, agentVars>>
    BY DEF PrintInv, TypeOK, TypeOKJobs, RowsOK, PaperInv, Sweep, SweepLapsed, SweepSilent,
           SweepQueued, rest
  <1>2. ASSUME NEW st \in {"failed", "uncertain"}, job' = [job EXCEPT ![j].status = st],
               st = "failed" => OffPaper(j), job[j].status \in {"queued", "sent", "printing"}
        PROVE  PaperInv'
    <2>1. st \in ENDED
      BY DEF ENDED, JOB_TERMINAL
    <2> QED
      BY <1>1, <1>2, <2>1, OutcomeKept
  <1>3. CASE SweepLapsed(j)
    <2>1. /\ job[j].delivery = "lease" /\ job[j].status = "sent" /\ job[j].phase \in BEFORE_HANDOVER
          /\ \/ job' = [job EXCEPT ![j] = Released(job[j])]
             \/ job' = [job EXCEPT ![j].status = "failed"]
      BY <1>3 DEF SweepLapsed, Waits
    <2>2. OffPaper(j)
      BY <1>1, <2>1 DEF JobPaper, RowPaper
    <2>3. CASE job' = [job EXCEPT ![j] = Released(job[j])]
      <3>1. job'[j] = Released(job[j]) /\ job[j].status \notin ENDED
        BY <1>1, <2>1, <2>3 DEF RowsOK, ENDED, JOB_TERMINAL
      <3>2. QuietRow(j)
        BY <1>1, <2>2, <3>1, ReleasedQuiet
      <3> QED
        BY <1>1, <2>3, <3>2, RowOnly
    <2> QED
      BY <1>2, <2>1, <2>2, <2>3
  <1>4. CASE SweepSilent(j)
    BY <1>2, <1>4 DEF SweepSilent, Waits
  <1>5. CASE SweepQueued(j)
    <2>1. job[j].status = "queued" /\ job' = [job EXCEPT ![j].status = "failed"]
      BY <1>5 DEF SweepQueued
    <2>2. OffPaper(j)
      BY <1>1, <2>1 DEF JobPaper, RowPaper
    <2> QED
      BY <1>2, <2>1, <2>2
  <1> QED
    BY <1>3, <1>4, <1>5 DEF Sweep

\* Every step of the lease delivery.
LEMMA AgentPaper ==
    ASSUME PrintInv, HandoverInv, PaperInv, NextAgent, UNCHANGED linuxVars
    PROVE  PaperInv'
  <1>1. /\ UNCHANGED <<route, lin>> /\ TypeOKAgent /\ RowsOK
    BY DEF PrintInv, TypeOK, TypeOKJobs, RowsOK, linuxVars
  <1>2. ASSUME NEW a \in Agents, NEW j \in Jobs, Renew(a, j) \/ Spooled(a, j) \/ Drop(a, j)
        PROVE  PaperInv'
    <2>1. /\ UNCHANGED <<job, printed, call>>
          /\ \/ Journal(a, j, "none")
             \/ Journal(a, j, "spooled") /\ win[a][j].st = "handed"
      BY <1>2 DEF Renew, Spooled, Drop, rest
    <2>2. JobPaper(j) /\ JournalPaper(a, j)
      BY DEF PaperInv, JobPaper
    <2>3. QuietRow(j)
      BY <2>1, <2>2, SameQuiet
    <2>4. QuietJournal(a, j)
      BY <1>1, <2>1, <2>2, JournalQuiet DEF JournalPaper
    <2>5. \A b \in Agents, k \in Jobs : b # a \/ k # j => win'[b][k] = win[b][k]
      BY <1>1, <2>1, JournalSets
    <2> QED
      BY <1>1, <2>1, <2>3, <2>4, <2>5, AgentQuiet
  <1>3. ASSUME NEW a \in Agents, NEW j \in Jobs, FetchFails(a, j) PROVE PaperInv'
    <2>1. /\ win[a][j].st = "granted" /\ Journal(a, j, "fetch_failed") /\ UNCHANGED <<printed, call>>
          /\ UNCHANGED job \/ job' = [job EXCEPT ![j] = AfterRenderError(job[j])]
      BY <1>3 DEF FetchFails, rest
    <2>2. JobPaper(j) /\ job[j].delivery = "lease" /\ job[j].status # "absent"
      BY <2>1 DEF PaperInv, JobPaper, JournalPaper
    <2>3. QuietRow(j) /\ \A k \in Jobs \ {j} : job'[k] = job[k]
      <3>1. CASE UNCHANGED job
        BY <2>2, <3>1, SameQuiet
      <3>2. CASE job' = [job EXCEPT ![j] = AfterRenderError(job[j])]
        <4>1. job'[j] = AfterRenderError(job[j]) /\ \A k \in Jobs \ {j} : job'[k] = job[k]
          BY <1>1, <3>2 DEF RowsOK
        <4> QED
          BY <1>1, <2>2, <4>1, RenderQuiet
      <3> QED
        BY <2>1, <3>1, <3>2
    <2>4. QuietJournal(a, j)
      BY <1>1, <2>1, <2>2, JournalQuiet
    <2>5. \A b \in Agents, k \in Jobs : b # a \/ k # j => win'[b][k] = win[b][k]
      BY <1>1, <2>1, JournalSets
    <2> QED
      BY <1>1, <2>1, <2>3, <2>4, <2>5, AgentQuiet
  <1>4. ASSUME NEW a \in Agents, StatusLost(a) PROVE PaperInv'
    <2>1. /\ UNCHANGED <<job, printed, win>>
          /\ \A b \in Agents : call'[b] = call[b] \/ call'[b] = NoCall
      BY <1>1, <1>4 DEF StatusLost, rest, TypeOKAgent
    <2>2. \A k \in Jobs : NoCall.j # k
      BY PrintJobAssumption DEF NoCall
    <2>3. \A k \in Jobs : Untouched(k)
      BY <1>1, <2>1, <2>2 DEF Untouched
    <2>4. \A k \in Jobs : Keeps(k)
      BY <2>3, UntouchedKeeps DEF PaperInv
    <2> QED
      BY <2>4, AllKept
  <1>5. ASSUME NEW a \in Agents, NEW j \in Jobs, Lease(a, j) \/ Intent(a, j) \/ Submit(a, j)
        PROVE  PaperInv'
    BY <1>1, <1>5, LeasePaper, IntentPaper, SubmitPaper
  <1>6. ASSUME NEW a \in Agents, NEW j \in Jobs, NEW r \in ReportsOf(win[a][j].st), StatusRead(a, j, r)
        PROVE  PaperInv'
    BY <1>1, <1>6, StatusReadPaper
  <1>7. ASSUME NEW a \in Agents, StatusWrite(a) PROVE PaperInv'
    BY <1>1, <1>7, StatusWritePaper
  <1>8. ASSUME NEW a \in Agents, AgentRestart(a) PROVE PaperInv'
    BY <1>1, <1>8, RestartPaper
  <1>9. ASSUME NEW j \in Jobs, Sweep(j) PROVE PaperInv'
    BY <1>1, <1>9, SweepPaper
  <1> QED
    BY <1>2, <1>3, <1>4, <1>5, <1>6, <1>7, <1>8, <1>9 DEF NextAgent, CloudAgent, LocalAgent

-----------------------------------------------------------------------------
(* Push delivery. *)

\* The step that breaks it: prepare() sends a waiting job that still carries the token of
\* an earlier transport to a gateway that speaks the old protocol (a reconnect resets
\* print_protocol to 1).  The row then looks like one whose gateway asks, so a render
\* error of it counts as proof that nothing was printed (linux_print_service.py:84,
\* mark_job_failed() in print_dispatcher.py:308).
UnfencedTransport(j) == Prepare(j) /\ proto < 2 /\ job[j].token # 0

\* The part of OffPaper that the gateway has in its hands.
GatewayOff(j) ==
    /\ printed[j] = 0
    /\ lin[j] # "approved"
    /\ ~route[j].asks => /\ lin[j] # "got"
                         /\ lin[j] = "none" => route[j].state \notin {"queued", "sending"}

\* A step of the gateway or of the workers that serve it changes one job only.
OnlyJob(j) ==
    \A k \in Jobs \ {j} : /\ job'[k] = job[k] /\ printed'[k] = printed[k]
                          /\ route'[k] = route[k] /\ lin'[k] = lin[k]

\* What such a step has to respect of a pushed job.
QuietPush(j) ==
    /\ job'[j].delivery = "push" /\ job'[j].gen \in Nat
    /\ job'[j].parent = job[j].parent /\ job'[j].source = job[j].source
    /\ printed'[j] <= 1
    /\ lin'[j] \in {"none", "got", "approved", "gave_up"} => printed'[j] = 0
    /\ job'[j].status \in {"sent", "printing"} /\ job'[j].token # 0 => route'[j].asks
    /\ job'[j].status \in {"absent", "queued", "failed"} => GatewayOff(j)'
    /\ Settled(j) => job'[j].status \in {"failed", "canceled"} /\ GatewayOff(j)'

\* A step that respects that keeps the invariant.
LEMMA PushPaper ==
    ASSUME PrintInv, PaperInv, UNCHANGED agentVars, NEW j \in Jobs,
           job[j].delivery = "push", OnlyJob(j), QuietPush(j)
    PROVE  PaperInv'
  <1>1. JobPaper(j) /\ job[j].gen \in Nat
    BY DEF PaperInv, PrintInv, TypeOK, TypeOKJobs, Row
  <1>2. GatewayOff(j)' => OffPaper(j)'
    <2>1. \A a \in Agents : win'[a][j].st # "approved"
      BY <1>1 DEF JobPaper, JournalPaper, agentVars
    <2> QED
      BY <2>1 DEF GatewayOff, OffPaper
  <1>3. RowPaper(j)'
    BY <1>2 DEF RowPaper, QuietPush
  <1>4. Settled(j) => Settled(j)'
    BY <1>2 DEF Settled, QuietPush
  <1>5. Keeps(j)
    BY <1>1, <1>3, <1>4, PushKeeps DEF QuietPush
  <1>6. \A k \in Jobs \ {j} : Untouched(k)
    BY DEF Untouched, OnlyJob, agentVars
  <1> QED
    BY <1>5, <1>6, OneKept

\* Writing one entry of a table.
LEMMA OneEntry ==
    ASSUME PrintInv, NEW j \in Jobs
    PROVE  /\ \A s : job' = [job EXCEPT ![j] = s] =>
                 job'[j] = s /\ \A k \in Jobs \ {j} : job'[k] = job[k]
           /\ \A s : route' = [route EXCEPT ![j] = s] =>
                 route'[j] = s /\ \A k \in Jobs \ {j} : route'[k] = route[k]
           /\ \A s : lin' = [lin EXCEPT ![j] = s] =>
                 lin'[j] = s /\ \A k \in Jobs \ {j} : lin'[k] = lin[k]
           /\ \A s : printed' = [printed EXCEPT ![j] = s] =>
                 printed'[j] = s /\ \A k \in Jobs \ {j} : printed'[k] = printed[k]
  BY DEF PrintInv, TypeOK, TypeOKJobs, TypeOKLinux

\* prepare(), when it does not break the fence.
LEMMA PreparePaper ==
    ASSUME PrintInv, PaperInv, UNCHANGED agentVars, NEW j \in Jobs, Prepare(j), ~UnfencedTransport(j)
    PROVE  PaperInv'
  <1> DEFINE g     == job[j].gen + 1
             asks  == proto >= 2
             token == IF asks THEN g ELSE job[j].token
             phase == IF token # 0 THEN "prepared" ELSE "dispatched"
             s     == [job[j] EXCEPT !.status = "sent", !.token = token, !.gen = g, !.phase = phase]
             l     == [state |-> "queued", conn |-> conn, gen |-> g, asks |-> asks]
  <1>1. /\ job[j].status = "queued" /\ job[j].delivery = "push"
        /\ job' = [job EXCEPT ![j] = s] /\ route' = [route EXCEPT ![j] = l]
        /\ UNCHANGED <<printed, lin>>
    BY DEF Prepare, others
  <1>2. /\ job[j] \in Row /\ job[j].gen \in Nat /\ proto \in {1, 2}
    BY DEF PrintInv, TypeOK, TypeOKJobs, TypeOKLinux, Row
  <1>3. job'[j] = s /\ route'[j] = l /\ OnlyJob(j)
    <2> HIDE DEF s, l
    <2>1. job'[j] = s /\ \A k \in Jobs \ {j} : job'[k] = job[k]
      BY <1>1, OneEntry
    <2>2. route'[j] = l /\ \A k \in Jobs \ {j} : route'[k] = route[k]
      BY <1>1, OneEntry
    <2> QED
      BY <1>1, <2>1, <2>2 DEF OnlyJob
  <1>4. /\ s.status = "sent" /\ s.delivery = "push" /\ s.gen = g /\ s.token = token
        /\ s.parent = job[j].parent /\ s.source = job[j].source
    BY <1>1, <1>2 DEF Row
  <1>5. printed[j] = 0
    BY <1>1 DEF PaperInv, JobPaper, RowPaper, OffPaper
  <1>6. token # 0 => asks
    BY <1>2 DEF UnfencedTransport
  <1>7. l.asks = asks /\ g \in Nat
    BY <1>2
  <1> HIDE DEF s, l, g, token, asks
  <1>8. QuietPush(j)
    <2>1. ~Settled(j)
      BY <1>1 DEF Settled
    <2> QED
      BY <1>1, <1>3, <1>4, <1>5, <1>6, <1>7, <2>1 DEF QuietPush
  <1> QED
    BY <1>1, <1>3, <1>8, PushPaper

\* A job with a transport, or one that the gateway knows, is a pushed job.
LEMMA TransportPushed ==
    ASSUME PrintInv, PaperInv, NEW j \in Jobs, route[j].state # "none" \/ lin[j] # "none"
    PROVE  /\ job[j].delivery = "push" /\ job[j].status \notin {"queued", "absent"}
           /\ lin[j] # "none" => route[j].state \in {"delivered", "failed"}
           /\ job[j].gen \in Nat /\ job[j] \in Row /\ printed[j] \in Nat
           /\ RowPaper(j)
  <1>1. /\ lin[j] # "none" => route[j].state \in {"delivered", "failed"}
        /\ route[j].state # "none" => job[j].delivery = "push" /\ job[j].status \notin {"queued", "absent"}
    BY DEF PrintInv, Pushed
  <1> QED
    BY <1>1 DEF PrintInv, TypeOK, TypeOKJobs, Row, PaperInv, JobPaper

\* A transport that gets another state is still of its connection and generation, and asks
\* or does not.
LEMMA RouteState ==
    ASSUME PrintInv, NEW j \in Jobs, NEW st, route' = [route EXCEPT ![j].state = st]
    PROVE  /\ route'[j].state = st /\ route'[j].asks = route[j].asks
           /\ \A k \in Jobs \ {j} : route'[k] = route[k]
  <1>1. /\ route[j] \in [state : {"none", "queued", "sending", "delivered", "failed", "expired"},
                         conn : 0 .. MaxConn, gen : 0 .. MaxGen, asks : BOOLEAN]
        /\ DOMAIN route = Jobs
    BY DEF PrintInv, TypeOK, TypeOKLinux
  <1> DEFINE r == [route[j] EXCEPT !.state = st]
  <1>2. r.state = st /\ r.asks = route[j].asks
    BY <1>1
  <1>3. route' = [route EXCEPT ![j] = r]
    OBVIOUS
  <1> HIDE DEF r
  <1>4. route'[j] = r /\ \A k \in Jobs \ {j} : route'[k] = route[k]
    BY <1>1, <1>3
  <1> QED
    BY <1>2, <1>4

\* The transport: claimed, sent or lost, proceeded with, submitted.
LEMMA TransportPaper ==
    ASSUME PrintInv, PaperInv, UNCHANGED agentVars, NEW j \in Jobs,
           ClaimRoute(j) \/ Sent(j) \/ LinuxProceeds(j) \/ LinuxSubmit(j)
    PROVE  PaperInv'
  <1>1. job' = job
    BY DEF ClaimRoute, Sent, LinuxProceeds, LinuxSubmit, jobVars
  <1>2. ASSUME route[j].state # "none" \/ lin[j] # "none", OnlyJob(j), printed'[j] <= 1,
               lin'[j] \in {"none", "got", "approved", "gave_up"} => printed'[j] = 0,
               route'[j].asks = route[j].asks, GatewayOff(j) => GatewayOff(j)'
        PROVE  PaperInv'
    <2>1. /\ job[j].delivery = "push" /\ job[j].gen \in Nat
          /\ RowPaper(j)
      BY <1>2, TransportPushed
    <2>2. OffPaper(j) => GatewayOff(j)
      BY DEF OffPaper, GatewayOff
    <2>3. QuietPush(j)
      BY <1>1, <1>2, <2>1, <2>2 DEF QuietPush, RowPaper, Settled
    <2> QED
      BY <1>2, <2>1, <2>3, PushPaper
  <1>3. CASE ClaimRoute(j)
    <2>1. /\ route[j].state = "queued" /\ UNCHANGED <<lin, printed>>
          /\ \E st \in {"sending", "expired"} : route' = [route EXCEPT ![j].state = st]
      BY <1>3 DEF ClaimRoute, jobVars
    <2>2. /\ route'[j].state \in {"sending", "expired"} /\ route'[j].asks = route[j].asks
          /\ \A k \in Jobs \ {j} : route'[k] = route[k]
      <3>1. PICK st \in {"sending", "expired"} : route' = [route EXCEPT ![j].state = st]
        BY <2>1
      <3> QED
        BY <3>1, RouteState
    <2>3. OnlyJob(j)
      BY <1>1, <2>1, <2>2 DEF OnlyJob
    <2>4. lin[j] = "none" /\ RowPaper(j) /\ job[j].delivery = "push"
      BY <2>1, TransportPushed
    <2>5. printed[j] = 0
      BY <2>4 DEF RowPaper
    <2>6. GatewayOff(j) => GatewayOff(j)'
      BY <2>1, <2>2, <2>3, <2>4 DEF GatewayOff
    <2> QED
      BY <1>2, <2>1, <2>2, <2>3, <2>5, <2>6
  <1>4. CASE Sent(j)
    <2>1. /\ route[j].state = "sending" /\ UNCHANGED printed
          /\ \E st \in {"delivered", "failed"} : route' = [route EXCEPT ![j].state = st]
          /\ lin' = lin \/ lin' = [lin EXCEPT ![j] = "got"]
      BY <1>4 DEF Sent, others
    <2>2. /\ route'[j].state \in {"delivered", "failed"} /\ route'[j].asks = route[j].asks
          /\ \A k \in Jobs \ {j} : route'[k] = route[k]
      <3>1. PICK st \in {"delivered", "failed"} : route' = [route EXCEPT ![j].state = st]
        BY <2>1
      <3> QED
        BY <3>1, RouteState
    <2>3. OnlyJob(j) /\ lin'[j] \in {lin[j], "got"}
      <3>1. lin'[j] \in {lin[j], "got"} /\ \A k \in Jobs \ {j} : lin'[k] = lin[k]
        BY <2>1, OneEntry
      <3> QED
        BY <1>1, <2>1, <2>2, <3>1 DEF OnlyJob
    <2>4. lin[j] = "none" /\ RowPaper(j) /\ job[j].delivery = "push"
      BY <2>1, TransportPushed
    <2>5. printed[j] = 0
      BY <2>4 DEF RowPaper
    <2>6. GatewayOff(j) => GatewayOff(j)'
      BY <2>1, <2>2, <2>3, <2>4, <2>5 DEF GatewayOff
    <2> QED
      BY <1>2, <2>1, <2>2, <2>3, <2>5, <2>6
  <1>5. CASE LinuxProceeds(j)
    <2>1. /\ lin[j] = "got" /\ ~route[j].asks /\ UNCHANGED <<route, printed>>
          /\ lin' = [lin EXCEPT ![j] = "approved"]
      BY <1>5 DEF LinuxProceeds, jobVars
    <2>2. OnlyJob(j)
      BY <1>1, <2>1, OneEntry DEF OnlyJob
    <2>3. printed[j] = 0
      BY <2>1, TransportPushed DEF RowPaper
    <2> QED
      BY <1>2, <2>1, <2>2, <2>3 DEF GatewayOff
  <1>6. CASE LinuxSubmit(j)
    <2>1. /\ lin[j] = "approved" /\ UNCHANGED route
          /\ \/ lin' = [lin EXCEPT ![j] = "handed"] /\ printed' = [printed EXCEPT ![j] = printed[j] + 1]
             \/ lin' = [lin EXCEPT ![j] = "gave_up"] /\ UNCHANGED printed
      BY <1>6 DEF LinuxSubmit
    <2>2. printed[j] = 0
      BY <2>1, TransportPushed DEF RowPaper
    <2>3. PICK l \in {"handed", "gave_up"}, n \in {0, 1} :
             /\ lin' = [lin EXCEPT ![j] = l]
             /\ (printed' = printed /\ n = 0) \/ printed' = [printed EXCEPT ![j] = n]
             /\ l = "gave_up" => n = 0
      BY <2>1, <2>2
    <2>4. lin'[j] = l /\ \A k \in Jobs \ {j} : lin'[k] = lin[k]
      BY <2>3, OneEntry
    <2>5. printed'[j] = n /\ \A k \in Jobs \ {j} : printed'[k] = printed[k]
      BY <2>2, <2>3, OneEntry
    <2>6. OnlyJob(j)
      BY <1>1, <2>1, <2>4, <2>5 DEF OnlyJob
    <2>7. printed'[j] <= 1 /\ (lin'[j] \in {"none", "got", "approved", "gave_up"} => printed'[j] = 0)
      BY <2>3, <2>4, <2>5
    <2> QED
      BY <1>2, <2>1, <2>6, <2>7 DEF GatewayOff
  <1> QED
    BY <1>3, <1>4, <1>5, <1>6

\* reconcile() takes back a transport that was never sent.
LEMMA UnsentPaper ==
    ASSUME PrintInv, PaperInv, UNCHANGED agentVars, NEW j \in Jobs, ReconcileUnsent(j)
    PROVE  PaperInv'
  <1> DEFINE st == IF job[j].gen < MaxPush THEN "queued" ELSE "failed"
             s  == [job[j] EXCEPT !.status = st]
  <1>1. /\ route[j].state \in {"queued", "expired"} /\ UNCHANGED <<lin, printed>>
        /\ job' = [job EXCEPT ![j] = s] /\ route' = [route EXCEPT ![j] = NoRoute]
        /\ job[j].status \in {"sent", "printing"}
    <2>1. job' = [job EXCEPT ![j].status = st]
      BY DEF ReconcileUnsent
    <2> HIDE DEF st
    <2> QED
      BY <2>1 DEF ReconcileUnsent, Unsent, others
  <1>2. /\ job[j].delivery = "push" /\ job[j].gen \in Nat /\ job[j] \in Row /\ RowPaper(j)
        /\ lin[j] = "none"
    BY <1>1, TransportPushed
  <1>3. printed[j] = 0
    BY <1>2 DEF RowPaper
  <1>4. /\ s.status \in {"queued", "failed"} /\ s.delivery = "push" /\ s.gen = job[j].gen
        /\ s.parent = job[j].parent /\ s.source = job[j].source
    BY <1>2 DEF Row
  <1> HIDE DEF s
  <1>5. job'[j] = s /\ route'[j] = NoRoute /\ OnlyJob(j)
    <2>1. job'[j] = s /\ \A k \in Jobs \ {j} : job'[k] = job[k]
      BY <1>1, OneEntry
    <2>2. route'[j] = NoRoute /\ \A k \in Jobs \ {j} : route'[k] = route[k]
      BY <1>1, OneEntry
    <2> QED
      BY <1>1, <2>1, <2>2 DEF OnlyJob
  <1>6. GatewayOff(j)'
    BY <1>1, <1>2, <1>3, <1>5 DEF GatewayOff, NoRoute
  <1>7. QuietPush(j)
    BY <1>1, <1>2, <1>3, <1>4, <1>5, <1>6 DEF QuietPush, Settled
  <1> QED
    BY <1>2, <1>5, <1>7, PushPaper

\* What a message about a job that the gateway knows, or the answer to it, may make of the
\* status of the row and of the journal of the gateway: approved only while the job is under
\* way, failed only without a copy.
May(j, st, l) ==
    /\ st \notin {"queued", "absent"}
    /\ st \in {"sent", "printing"} => job[j].status \in {"sent", "printing"}
    /\ l \in {"approved", "gave_up", "finished"}
    /\ l = "approved" => lin[j] = "got" /\ job[j].status \in {"sent", "printing"} /\ st # "failed"
    /\ l = "gave_up" => lin[j] = "got"
    /\ st = "failed" => GatewayOff(j)
    /\ job[j].status \in {"failed", "canceled"} => st \in {"failed", "canceled"}

\* Such a message keeps the invariant.
LEMMA GatewayPaper ==
    ASSUME PrintInv, PaperInv, UNCHANGED <<agentVars, route, printed>>, NEW j \in Jobs,
           lin[j] # "none", NEW s, job' = [job EXCEPT ![j] = s],
           s.delivery = "push", s.gen = job[j].gen, s.parent = job[j].parent, s.source = job[j].source,
           s.token = job[j].token, NEW l, lin' = lin \/ lin' = [lin EXCEPT ![j] = l],
           May(j, s.status, l)
    PROVE  PaperInv'
  <1> USE DEF May
  <1>1. /\ job[j].delivery = "push" /\ job[j].gen \in Nat /\ RowPaper(j)
        /\ route[j].state \in {"delivered", "failed"}
    BY TransportPushed
  <1>2. job'[j] = s /\ OnlyJob(j) /\ lin'[j] \in {lin[j], l}
    <2>1. job'[j] = s /\ \A k \in Jobs \ {j} : job'[k] = job[k]
      BY OneEntry
    <2>2. lin'[j] \in {lin[j], l} /\ \A k \in Jobs \ {j} : lin'[k] = lin[k]
      BY OneEntry
    <2> QED
      BY <2>1, <2>2 DEF OnlyJob
  <1>3. OffPaper(j) => GatewayOff(j)
    BY DEF OffPaper, GatewayOff
  <1>4. l # "approved" /\ GatewayOff(j) => GatewayOff(j)'
    BY <1>1, <1>2 DEF GatewayOff
  <1>5. QuietPush(j)
    <2>1. printed'[j] <= 1 /\ (lin'[j] \in {"none", "got", "approved", "gave_up"} => printed'[j] = 0)
      BY <1>1, <1>2 DEF RowPaper
    <2>2. s.status \in {"sent", "printing"} /\ s.token # 0 => route'[j].asks
      BY <1>1 DEF RowPaper
    <2>3. s.status = "failed" => GatewayOff(j)'
      BY <1>4
    <2>4. Settled(j) => s.status \in {"failed", "canceled"} /\ GatewayOff(j)'
      BY <1>3, <1>4 DEF Settled
    <2> QED
      BY <1>1, <1>2, <2>1, <2>2, <2>3, <2>4 DEF QuietPush
  <1> QED
    BY <1>1, <1>2, <1>5, PushPaper

\* What the gateway sends, and the render errors of its artifacts.
LEMMA MessagePaper ==
    ASSUME PrintInv, PaperInv, UNCHANGED agentVars, NEW j \in Jobs,
           \/ ReceiveAck(j) \/ LinuxIntent(j) \/ LinuxFetchFails(j)
           \/ \E r \in LinuxReports(j) : JobStatus(j, r)
    PROVE  PaperInv'
  <1>1. /\ lin[j] # "none" /\ UNCHANGED <<route, printed>>
    BY DEF ReceiveAck, LinuxIntent, LinuxFetchFails, JobStatus, LinuxReports, linuxVars, others
  <1>2. /\ job[j].delivery = "push" /\ job[j].status \notin {"queued", "absent"}
        /\ job[j] \in Row /\ RowPaper(j) /\ RowsOK
    BY <1>1, TransportPushed DEF PrintInv, TypeOK, TypeOKJobs, RowsOK
  <1>3. \A st, phase : LET s == [job[j] EXCEPT !.status = st, !.phase = phase]
                       IN /\ s.status = st /\ s.delivery = job[j].delivery /\ s.token = job[j].token
                          /\ s.gen = job[j].gen /\ s.parent = job[j].parent /\ s.source = job[j].source
    BY <1>2 DEF Row
  <1>4. ASSUME NEW st, NEW phase, job' = [job EXCEPT ![j] = [job[j] EXCEPT !.status = st, !.phase = phase]],
               NEW l, lin' = lin \/ lin' = [lin EXCEPT ![j] = l], May(j, st, l)
        PROVE  PaperInv'
    <2> DEFINE s == [job[j] EXCEPT !.status = st, !.phase = phase]
    <2>1. /\ s.status = st /\ s.delivery = "push" /\ s.token = job[j].token
          /\ s.gen = job[j].gen /\ s.parent = job[j].parent /\ s.source = job[j].source
      BY <1>2, <1>3
    <2>2. job' = [job EXCEPT ![j] = s]
      BY <1>4
    <2> HIDE DEF s
    <2>3. May(j, s.status, l)
      BY <1>4, <2>1
    <2> QED
      BY <1>1, <1>4, <2>1, <2>2, <2>3, GatewayPaper
  <1>5. [job EXCEPT ![j] = [job[j] EXCEPT !.status = job[j].status, !.phase = job[j].phase]] = job
    BY <1>2 DEF RowsOK, Row
  <1>6. \A phase : [job EXCEPT ![j].phase = phase]
                   = [job EXCEPT ![j] = [job[j] EXCEPT !.status = job[j].status, !.phase = phase]]
    BY <1>2 DEF RowsOK, Row
  <1>7. job[j].status = "failed" => GatewayOff(j)
    BY <1>2 DEF RowPaper, OffPaper, GatewayOff
  <1>8. \A l \in {"gave_up", "finished"} : (l = "gave_up" => lin[j] = "got") => May(j, job[j].status, l)
    BY <1>2, <1>7 DEF May
  <1>9. ASSUME job' = job, NEW l \in {"gave_up", "finished"}, l = "gave_up" => lin[j] = "got",
               lin' = lin \/ lin' = [lin EXCEPT ![j] = l]
        PROVE  PaperInv'
    <2>1. job' = [job EXCEPT ![j] = [job[j] EXCEPT !.status = job[j].status, !.phase = job[j].phase]]
      BY <1>5, <1>9
    <2>2. May(j, job[j].status, l)
      BY <1>8, <1>9
    <2> QED
      BY <1>4, <1>9, <2>1, <2>2
  <1>10. CASE ReceiveAck(j)
    <2>1. UNCHANGED lin /\ job' = [job EXCEPT ![j] = [job[j] EXCEPT !.status = job[j].status, !.phase = "received"]]
      BY <1>6, <1>10 DEF ReceiveAck, linuxVars
    <2>2. May(j, job[j].status, "finished")
      BY <1>8
    <2> QED
      BY <1>4, <2>1, <2>2
  <1>11. CASE LinuxIntent(j)
    <2>1. PICK granted \in BOOLEAN, answered \in BOOLEAN :
             /\ granted => job[j].status = "sent"
             /\ job' = IF granted THEN [job EXCEPT ![j].phase = "submitting"] ELSE job
             /\ lin' = IF ~answered THEN lin ELSE [lin EXCEPT ![j] = IF granted THEN "approved" ELSE "finished"]
             /\ lin[j] = "got"
      BY <1>11 DEF LinuxIntent
    <2>2. CASE granted
      <3>1. job' = [job EXCEPT ![j] = [job[j] EXCEPT !.status = job[j].status, !.phase = "submitting"]]
        BY <1>6, <2>1, <2>2
      <3>2. lin' = lin \/ lin' = [lin EXCEPT ![j] = "approved"]
        BY <2>1, <2>2
      <3>3. May(j, job[j].status, "approved")
        BY <2>1, <2>2 DEF May
      <3> QED
        BY <1>4, <3>1, <3>2, <3>3
    <2>3. CASE ~granted
      <3>1. job' = job /\ (lin' = lin \/ lin' = [lin EXCEPT ![j] = "finished"])
        BY <2>1, <2>3
      <3> QED
        BY <1>9, <3>1
    <2> QED
      BY <2>2, <2>3
  <1>12. CASE LinuxFetchFails(j)
    <2>1. /\ lin[j] = "got"
          /\ lin' = lin \/ lin' = [lin EXCEPT ![j] = "gave_up"]
          /\ job' = job \/ job' = [job EXCEPT ![j] = AfterRenderError(job[j])]
      BY <1>12 DEF LinuxFetchFails
    <2>2. CASE job' = job
      BY <1>9, <2>1, <2>2
    <2>3. CASE job' = [job EXCEPT ![j] = AfterRenderError(job[j])] /\ job[j].status \in ENDED
      <3>1. job' = job
        BY <1>2, <2>3 DEF AfterRenderError, RowsOK
      <3> QED
        BY <2>2, <3>1
    <2>4. CASE job' = [job EXCEPT ![j] = AfterRenderError(job[j])] /\ job[j].status \notin ENDED
      <3>1. PICK st \in {"uncertain", "failed"} :
               /\ AfterRenderError(job[j]) = [job[j] EXCEPT !.status = st]
               /\ job[j].status \in {"sent", "printing"} /\ job[j].token = 0 => st = "uncertain"
        BY <1>2, <2>4 DEF AfterRenderError
      <3>2. [job[j] EXCEPT !.status = st] = [job[j] EXCEPT !.status = st, !.phase = job[j].phase]
        BY <1>2 DEF Row
      <3>3. job' = [job EXCEPT ![j] = [job[j] EXCEPT !.status = st, !.phase = job[j].phase]]
        BY <2>4, <3>1, <3>2
      <3>4. job[j].status \in {"sent", "printing"}
        BY <1>2, <2>4 DEF Row
      <3>5. st = "failed" => GatewayOff(j)
        BY <1>2, <2>1, <3>1, <3>4 DEF RowPaper, GatewayOff
      <3>6. May(j, st, "gave_up")
        BY <2>1, <3>4, <3>5 DEF May
      <3> QED
        BY <1>4, <2>1, <3>3, <3>6
    <2> QED
      BY <2>1, <2>2, <2>3, <2>4
  <1>13. ASSUME NEW r \in LinuxReports(j), JobStatus(j, r) PROVE PaperInv'
    <2>1. lin' = lin \/ lin' = [lin EXCEPT ![j] = "finished"]
      BY <1>13 DEF JobStatus
    <2>2. CASE Ignored(j, r)
      BY <1>9, <1>13, <2>1, <2>2 DEF JobStatus
    <2>3. CASE ~Ignored(j, r)
      <3> DEFINE st    == StatusAfter(j, r)
                 phase == IF st \in {"printing", "done"} THEN "spooled" ELSE job[j].phase
      <3>1. job' = [job EXCEPT ![j] = [job[j] EXCEPT !.status = st, !.phase = phase]]
        BY <1>13, <2>3 DEF JobStatus
      <3>2. job[j].status \in {"sent", "printing"}
        BY <1>2, <2>3 DEF Ignored, Live, Row
      <3>3. /\ lin[j] \in {"gave_up", "handed"}
            /\ r.status \in {"printing", "done", "failed", "uncertain"}
            /\ r.proof => lin[j] = "gave_up"
        <4>1. CASE lin[j] = "gave_up"
          BY <1>13, <4>1 DEF LinuxReports
        <4>2. CASE lin[j] = "handed"
          BY <1>13, <4>2 DEF LinuxReports
        <4>3. CASE lin[j] \notin {"gave_up", "handed"}
          BY <1>13, <4>3 DEF LinuxReports
        <4> QED
          BY <4>1, <4>2, <4>3
      <3>4. /\ st \in {"printing", "done", "failed", "uncertain"}
            /\ st = "failed" => lin[j] = "gave_up"
        BY <3>3 DEF StatusAfter
      <3>5. st = "failed" => GatewayOff(j)
        BY <1>2, <3>4 DEF RowPaper, GatewayOff
      <3> HIDE DEF st, phase
      <3>6. May(j, st, "finished")
        BY <3>2, <3>4, <3>5 DEF May
      <3> QED
        BY <1>4, <2>1, <3>1, <3>6
    <2> QED
      BY <2>2, <2>3
  <1> QED
    BY <1>10, <1>11, <1>12, <1>13

\* Every step of the push delivery but an unfenced transport.
LEMMA LinuxPaper ==
    ASSUME PrintInv, PaperInv, NextLinux, UNCHANGED agentVars, \A j \in Jobs : ~UnfencedTransport(j)
    PROVE  PaperInv'
  <1>1. CASE Connect \/ Hello \/ Disconnect
    <2>1. UNCHANGED <<job, printed, route, lin>>
      BY <1>1 DEF Connect, Hello, Disconnect, jobVars
    <2> QED
      BY <2>1, NothingKept
  <1>2. ASSUME NEW j \in Jobs, WaitEnds(j) PROVE PaperInv'
    <2>1. UNCHANGED <<job, printed, route, lin>>
      BY <1>2 DEF WaitEnds, others
    <2> QED
      BY <2>1, NothingKept
  <1>3. ASSUME NEW j \in Jobs,
               PrepareRaises(j) \/ ReconcileQueued(j) \/ MarkTransportUncertain(j) \/ ReconcileSilent(j)
        PROVE  PaperInv'
    <2>1. PICK st \in {"failed", "uncertain"} :
             /\ job' = [job EXCEPT ![j].status = st] /\ UNCHANGED <<printed, route, lin>>
             /\ job[j].status \in {"queued", "sent", "printing"}
             /\ st = "failed" => job[j].status = "queued"
      BY <1>3 DEF PrepareRaises, ReconcileQueued, MarkTransportUncertain, ReconcileSilent, linuxVars, others
    <2>2. st \in ENDED /\ (st = "failed" => OffPaper(j))
      BY <2>1 DEF ENDED, JOB_TERMINAL, PaperInv, JobPaper, RowPaper
    <2> QED
      BY <2>1, <2>2, OutcomeKept
  <1>4. ASSUME NEW j \in Jobs, Prepare(j) PROVE PaperInv'
    BY <1>4, PreparePaper
  <1>5. ASSUME NEW j \in Jobs, ClaimRoute(j) \/ Sent(j) \/ LinuxProceeds(j) \/ LinuxSubmit(j) PROVE PaperInv'
    BY <1>5, TransportPaper
  <1>6. ASSUME NEW j \in Jobs, ReconcileUnsent(j) PROVE PaperInv'
    BY <1>6, UnsentPaper
  <1>7. ASSUME NEW j \in Jobs, ReceiveAck(j) \/ LinuxIntent(j) \/ LinuxFetchFails(j) PROVE PaperInv'
    BY <1>7, MessagePaper
  <1>8. ASSUME NEW j \in Jobs, NEW r \in LinuxReports(j), JobStatus(j, r) PROVE PaperInv'
    BY <1>8, MessagePaper
  <1> QED
    BY <1>1, <1>2, <1>3, <1>4, <1>5, <1>6, <1>7, <1>8 DEF NextLinux, CloudLinux, LocalLinux

-----------------------------------------------------------------------------
(* The theorems. *)

\* Before the first order nothing is on paper.
LEMMA PaperInit == Init => PaperInv
  <1> SUFFICES ASSUME Init PROVE PaperInv
    OBVIOUS
  <1> USE DEF Init, InitJobs, InitAgent, InitLinux
  <1>1. None \notin Jobs /\ Original \in Jobs
    BY PrintJobAssumption
  <1>2. /\ \A a \in Agents, j \in Jobs : win[a][j].st = "none" /\ win[a][j].gen = 0
        /\ \A a \in Agents : call[a].j = None
        /\ \A j \in Jobs : printed[j] = 0 /\ lin[j] = "none" /\ route[j].state = "none"
    BY DEF NoLease, NoCall, NoRoute
  <1>3. \A j \in Jobs : /\ job[j].status \in {"queued", "absent"}
                        /\ job[j].parent = None /\ job[j].gen = 0
    BY DEF NewRow
  <1>4. \A j \in Jobs : OffPaper(j)
    BY <1>2 DEF OffPaper
  <1>5. \A j \in Jobs : RowPaper(j)
    BY <1>2, <1>3, <1>4 DEF RowPaper
  <1>6. \A j \in Jobs, a \in Agents : JournalPaper(a, j) /\ CallPaper(a, j)
    BY <1>1, <1>2, <1>3 DEF JournalPaper, CallPaper
  <1>7. Succession
    BY <1>1, <1>3 DEF Succession, Heirs, Successors
  <1> QED
    BY <1>5, <1>6, <1>7 DEF PaperInv, JobPaper

\* A replaced job has no copy and at most one heir, any other has at most one copy itself.
LEMMA AtMostOneCopy == ASSUME PrintInv, PaperInv PROVE NoBlindReprint
  <1> SUFFICES ASSUME NEW j \in Jobs PROVE Copies(j) <= 1
    BY DEF NoBlindReprint
  <1>1. \A k \in Jobs : printed[k] \in Nat /\ printed[k] <= 1
    BY DEF PrintInv, TypeOK, TypeOKJobs, PaperInv, JobPaper, RowPaper
  <1>2. Copies(j) = SumOver(printed, {j} \cup Heirs(j))
    BY DEF Copies, SumOver, Heirs
  <1>3. CASE Heirs(j) \subseteq {j}
    <2>1. {j} \cup Heirs(j) = {j}
      BY <1>3
    <2>2. SumOver(printed, {j}) = printed[j]
      BY <1>1, SumOfTwo
    <2>3. Copies(j) = printed[j]
      BY <1>2, <2>1, <2>2, Zenon
    <2> QED
      BY <1>1, <2>3
  <1>4. ASSUME NEW k \in Heirs(j), k # j PROVE Copies(j) <= 1
    <2>1. Heirs(j) = {k} /\ printed[j] = 0 /\ k \in Jobs
      <3>1. k \in Jobs
        BY DEF Heirs, Successors
      <3>2. \A i \in Heirs(j) : i = k
        BY <1>4 DEF PaperInv, Succession
      <3>3. OffPaper(j)
        BY <1>4 DEF PaperInv, Succession, Settled
      <3> QED
        BY <1>4, <3>1, <3>2, <3>3 DEF OffPaper
    <2>2. {j} \cup Heirs(j) = {j, k}
      BY <2>1
    <2>3. SumOver(printed, {j, k}) = printed[j] + printed[k]
      BY <1>1, <1>4, <2>1, SumOfTwo
    <2>4. Copies(j) = printed[j] + printed[k]
      <3>1. Copies(j) = SumOver(printed, {j, k})
        BY <1>2, <2>2, Zenon
      <3> QED
        BY <2>3, <3>1, Zenon
    <2>5. printed[k] \in Nat /\ printed[k] <= 1
      BY <1>1, <2>1
    <2> QED
      BY <2>1, <2>4, <2>5
  <1> QED
    BY <1>3, <1>4

\* Every step but an unfenced transport keeps the invariant.
LEMMA PaperStep ==
    PrintInv /\ HandoverInv /\ PaperInv /\ [Next]_vars /\ [\A j \in Jobs : ~UnfencedTransport(j)]_vars
        => PaperInv'
  <1> SUFFICES ASSUME PrintInv, HandoverInv, PaperInv, [Next]_vars,
                      [\A j \in Jobs : ~UnfencedTransport(j)]_vars
               PROVE  PaperInv'
    OBVIOUS
  <1>1. CASE UNCHANGED vars
    <2>1. UNCHANGED <<job, printed, route, lin, agentVars>>
      BY <1>1 DEF vars, jobVars, linuxVars
    <2> QED
      BY <2>1, NothingKept
  <1>2. CASE Next /\ \A j \in Jobs : ~UnfencedTransport(j)
    BY <1>2, JobsPaper, AgentPaper, LinuxPaper DEF Next
  <1> QED
    BY <1>1, <1>2

\* The system never reprints on its own as long as prepare() never sends a job that has
\* kept the token of an earlier transport in the old protocol: for any number of jobs,
\* agents, connections and faults that step is the only one that can make a second copy.
THEOREM OnlyUnfencedReprints ==
    Spec /\ [][\A j \in Jobs : ~UnfencedTransport(j)]_vars => []NoBlindReprint
  <1>1. PrintInv /\ PaperInv => NoBlindReprint
    BY AtMostOneCopy
  <1> QED
    BY <1>1, PaperInit, PaperStep, PrintInvHolds, HandoverHolds, PTL DEF Spec

\* A gateway that keeps to one protocol: the old one, or the new one on a connection that
\* is never renewed.
OneProtocol == Protocols = {1} \/ (Protocols = {2} /\ MaxConn = 1)

\* Then a pushed job has a token only if the new protocol is spoken, and will be: there is
\* no connection left that could reset it.
ProtocolInv ==
    /\ proto = 2 => 2 \in Protocols /\ connects = MaxConn
    /\ conn # 0 => connects # 0
    /\ \A j \in Jobs : job[j].delivery = "push" /\ job[j].token # 0 => proto = 2

\* A row that is pushed was pushed before and keeps its token, or has none.
TokenKept(r, s) == s.delivery = "push" => s.token = 0 \/ (r.delivery = "push" /\ s.token = r.token)
TokensKept == \A k \in Jobs : TokenKept(job[k], job'[k])

\* So it is if the one row that is written keeps its token or loses it, or is not pushed.
LEMMA OneToken ==
    ASSUME RowsOK, NEW j \in Jobs, NEW s, job' = [job EXCEPT ![j] = s],
           s.delivery = "lease" \/ (s.delivery = job[j].delivery /\ s.token \in {0, job[j].token})
    PROVE  TokensKept
  <1>1. \A k \in Jobs : job'[k] = IF k = j THEN s ELSE job[k]
    BY DEF RowsOK
  <1> QED
    BY <1>1 DEF TokensKept, TokenKept

\* The ways in which the code writes a row without a new token.
LEMMA TokenWrites ==
    ASSUME RowsOK, NEW j \in Jobs,
           \/ \E st : job' = [job EXCEPT ![j].status = st]
           \/ \E phase : job' = [job EXCEPT ![j].phase = phase]
           \/ \E st, phase : job' = [job EXCEPT ![j].status = st, ![j].phase = phase]
           \/ job' = [job EXCEPT ![j] = Released(job[j])]
           \/ job' = [job EXCEPT ![j] = AfterRenderError(job[j])]
           \/ job' = [job EXCEPT ![j].delivery = "lease"]
           \/ UNCHANGED job
    PROVE  TokensKept
  <1>1. job[j] \in Row
    BY DEF RowsOK
  <1>2. ASSUME NEW s, s.delivery = job[j].delivery, s.token = job[j].token, job' = [job EXCEPT ![j] = s]
        PROVE  TokensKept
    BY <1>2, OneToken
  <1>3. /\ Released(job[j]).delivery = job[j].delivery /\ Released(job[j]).token = 0
        /\ AfterRenderError(job[j]).delivery = job[j].delivery
        /\ AfterRenderError(job[j]).token = job[j].token
        /\ [job[j] EXCEPT !.delivery = "lease"].delivery = "lease"
    <2>1. Released(job[j]).delivery = job[j].delivery /\ Released(job[j]).token = 0
      BY <1>1 DEF Row, Released
    <2> QED
      BY <1>1, <2>1, RenderTyped DEF Row
  <1>4. CASE UNCHANGED job
    BY <1>4 DEF TokensKept, TokenKept
  <1>5. ASSUME NEW st, NEW phase,
               \/ job' = [job EXCEPT ![j].status = st]
               \/ job' = [job EXCEPT ![j].phase = phase]
               \/ job' = [job EXCEPT ![j].status = st, ![j].phase = phase]
        PROVE  TokensKept
    <2>1. CASE job' = [job EXCEPT ![j].status = st]
      <3> DEFINE s == [job[j] EXCEPT !.status = st]
      <3>1. s.delivery = job[j].delivery /\ s.token = job[j].token /\ job' = [job EXCEPT ![j] = s]
        BY <1>1, <2>1 DEF Row
      <3> QED
        BY <1>2, <3>1
    <2>2. CASE job' = [job EXCEPT ![j].phase = phase]
      <3> DEFINE s == [job[j] EXCEPT !.phase = phase]
      <3>1. s.delivery = job[j].delivery /\ s.token = job[j].token /\ job' = [job EXCEPT ![j] = s]
        BY <1>1, <2>2 DEF Row
      <3> QED
        BY <1>2, <3>1
    <2>3. CASE job' = [job EXCEPT ![j].status = st, ![j].phase = phase]
      <3> DEFINE s == [job[j] EXCEPT !.status = st, !.phase = phase]
      <3>1. s.delivery = job[j].delivery /\ s.token = job[j].token /\ job' = [job EXCEPT ![j] = s]
        BY <1>1, <2>3 DEF Row
      <3> QED
        BY <1>2, <3>1
    <2> QED
      BY <1>5, <2>1, <2>2, <2>3
  <1>6. CASE \/ job' = [job EXCEPT ![j] = Released(job[j])]
             \/ job' = [job EXCEPT ![j] = AfterRenderError(job[j])]
    BY <1>3, <1>6, OneToken
  <1>7. CASE job' = [job EXCEPT ![j].delivery = "lease"]
    <2>1. PICK s : s = [job[j] EXCEPT !.delivery = "lease"]
      OBVIOUS
    <2> QED
      BY <1>3, <1>7, <2>1, OneToken
  <1> QED
    BY <1>4, <1>5, <1>6, <1>7

\* Users and replacements give no token.
LEMMA JobsTokens ==
    ASSUME RowsOK, NextJobs
    PROVE  TokensKept
  <1>1. ASSUME NEW j \in Jobs,
               \/ FallbackLost(j) \/ CancelRead(j) \/ CancelWrite(j)
               \/ EnqueueForAgents(j) \/ RouteActivated(j)
        PROVE  TokensKept
    <2>1. \/ UNCHANGED job
          \/ job' = [job EXCEPT ![j].status = "canceled"]
          \/ job' = [job EXCEPT ![j].delivery = "lease"]
      BY <1>1 DEF FallbackLost, CancelRead, CancelWrite, EnqueueForAgents, RouteActivated
    <2> QED
      BY <2>1, TokenWrites
  <1>2. ASSUME NEW j \in Jobs, NEW source, NEW rows, CreateJob(rows, j, source),
               \E st : rows = [job EXCEPT ![j].status = st] \/ rows = job
        PROVE  TokensKept
    <2>1. CASE job' = rows
      BY <1>2, <2>1, TokenWrites
    <2>2. ASSUME NEW k \in Jobs, job' = [rows EXCEPT ![k] = NewRow("queued", source, j, routed[k])]
          PROVE  TokensKept
      <3>1. ASSUME NEW i \in Jobs PROVE rows[i].delivery = job[i].delivery /\ rows[i].token = job[i].token
        BY <1>2 DEF RowsOK, Row
      <3>2. DOMAIN rows = Jobs
        BY <1>2 DEF RowsOK
      <3>3. NewRow("queued", source, j, routed[k]).token = 0
        BY DEF NewRow
      <3>4. \A i \in Jobs : job'[i] = IF i = k THEN NewRow("queued", source, j, routed[k]) ELSE rows[i]
        BY <2>2, <3>2
      <3> QED
        BY <3>1, <3>3, <3>4 DEF TokensKept, TokenKept
    <2> QED
      BY <1>2, <2>1, <2>2 DEF CreateJob
  <1>3. ASSUME NEW j \in Jobs, DispatchFallback(j) PROVE TokensKept
    <2>1. UNCHANGED job \/ CreateJob(job, j, "rule")
      BY <1>3 DEF DispatchFallback
    <2> QED
      BY <1>2, <2>1, TokenWrites
  <1>4. ASSUME NEW j \in Jobs, NEW action \in Actions, Resolve(j, action) PROVE TokensKept
    <2>1. PICK st : LET rows == [job EXCEPT ![j].status = st]
                    IN job' = rows \/ CreateJob(rows, j, "manual")
      BY <1>4 DEF Resolve
    <2> QED
      BY <1>2, <2>1, TokenWrites
  <1> QED
    BY <1>1, <1>3, <1>4 DEF NextJobs

\* The lease delivery gives tokens to leased rows only.
LEMMA AgentTokens ==
    ASSUME PrintInv, NextAgent
    PROVE  TokensKept
  <1>1. RowsOK /\ TypeOKAgent /\ \A j \in Jobs : job[j] \in Row /\ Fit(job[j])
    BY DEF PrintInv, TypeOK, TypeOKJobs, RowsOK, RowsFit
  <1>2. ASSUME NEW a \in Agents, NEW j \in Jobs, Lease(a, j) PROVE TokensKept
    <2> DEFINE s == [job[j] EXCEPT !.status = "sent", !.phase = "leased", !.holder = a,
                                   !.token = job[j].gen + 1, !.gen = job[j].gen + 1]
    <2>1. job' = [job EXCEPT ![j] = s] /\ job[j].delivery = "lease"
      BY <1>2 DEF Lease
    <2>2. s.delivery = job[j].delivery
      BY <1>1 DEF Row
    <2> HIDE DEF s
    <2> QED
      BY <1>1, <2>1, <2>2, OneToken
  <1>3. ASSUME NEW a \in Agents, StatusWrite(a) PROVE TokensKept
    <2>1. PICK c : c = call[a]
      OBVIOUS
    <2>2. PICK j \in Jobs : j = c.j /\ c.report \in Report
      BY <1>1, <1>3, <2>1 DEF TypeOKAgent, StatusWrite, Free, NoCall
    <2>3. \/ UNCHANGED job
          \/ job' = [job EXCEPT ![j] = AfterReport(job[j], c)] /\ job[j].holder = a
      BY <1>3, <2>1, <2>2 DEF StatusWrite
    <2>4. CASE UNCHANGED job
      BY <1>1, <2>4, TokenWrites
    <2>5. CASE job' = [job EXCEPT ![j] = AfterReport(job[j], c)] /\ job[j].holder = a
      <3>1. job[j].delivery = "lease"
        BY <1>1, <2>5, PrintJobAssumption DEF Fit, Holders
      <3>2. AfterReport(job[j], c).delivery = "lease"
        BY <1>1, <2>2, <3>1, ReportTyped
      <3> QED
        BY <1>1, <2>5, <3>2, OneToken
    <2> QED
      BY <2>3, <2>4, <2>5
  <1>4. ASSUME NEW a \in Agents, NEW j \in Jobs, Intent(a, j) \/ FetchFails(a, j) PROVE TokensKept
    <2>1. \/ UNCHANGED job
          \/ job' = [job EXCEPT ![j].phase = "submitting"]
          \/ job' = [job EXCEPT ![j] = AfterRenderError(job[j])]
      BY <1>4 DEF Intent, FetchFails
    <2> QED
      BY <1>1, <2>1, TokenWrites
  <1>5. ASSUME NEW j \in Jobs, Sweep(j) PROVE TokensKept
    <2>1. \/ job' = [job EXCEPT ![j].status = "failed"]
          \/ job' = [job EXCEPT ![j].status = "uncertain"]
          \/ job' = [job EXCEPT ![j] = Released(job[j])]
      BY <1>5 DEF Sweep, SweepLapsed, SweepSilent, SweepQueued
    <2> QED
      BY <1>1, <2>1, TokenWrites
  <1>6. ASSUME NEW a \in Agents, NEW j \in Jobs,
               \/ Renew(a, j) \/ Submit(a, j) \/ Spooled(a, j) \/ Drop(a, j)
               \/ \E r \in ReportsOf(win[a][j].st) : StatusRead(a, j, r)
        PROVE  TokensKept
    <2>1. UNCHANGED job
      BY <1>6 DEF Renew, Submit, Spooled, Drop, StatusRead
    <2> QED
      BY <2>1 DEF TokensKept, TokenKept
  <1>7. ASSUME NEW a \in Agents, StatusLost(a) \/ AgentRestart(a) PROVE TokensKept
    <2>1. UNCHANGED job
      BY <1>7 DEF StatusLost, AgentRestart
    <2> QED
      BY <2>1 DEF TokensKept, TokenKept
  <1> QED
    BY <1>2, <1>3, <1>4, <1>5, <1>6, <1>7 DEF NextAgent, CloudAgent, LocalAgent

\* The push delivery gives one in the new protocol only.
LEMMA LinuxTokens ==
    ASSUME PrintInv, NextLinux
    PROVE  TokensKept \/ (proto = 2 /\ UNCHANGED linkVars)
  <1>1. RowsOK /\ proto \in {1, 2}
    BY DEF PrintInv, TypeOK, TypeOKJobs, TypeOKLinux, RowsOK
  <1>2. ASSUME NEW j \in Jobs, Prepare(j), proto = 1 PROVE TokensKept
    <2> DEFINE g     == job[j].gen + 1
               asks  == proto >= 2
               token == IF asks THEN g ELSE job[j].token
               s     == [job[j] EXCEPT !.status = "sent", !.token = token, !.gen = g,
                                       !.phase = IF token # 0 THEN "prepared" ELSE "dispatched"]
    <2>1. job' = [job EXCEPT ![j] = s]
      BY <1>2 DEF Prepare
    <2>2. s.delivery = job[j].delivery /\ s.token = job[j].token
      <3>1. token = job[j].token
        BY <1>2
      <3> HIDE DEF token, g
      <3> QED
        BY <1>1, <3>1 DEF RowsOK, Row
    <2> HIDE DEF s
    <2> QED
      BY <1>1, <2>1, <2>2, OneToken
  <1>3. ASSUME NEW j \in Jobs, Prepare(j) PROVE UNCHANGED linkVars
    BY <1>3 DEF Prepare
  <1>4. CASE Connect \/ Hello \/ Disconnect
    <2>1. UNCHANGED job
      BY <1>4 DEF Connect, Hello, Disconnect, jobVars
    <2> QED
      BY <2>1 DEF TokensKept, TokenKept
  <1>5. ASSUME NEW j \in Jobs, ClaimRoute(j) \/ Sent(j) \/ WaitEnds(j) \/ LinuxProceeds(j) \/ LinuxSubmit(j)
        PROVE  TokensKept
    <2>1. UNCHANGED job
      BY <1>5 DEF ClaimRoute, Sent, WaitEnds, LinuxProceeds, LinuxSubmit, jobVars
    <2> QED
      BY <2>1 DEF TokensKept, TokenKept
  <1>6. ASSUME NEW j \in Jobs,
               \/ PrepareRaises(j) \/ MarkTransportUncertain(j) \/ ReconcileQueued(j) \/ ReconcileUnsent(j)
               \/ ReconcileSilent(j) \/ ReceiveAck(j) \/ LinuxIntent(j) \/ LinuxFetchFails(j)
               \/ \E r \in LinuxReports(j) : JobStatus(j, r)
        PROVE  TokensKept
    <2>1. \/ UNCHANGED job
          \/ \E st : job' = [job EXCEPT ![j].status = st]
          \/ \E phase : job' = [job EXCEPT ![j].phase = phase]
          \/ \E st, phase : job' = [job EXCEPT ![j].status = st, ![j].phase = phase]
          \/ job' = [job EXCEPT ![j] = AfterRenderError(job[j])]
      <3>1. ASSUME NEW r \in LinuxReports(j), JobStatus(j, r)
            PROVE  UNCHANGED job \/ \E st, phase : job' = [job EXCEPT ![j].status = st, ![j].phase = phase]
        BY <3>1 DEF JobStatus
      <3>2. CASE ReceiveAck(j) \/ LinuxIntent(j) \/ LinuxFetchFails(j)
        BY <3>2 DEF ReceiveAck, LinuxIntent, LinuxFetchFails
      <3>3. CASE \/ PrepareRaises(j) \/ MarkTransportUncertain(j) \/ ReconcileQueued(j)
                 \/ ReconcileUnsent(j) \/ ReconcileSilent(j)
        BY <3>3 DEF PrepareRaises, MarkTransportUncertain, ReconcileQueued, ReconcileUnsent, ReconcileSilent
      <3> QED
        BY <1>6, <3>1, <3>2, <3>3
    <2> QED
      BY <1>1, <2>1, TokenWrites
  <1> QED
    BY <1>1, <1>2, <1>3, <1>4, <1>5, <1>6 DEF NextLinux, CloudLinux, LocalLinux

\* The connection of a gateway that keeps to one protocol.
LEMMA LinkStep ==
    ASSUME OneProtocol, PrintInv, ProtocolInv, NextLinux
    PROVE  /\ proto = 2 => proto' = 2
           /\ proto' = 2 => 2 \in Protocols /\ connects' = MaxConn
           /\ conn' # 0 => connects' # 0
  <1>1. /\ conn \in Nat /\ connects \in 0 .. MaxConn /\ proto \in {1, 2} /\ MaxConn \in Nat \ {0}
        /\ 2 \in Protocols => Protocols = {2} /\ MaxConn = 1
    BY LinuxPrintAssumption DEF PrintInv, TypeOK, TypeOKLinux, OneProtocol
  <1>2. CASE Connect
    BY <1>1, <1>2 DEF Connect, ProtocolInv
  <1>3. CASE Hello
    BY <1>1, <1>3 DEF Hello, ProtocolInv
  <1>4. CASE Disconnect
    BY <1>1, <1>4 DEF Disconnect, ProtocolInv
  <1>5. ASSUME NEW j \in Jobs, CloudLinux(j) \/ LocalLinux(j)
        PROVE  UNCHANGED <<connects, proto>> /\ conn' \in {0, conn}
    <2>1. CASE Sent(j)
      BY <2>1 DEF Sent
    <2>2. CASE Prepare(j) \/ ClaimRoute(j) \/ WaitEnds(j) \/ ReconcileUnsent(j) \/ LinuxIntent(j)
               \/ LinuxProceeds(j) \/ LinuxFetchFails(j) \/ LinuxSubmit(j)
               \/ \E r \in LinuxReports(j) : JobStatus(j, r)
      BY <2>2 DEF Prepare, ClaimRoute, WaitEnds, ReconcileUnsent, LinuxIntent, LinuxProceeds,
                  LinuxFetchFails, LinuxSubmit, JobStatus, linkVars
    <2>3. CASE PrepareRaises(j) \/ MarkTransportUncertain(j) \/ ReconcileQueued(j) \/ ReconcileSilent(j)
               \/ ReceiveAck(j)
      BY <2>3 DEF PrepareRaises, MarkTransportUncertain, ReconcileQueued, ReconcileSilent, ReceiveAck, linuxVars
    <2> QED
      BY <1>5, <2>1, <2>2, <2>3 DEF CloudLinux, LocalLinux
  <1>6. ASSUME UNCHANGED <<connects, proto>> /\ conn' \in {0, conn}
        PROVE  /\ proto = 2 => proto' = 2
               /\ proto' = 2 => 2 \in Protocols /\ connects' = MaxConn
               /\ conn' # 0 => connects' # 0
    BY <1>6 DEF ProtocolInv
  <1> QED
    BY <1>2, <1>3, <1>4, <1>5, <1>6 DEF NextLinux

\* With one protocol a token of a pushed job belongs to the protocol that is spoken.
LEMMA ProtocolHolds == OneProtocol /\ Spec => []ProtocolInv
  <1> SUFFICES ASSUME OneProtocol PROVE Spec => []ProtocolInv
    OBVIOUS
  <1>1. Init => ProtocolInv
    <2> SUFFICES ASSUME Init PROVE ProtocolInv
      OBVIOUS
    <2>1. \A j \in Jobs : job[j].token = 0
      BY DEF Init, InitJobs, NewRow
    <2> QED
      BY <2>1 DEF Init, InitLinux, ProtocolInv
  <1>2. PrintInv /\ ProtocolInv /\ [Next]_vars => ProtocolInv'
    <2> SUFFICES ASSUME PrintInv, ProtocolInv, [Next]_vars PROVE ProtocolInv'
      OBVIOUS
    <2>1. CASE UNCHANGED vars
      BY <2>1 DEF vars, jobVars, linuxVars, ProtocolInv
    <2>2. ASSUME TokensKept, proto = 2 => proto' = 2
          PROVE  \A j \in Jobs : job'[j].delivery = "push" /\ job'[j].token # 0 => proto' = 2
      BY <2>2 DEF TokensKept, TokenKept, ProtocolInv
    <2>3. CASE (NextJobs \/ NextAgent) /\ UNCHANGED linuxVars
      <3>1. TokensKept
        BY <2>3, JobsTokens, AgentTokens DEF PrintInv, TypeOK, TypeOKJobs, RowsOK
      <3> QED
        BY <2>2, <2>3, <3>1 DEF linuxVars, ProtocolInv
    <2>4. CASE NextLinux
      <3>1. \A j \in Jobs : job'[j].delivery = "push" /\ job'[j].token # 0 => proto' = 2
        BY <2>2, <2>4, LinkStep, LinuxTokens DEF linkVars
      <3> QED
        BY <2>4, <3>1, LinkStep DEF ProtocolInv
    <2> QED
      BY <2>1, <2>3, <2>4 DEF Next
  <1> QED
    BY <1>1, <1>2, PrintInvHolds, PTL DEF Spec

\* The system never reprints on its own (resolve_uncertain_job(), ui_gateway.py:1488): with
\* a gateway that keeps to one protocol at most one copy of a job and its replacement by a
\* rule exists, whatever is leased again, transported again or replaced.
THEOREM NoBlindReprintHolds == OneProtocol /\ Spec => []NoBlindReprint
  <1>1. PrintInv /\ ProtocolInv => \A j \in Jobs : ~UnfencedTransport(j)
    <2> SUFFICES ASSUME PrintInv, ProtocolInv, NEW j \in Jobs, UnfencedTransport(j) PROVE FALSE
      OBVIOUS
    <2>1. job[j].delivery = "push" /\ job[j].token # 0 /\ proto < 2
      BY DEF UnfencedTransport, Prepare
    <2>2. proto = 2
      BY <2>1 DEF ProtocolInv
    <2> QED
      BY <2>1, <2>2
  <1>2. PrintInv /\ PaperInv => NoBlindReprint
    BY AtMostOneCopy
  <1>3. PrintInv /\ ProtocolInv => [\A j \in Jobs : ~UnfencedTransport(j)]_vars
    BY <1>1
  <1> QED
    BY <1>2, <1>3, PaperInit, PaperStep, PrintInvHolds, HandoverHolds, ProtocolHolds, PTL DEF Spec
=============================================================================
