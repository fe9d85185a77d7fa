----------------------------- MODULE SyncProofs -----------------------------
(***************************************************************************)
(* Theorems about module Sync, for any jobs, workers, pages and bounds.    *)
(***************************************************************************)
EXTENDS Sync, TLAPS

(* A generation names one account. *)
Accounts == account = generation

(* A job that may be claimed, now or after a restart, has an attempt left. *)
Budgeted(j) == job[j].status \in Live \/ StaleCancelled(j) => job[j].attempts < MaxAttempts

(* The parts of PagesFormChain and MessagesBelong, for a sequence of pages.*)
Linked(p) ==
    \A i \in DOMAIN p :
        /\ p[i].cursor = IF i = 1 THEN Start ELSE p[i - 1].next
        /\ \A k \in DOMAIN p : p[k].cursor = p[i].cursor => k = i

Charged(j, p, u) == \A i \in DOMAIN p : p[i].records = 1 => <<j, p[i].cursor>> \in u

Fetched(p, acc) == \A i \in DOMAIN p : p[i].account = acc

Complete(p) == p # <<>> /\ p[Len(p)].next = Start

EndOf(p) == IF p = <<>> THEN Start ELSE p[Len(p)].next

CursorsOf(p) == {p[i].cursor : i \in DOMAIN p}

(* The job's pages: the checkpoint is where they end, and their cursors    *)
(* were visited.                                                           *)
Chained(j) ==
    /\ job[j].status = "absent" => path[j] = <<>>
    /\ checkpoint[j].cursor = EndOf(path[j])
    /\ visits[j] = CursorsOf(path[j])
    /\ Linked(path[j])
    /\ Charged(j, path[j], usage)
    /\ Fetched(path[j], job[j].generation)
    /\ job[j].status = "succeeded" <=> Complete(path[j])

(* The job is still the worker's. *)
Held(w) == job[task[w].job].status = "running" /\ job[task[w].job].worker = w

(* What a worker knows of its job and of the connection: a secret comes    *)
(* with one account.                                                       *)
Informed(w) ==
    LET t == task[w] IN
    /\ t.at # "idle" => t.job \in Jobs
    /\ t.at \in {"cursor", "resolve", "send", "commit"} /\ Held(w) => t.attempts = job[t.job].attempts
    /\ t.at = "fail" /\ t.fate = "pending" /\ Held(w) => job[t.job].attempts + 1 < MaxAttempts
    /\ t.at \in {"send", "commit"} =>
          t.secret <= secret /\ (t.secret = secret => t.account = account)

Labelled == \A c \in Cursors : messages[c].generation = messages[c].account

IInv ==
    /\ TypeOK /\ Accounts /\ Labelled
    /\ \A j \in Jobs : Budgeted(j) /\ Chained(j)
    /\ \A w \in Workers : Informed(w)

LEMMA Bounds ==
    /\ MaxAttempts \in Nat /\ MaxGeneration \in Nat /\ MaxSecret \in Nat /\ MaxControls \in Nat
    /\ 0 < MaxAttempts /\ 0 < MaxGeneration /\ 0 < MaxSecret
  BY SyncAssumption

----------------------------------------------------------------------------
(* Records.                                                                *)

LEMMA NoPageTask ==
    ASSUME NEW phase \in Phases, NEW j \in Jobs \cup {0}, NEW attempts \in 0..MaxAttempts, NEW gen \in 0..MaxGeneration,
           NEW fate \in {"pending", "failed"}
    PROVE  /\ NoPage(phase, j, attempts, gen, fate) \in Task
           /\ NoPage(phase, j, attempts, gen, fate).at = phase
           /\ NoPage(phase, j, attempts, gen, fate).job = j
           /\ NoPage(phase, j, attempts, gen, fate).attempts = attempts
           /\ NoPage(phase, j, attempts, gen, fate).fate = fate
  BY SyncAssumption DEF NoPage, Task

LEMMA IdleTask == Idle \in Task /\ Idle.at = "idle"
  BY NoPageTask, SyncAssumption DEF Idle, Phases

LEMMA EndedTask ==
    ASSUME NEW w \in Workers, task[w].job \in Jobs, NEW phase \in {"idle", "stale"}
    PROVE  /\ Ended(w, phase) \in Task
           /\ Ended(w, phase).at = phase
           /\ phase = "stale" => Ended(w, phase).job = task[w].job
  BY IdleTask, NoPageTask, SyncAssumption DEF Ended, Phases

LEMMA FailingTask ==
    ASSUME NEW w \in Workers, task[w].job \in Jobs, NEW final \in BOOLEAN
    PROVE  /\ Failing(w, final) \in Task
           /\ Failing(w, final).at = "fail" /\ Failing(w, final).job = task[w].job
           /\ Failing(w, final).fate = "pending" => ~(task[w].attempts + 1 >= MaxAttempts)
<1> DEFINE fate == IF final \/ task[w].attempts + 1 >= MaxAttempts THEN "failed" ELSE "pending"
<1>1. fate \in {"pending", "failed"} /\ (fate = "pending" => ~(task[w].attempts + 1 >= MaxAttempts))
  OBVIOUS
<1>2. Failing(w, final) = NoPage("fail", task[w].job, 0, 0, fate)
  BY DEF Failing
<1> HIDE DEF fate
<1>3. "fail" \in Phases /\ task[w].job \in Jobs \cup {0} /\ 0 \in 0..MaxAttempts /\ 0 \in 0..MaxGeneration
  BY SyncAssumption DEF Phases
<1>4. /\ Failing(w, final) \in Task /\ Failing(w, final).at = "fail"
      /\ Failing(w, final).job = task[w].job /\ Failing(w, final).fate = fate
  BY <1>1, <1>2, <1>3, NoPageTask
<1>5. QED
  BY <1>1, <1>4

LEMMA GoTask ==
    ASSUME TypeOK, NEW w \in Workers, NEW t, Go(w, t)
    PROVE  /\ task'[w] = t
           /\ \A v \in Workers : v # w => task'[v] = task[v]
           /\ t \in Task => task' \in [Workers -> Task]
  BY DEF Go, TypeOK

LEMMA CancelledRow ==
    ASSUME NEW r \in Row, NEW error \in Errors
    PROVE  /\ Cancelled(r, error) \in Row
           /\ Cancelled(r, error).status = "cancelled" /\ Cancelled(r, error).error = error
           /\ Cancelled(r, error).attempts = r.attempts /\ Cancelled(r, error).generation = r.generation
  BY DEF Cancelled, Row

LEMMA UpdatedRowRow ==
    ASSUME NEW r \in Row, NEW st \in Live \cup {"succeeded", "failed"}, NEW attempts \in 0..MaxAttempts,
           NEW w \in Workers \cup {None}
    PROVE  /\ UpdatedRow(r, st, attempts, w) \in Row
           /\ UpdatedRow(r, st, attempts, w).status = st
           /\ UpdatedRow(r, st, attempts, w).attempts = attempts
           /\ UpdatedRow(r, st, attempts, w).worker = w
           /\ UpdatedRow(r, st, attempts, w).generation = r.generation
  BY DEF UpdatedRow, Row

----------------------------------------------------------------------------
(* Frames.                                                                 *)

LEMMA NoPages ==
    /\ EndOf(<<>>) = Start /\ CursorsOf(<<>>) = {} /\ Linked(<<>>) /\ ~Complete(<<>>)
    /\ \A j, u, acc : Charged(j, <<>>, u) /\ Fetched(<<>>, acc)
  BY DEF EndOf, CursorsOf, Linked, Complete, Charged, Fetched

(* The job's pages are left alone. *)
LEMMA ChainKept ==
    ASSUME NEW j \in Jobs, Chained(j),
           path'[j] = path[j], checkpoint'[j] = checkpoint[j], visits'[j] = visits[j],
           usage \subseteq usage',
           job'[j].generation = job[j].generation \/ path[j] = <<>>,
           job'[j].status = "succeeded" <=> job[j].status = "succeeded",
           job'[j].status = "absent" => job[j].status = "absent"
    PROVE  Chained(j)'
<1>1. Charged(j, path'[j], usage')
  BY DEF Chained, Charged
<1>2. Fetched(path'[j], job'[j].generation)
  BY NoPages DEF Chained
<1>3. QED
  BY <1>1, <1>2 DEF Chained

(* ... or forgotten. *)
LEMMA ChainForgotten ==
    ASSUME NEW j \in Jobs, job'[j].status # "succeeded",
           path'[j] = <<>>, checkpoint'[j] = NoCheckpoint, visits'[j] = {}
    PROVE  Chained(j)'
<1>1. NoCheckpoint.cursor = Start
  BY DEF NoCheckpoint
<1>2. QED
  BY <1>1, NoPages DEF Chained

(* ... or another one is added. *)
LEMMA ChainExtended ==
    ASSUME NEW p \in Seq(Page), NEW g \in Page, Linked(p), g.cursor = EndOf(p), g.cursor \notin CursorsOf(p)
    PROVE  /\ Linked(Append(p, g))
           /\ EndOf(Append(p, g)) = g.next
           /\ CursorsOf(Append(p, g)) = CursorsOf(p) \cup {g.cursor}
           /\ Complete(Append(p, g)) <=> g.next = Start
           /\ \A acc : Fetched(p, acc) /\ g.account = acc => Fetched(Append(p, g), acc)
           /\ \A j, u, v : /\ Charged(j, p, u) /\ u \subseteq v
                           /\ g.records = 1 => <<j, g.cursor>> \in v
                           => Charged(j, Append(p, g), v)
<1> DEFINE s == Append(p, g)
<1>1. /\ s \in Seq(Page) /\ Len(s) = Len(p) + 1 /\ Len(p) \in Nat
      /\ s[Len(p) + 1] = g
      /\ \A i \in 1..Len(p) : s[i] = p[i]
      /\ DOMAIN s = 1..(Len(p) + 1) /\ DOMAIN p = 1..Len(p)
      /\ s # <<>>
      /\ p = <<>> <=> Len(p) = 0
  OBVIOUS
<1> HIDE DEF s
<1>2. \A i \in DOMAIN s : (i \in DOMAIN p /\ s[i] = p[i]) \/ (i = Len(p) + 1 /\ s[i] = g)
  BY <1>1
<1>3. EndOf(s) = g.next /\ (Complete(s) <=> g.next = Start)
  BY <1>1 DEF EndOf, Complete
<1>4. CursorsOf(s) = CursorsOf(p) \cup {g.cursor}
  BY <1>1, <1>2 DEF CursorsOf
<1>5. Linked(s)
  <2> SUFFICES ASSUME NEW i \in DOMAIN s
               PROVE  /\ s[i].cursor = IF i = 1 THEN Start ELSE s[i - 1].next
                      /\ \A k \in DOMAIN s : s[k].cursor = s[i].cursor => k = i
    BY DEF Linked
  <2>1. CASE i \in DOMAIN p
    <3>1. s[i] = p[i] /\ (i # 1 => s[i - 1] = p[i - 1])
      BY <1>1, <2>1
    <3>2. p[i].cursor # g.cursor
      BY <2>1 DEF CursorsOf
    <3>3. QED
      BY <1>1, <1>2, <2>1, <3>1, <3>2 DEF Linked
  <2>2. CASE i = Len(p) + 1
    <3>1. s[i].cursor = IF i = 1 THEN Start ELSE s[i - 1].next
      BY <1>1, <2>2 DEF EndOf
    <3>2. \A k \in DOMAIN p : p[k].cursor # g.cursor
      BY DEF CursorsOf
    <3>3. QED
      BY <1>1, <1>2, <2>2, <3>1, <3>2
  <2>3. QED
    BY <1>1, <2>1, <2>2
<1>6. \A acc : Fetched(p, acc) /\ g.account = acc => Fetched(s, acc)
  BY <1>2 DEF Fetched
<1>7. \A j, u, v : /\ Charged(j, p, u) /\ u \subseteq v
                   /\ g.records = 1 => <<j, g.cursor>> \in v
                   => Charged(j, s, v)
  BY <1>2 DEF Charged
<1>8. QED
  BY <1>3, <1>4, <1>5, <1>6, <1>7 DEF s

(* A worker whose job is left alone, or lost. *)
LEMMA InformedKept ==
    ASSUME NEW w \in Workers, Informed(w), task'[w] = task[w], UNCHANGED connection,
           task[w].at # "idle" => \/ job'[task[w].job] = job[task[w].job]
                                  \/ job'[task[w].job].status # "running"
                                  \/ job'[task[w].job].worker # w
    PROVE  Informed(w)'
  BY DEF Informed, Held, connection

(* Only the worker's task changes. *)
LEMMA OnlyTask ==
    ASSUME IInv, NEW w \in Workers, NEW t \in Task, Go(w, t), Informed(w)',
           UNCHANGED <<connection, rows, written, controls>>
    PROVE  IInv'
<1> USE DEF IInv, connection, rows, written
<1>1. /\ task' \in [Workers -> Task]
      /\ \A v \in Workers : v # w => task'[v] = task[v]
  BY GoTask
<1>2. TypeOK' /\ Accounts' /\ Labelled'
  BY <1>1 DEF TypeOK, Accounts, Labelled
<1>3. \A j \in Jobs : Budgeted(j)' /\ Chained(j)'
  BY DEF Budgeted, Chained, StaleCancelled
<1>4. ASSUME NEW v \in Workers PROVE Informed(v)'
  BY <1>1, InformedKept
<1>5. QED
  BY <1>2, <1>3, <1>4

(* The worker gives up, or goes on to fail or cancel its job. *)
LEMMA Leaving ==
    ASSUME IInv, NEW w \in Workers, task[w].at # "idle",
           \/ Go(w, Idle)
           \/ \E phase \in {"idle", "stale"} : Go(w, Ended(w, phase))
           \/ task[w].at \in {"cursor", "resolve", "send", "commit"} /\ \E final \in BOOLEAN : Go(w, Failing(w, final)),
           UNCHANGED <<connection, rows, written, controls>>
    PROVE  IInv'
<1>1. task[w].job \in Jobs /\ TypeOK
  BY DEF IInv, Informed
<1>2. ASSUME Go(w, Idle) PROVE IInv'
  <2>1. Informed(w)'
    BY <1>1, <1>2, GoTask, IdleTask DEF Informed
  <2>2. QED
    BY <1>2, <2>1, IdleTask, OnlyTask
<1>3. ASSUME NEW phase \in {"idle", "stale"}, Go(w, Ended(w, phase)) PROVE IInv'
  <2>1. Informed(w)'
    BY <1>1, <1>3, GoTask, EndedTask DEF Informed
  <2>2. QED
    BY <1>1, <1>3, <2>1, EndedTask, OnlyTask
<1>4. ASSUME task[w].at \in {"cursor", "resolve", "send", "commit"},
             NEW final \in BOOLEAN, Go(w, Failing(w, final))
      PROVE  IInv'
  <2>1. task'[w] = Failing(w, final) /\ job' = job
    BY <1>1, <1>4, GoTask DEF rows
  <2>2. /\ task'[w].at = "fail" /\ task'[w].job = task[w].job
        /\ task'[w].fate = "pending" => ~(task[w].attempts + 1 >= MaxAttempts)
    BY <1>1, <2>1, FailingTask
  <2>3. task[w].attempts \in Nat /\ MaxAttempts \in Nat
    BY <1>1, SyncAssumption DEF TypeOK, Task
  <2>4. Held(w) => task[w].attempts = job[task[w].job].attempts
    BY <1>4 DEF IInv, Informed
  <2>5. Informed(w)'
    BY <1>1, <2>1, <2>2, <2>3, <2>4 DEF Informed, Held
  <2>6. QED
    BY <1>1, <1>4, <2>5, FailingTask, OnlyTask
<1>5. QED
  BY <1>2, <1>3, <1>4


(* What Forget does to a job. *)
LEMMA Forgetting ==
    ASSUME TypeOK, NEW S, Forget(S)
    PROVE  /\ checkpoint' \in [Jobs -> Checkpoint]
           /\ visits' \in [Jobs -> SUBSET Cursors]
           /\ path' \in [Jobs -> Seq(Page)]
           /\ \A j \in Jobs \cap S :
                 path'[j] = <<>> /\ checkpoint'[j] = NoCheckpoint /\ visits'[j] = {}
           /\ \A j \in Jobs \ S :
                 path'[j] = path[j] /\ checkpoint'[j] = checkpoint[j] /\ visits'[j] = visits[j]
<1>1. NoCheckpoint \in Checkpoint /\ <<>> \in Seq(Page)
  BY SyncAssumption DEF NoCheckpoint, Checkpoint
<1>2. QED
  BY <1>1 DEF Forget, TypeOK

----------------------------------------------------------------------------
(* The actions.                                                            *)

LEMMA InitInvariant == Init => IInv
<1> SUFFICES ASSUME Init PROVE IInv
  OBVIOUS
<1> USE Bounds
<1>a. job = [j \in Jobs |-> [status |-> "absent", attempts |-> 0, worker |-> None, generation |-> 0, error |-> "none"]]
  BY DEF Init
<1>b. checkpoint = [j \in Jobs |-> NoCheckpoint] /\ visits = [j \in Jobs |-> {}] /\ path = [j \in Jobs |-> <<>>]
  BY DEF Init
<1>c. messages = [c \in Cursors |-> [generation |-> 0, account |-> 0]]
  BY DEF Init
<1>d. task = [w \in Workers |-> Idle]
  BY DEF Init
<1>e. secret = 1 /\ status = "active" /\ generation = 1 /\ account = 1 /\ future = {} /\ usage = {} /\ controls = 0
  <2>1. BindingInit /\ secret = 1 /\ future = {} /\ usage = {} /\ controls = 0
    BY DEF Init
  <2>2. QED
    BY <2>1 DEF BindingInit
<1>1. TypeOK
  <2>1. job \in [Jobs -> Row]
    BY <1>a DEF Row, Errors
  <2>2. checkpoint \in [Jobs -> Checkpoint]
    BY <1>b, SyncAssumption DEF NoCheckpoint, Checkpoint
  <2>3. task \in [Workers -> Task]
    BY <1>d, IdleTask
  <2>4. path \in [Jobs -> Seq(Page)] /\ visits \in [Jobs -> SUBSET Cursors]
    BY <1>b
  <2>5. messages \in [Cursors -> [generation : 0..MaxGeneration, account : 0..MaxGeneration]]
    BY <1>c
  <2>6. QED
    BY <1>e, <2>1, <2>2, <2>3, <2>4, <2>5 DEF TypeOK, Statuses
<1>2. Accounts /\ Labelled
  BY <1>c, <1>e DEF Accounts, Labelled
<1>3. ASSUME NEW j \in Jobs PROVE Budgeted(j) /\ Chained(j)
  <2>1. job[j].status = "absent" /\ path[j] = <<>> /\ checkpoint[j].cursor = Start /\ visits[j] = {}
    BY <1>a, <1>b DEF NoCheckpoint
  <2>2. QED
    BY <2>1, NoPages DEF Budgeted, Chained, StaleCancelled, Live
<1>4. ASSUME NEW w \in Workers PROVE Informed(w)
  <2>1. task[w].at = "idle"
    BY <1>d, IdleTask
  <2>2. QED
    BY <2>1 DEF Informed
<1>5. QED
  BY <1>1, <1>2, <1>3, <1>4 DEF IInv

LEMMA EnqueueKeeps == ASSUME IInv, NEW j \in Jobs, Enqueue(j) PROVE IInv'
<1> USE DEF Enqueue, connection, written
<1>1. TypeOK
  BY DEF IInv
<1>2. /\ job'[j] = [status |-> "pending", attempts |-> 0, worker |-> None,
                    generation |-> generation, error |-> "none"]
      /\ \A k \in Jobs : k # j => job'[k] = job[k]
  BY <1>1 DEF TypeOK
<1>3. TypeOK'
  <2>1. generation \in 0..MaxGeneration
    BY <1>1, Bounds DEF TypeOK
  <2>2. job'[j] \in Row
    BY <1>2, <2>1, Bounds DEF Row, Live, Errors
  <2>3. job' \in [Jobs -> Row]
    BY <1>1, <2>2 DEF TypeOK
  <2>4. QED
    BY <1>1, <2>3 DEF TypeOK
<1>4. Accounts' /\ Labelled'
  BY DEF IInv, Accounts, Labelled
<1>5. /\ job'[j].status = "pending" /\ job'[j].attempts = 0 /\ job[j].status = "absent"
      /\ UNCHANGED <<connection, checkpoint, visits, path, usage, task>>
  BY <1>2
<1> HIDE DEF Enqueue
<1>5a. ASSUME NEW k \in Jobs PROVE Budgeted(k)'
  <2>1. Budgeted(k)
    BY DEF IInv
  <2>2. CASE k = j
    BY <1>5, <2>2, Bounds DEF Budgeted
  <2>3. CASE k # j
    BY <1>2, <2>1, <2>3 DEF Budgeted, StaleCancelled
  <2>4. QED
    BY <2>2, <2>3
<1>6. ASSUME NEW k \in Jobs PROVE Chained(k)'
  <2>1. Chained(k) /\ (k = j => path[k] = <<>>)
    BY <1>5 DEF IInv, Chained
  <2>2. /\ job'[k].generation = job[k].generation \/ path[k] = <<>>
        /\ job'[k].status = "succeeded" <=> job[k].status = "succeeded"
        /\ job'[k].status = "absent" => job[k].status = "absent"
    BY <1>2, <1>5, <2>1
  <2>3. QED
    BY <1>5, <2>1, <2>2, ChainKept
<1>7. ASSUME NEW v \in Workers PROVE Informed(v)'
  <2>1. Informed(v) /\ (task[v].at # "idle" => task[v].job \in Jobs)
    BY DEF IInv, Informed
  <2>2. task[v].at # "idle" => job'[task[v].job] = job[task[v].job] \/ job'[task[v].job].status # "running"
    BY <1>2, <1>5, <2>1
  <2>3. QED
    BY <1>5, <2>1, <2>2, InformedKept
<1>8. QED
  BY <1>3, <1>4, <1>5a, <1>6, <1>7 DEF IInv

LEMMA ElapseKeeps == ASSUME IInv, NEW j \in Jobs, Elapse(j) PROVE IInv'
<1> USE DEF Elapse, connection, written, IInv
<1>1. TypeOK' /\ Accounts' /\ Labelled'
  BY DEF TypeOK, Accounts, Labelled
<1>2. \A k \in Jobs : Budgeted(k)' /\ Chained(k)'
  BY DEF Budgeted, Chained, StaleCancelled
<1>3. \A v \in Workers : Informed(v)'
  BY DEF Informed, Held
<1>4. QED
  BY <1>1, <1>2, <1>3

LEMMA ClaimKeeps == ASSUME IInv, NEW w \in Workers, ClaimWithPolicy(w) PROVE IInv'
<1>1. PICK h \in Jobs \cup {0} :
        /\ IF h = 0 THEN \A j \in Jobs : ~Claimable(j) ELSE Claimable(h)
        /\ job' = [j \in Jobs |->
              IF j \in Swept THEN Cancelled(job[j], "stale")
              ELSE IF j \in Spent THEN UpdatedRow(job[j], "failed", MaxAttempts, None)
              ELSE IF j = h THEN UpdatedRow(job[j], "running", ClaimedAttempts(job[j]), w)
              ELSE job[j]]
        /\ future' = (future \ Swept) \cup ({h} \ {0})
        /\ Forget(Swept)
        /\ task' = IF h = 0 THEN task
                   ELSE [task EXCEPT ![w] = NoPage("cursor", h, ClaimedAttempts(job[h]), job[h].generation,
                                                   "pending")]
  BY ZenonT(60) DEF ClaimWithPolicy
<1>2. task[w].at = "idle" /\ UNCHANGED <<connection, written, controls>>
  BY DEF ClaimWithPolicy
<1>3. TypeOK
  BY DEF IInv
<1> USE DEF connection, written
<1>4. ASSUME h # 0
      PROVE  /\ h \in Jobs /\ h \notin Swept /\ h \notin Spent /\ job[h].status \in Live
             /\ ClaimedAttempts(job[h]) \in Nat /\ ClaimedAttempts(job[h]) < MaxAttempts
  <2>1. h \in Jobs /\ Claimable(h)
    BY <1>1, <1>4
  <2>2. job[h].status \in Live /\ job[h].generation = generation /\ h \notin future /\ ~Exhausted(h)
    BY <2>1 DEF Claimable, Lane
  <2>3. h \notin Swept /\ h \notin Spent
    BY <2>2 DEF Swept, StaleJobs, Spent
  <2>4. job[h].attempts \in Nat /\ MaxAttempts \in Nat
    BY <1>3, <2>1, SyncAssumption DEF TypeOK, Row
  <2>5. job[h].attempts < MaxAttempts
    BY <2>1, <2>2 DEF IInv, Budgeted
  <2>6. QED
    BY <2>1, <2>2, <2>3, <2>4, <2>5 DEF ClaimedAttempts, Exhausted
<1>5. ASSUME NEW j \in Jobs, j \in Swept
      PROVE  /\ job[j].status \in Live /\ job'[j] \in Row /\ job'[j].status = "cancelled"
             /\ job'[j].attempts = job[j].attempts
  <2>1. job'[j] = Cancelled(job[j], "stale") /\ job[j] \in Row /\ job[j].status \in Live
    BY <1>1, <1>3, <1>5 DEF TypeOK, Swept, StaleJobs
  <2>2. "stale" \in Errors
    BY DEF Errors
  <2>3. QED
    BY <2>1, <2>2, CancelledRow
<1>6. ASSUME NEW j \in Jobs, j \notin Swept, j \in Spent
      PROVE  /\ job[j].status \in Live /\ job'[j] \in Row /\ job'[j].status = "failed"
             /\ job'[j].generation = job[j].generation
  <2>1. job'[j] = UpdatedRow(job[j], "failed", MaxAttempts, None) /\ job[j] \in Row /\ job[j].status \in Live
    BY <1>1, <1>3, <1>6 DEF TypeOK, Spent, Lane
  <2>2. MaxAttempts \in 0..MaxAttempts /\ "failed" \in Live \cup {"succeeded", "failed"} /\ None \in Workers \cup {None}
    BY Bounds
  <2>2a. job[j] \in Row
    BY <2>1
  <2>3. /\ UpdatedRow(job[j], "failed", MaxAttempts, None) \in Row
        /\ UpdatedRow(job[j], "failed", MaxAttempts, None).status = "failed"
        /\ UpdatedRow(job[j], "failed", MaxAttempts, None).generation = job[j].generation
    BY <2>2, <2>2a, UpdatedRowRow
  <2>4. QED
    BY <2>1, <2>3
<1>7. ASSUME h # 0
      PROVE  /\ job'[h] \in Row /\ job'[h].status = "running" /\ job'[h].worker = w
             /\ job'[h].attempts = ClaimedAttempts(job[h]) /\ job'[h].generation = job[h].generation
  <2>1. job'[h] = UpdatedRow(job[h], "running", ClaimedAttempts(job[h]), w) /\ job[h] \in Row
    BY <1>1, <1>3, <1>4, <1>7 DEF TypeOK
  <2>2. ClaimedAttempts(job[h]) \in 0..MaxAttempts
    BY <1>4, <1>7, SyncAssumption
  <2>3. QED
    BY <2>1, <2>2, UpdatedRowRow DEF Live
<1>8. ASSUME NEW j \in Jobs, j \notin Swept, j \notin Spent, j # h PROVE job'[j] = job[j]
  BY <1>1, <1>8
<1>9. /\ \A v \in Workers : v # w \/ h = 0 => task'[v] = task[v]
      /\ h # 0 => /\ task'[w] \in Task /\ task'[w].at = "cursor" /\ task'[w].job = h
                  /\ task'[w].attempts = ClaimedAttempts(job[h])
  <2>1. CASE h = 0
    BY <1>1, <2>1
  <2>2. CASE h # 0
    <3>1. task' = [task EXCEPT ![w] = NoPage("cursor", h, ClaimedAttempts(job[h]), job[h].generation, "pending")]
      BY <1>1, <2>2
    <3>2. /\ "cursor" \in Phases /\ h \in Jobs \cup {0} /\ ClaimedAttempts(job[h]) \in 0..MaxAttempts
          /\ job[h].generation \in 0..MaxGeneration
      BY <1>3, <1>4, <2>2, SyncAssumption DEF Phases, TypeOK, Row
    <3>3. QED
      BY <1>3, <2>2, <3>1, <3>2, NoPageTask DEF TypeOK
  <2>3. QED
    BY <2>1, <2>2
<1>10. TypeOK'
  <2>1. job' \in [Jobs -> Row]
    <3>1. ASSUME NEW j \in Jobs PROVE job'[j] \in Row
      <4>1. CASE j \in Swept
        BY <1>5, <4>1
      <4>2. CASE j \notin Swept /\ j \in Spent
        BY <1>6, <4>2
      <4>3. CASE j = h
        BY <1>7, <4>3, SyncAssumption
      <4>4. CASE j \notin Swept /\ j \notin Spent /\ j # h
        BY <1>3, <1>8, <4>4 DEF TypeOK
      <4>5. QED
        BY <4>1, <4>2, <4>3, <4>4
    <3>2. QED
      BY <1>1, <3>1
  <2>2. task' \in [Workers -> Task]
    BY <1>1, <1>3, <1>9 DEF TypeOK
  <2>3. future' \subseteq Jobs
    BY <1>1, <1>3 DEF TypeOK
  <2>4. QED
    BY <1>1, <1>2, <1>3, <2>1, <2>2, <2>3, Forgetting DEF TypeOK
<1>11. Accounts' /\ Labelled'
  BY <1>2 DEF IInv, Accounts, Labelled
<1>12. ASSUME NEW j \in Jobs PROVE Budgeted(j)'
  <2>1. Budgeted(j)
    BY DEF IInv
  <2>2. CASE j \in Swept
    BY <1>5, <2>1, <2>2 DEF Budgeted
  <2>3. CASE j \notin Swept /\ j \in Spent
    BY <1>6, <2>3 DEF Budgeted, StaleCancelled, Live
  <2>4. CASE j = h
    BY <1>4, <1>7, <2>4, SyncAssumption DEF Budgeted
  <2>5. CASE j \notin Swept /\ j \notin Spent /\ j # h
    BY <1>8, <2>1, <2>5 DEF Budgeted, StaleCancelled
  <2>6. QED
    BY <2>2, <2>3, <2>4, <2>5
<1>13. ASSUME NEW j \in Jobs PROVE Chained(j)'
  <2>1. Chained(j) /\ usage \subseteq usage'
    BY <1>2 DEF IInv
  <2>2. CASE j \in Swept
    BY <1>1, <1>3, <1>5, <2>2, Forgetting, ChainForgotten
  <2>3. CASE j \notin Swept
    <3>1. path'[j] = path[j] /\ checkpoint'[j] = checkpoint[j] /\ visits'[j] = visits[j]
      BY <1>1, <1>3, <2>3, Forgetting
    <3>2. /\ job'[j].generation = job[j].generation
          /\ job'[j].status = "succeeded" <=> job[j].status = "succeeded"
          /\ job'[j].status = "absent" => job[j].status = "absent"
      <4>1. CASE j \in Spent
        BY <1>6, <2>3, <4>1 DEF Live
      <4>2. CASE j = h
        BY <1>4, <1>7, <4>2, SyncAssumption DEF Live
      <4>3. CASE j \notin Spent /\ j # h
        BY <1>8, <2>3, <4>3
      <4>4. QED
        BY <4>1, <4>2, <4>3
    <3>3. QED
      BY ZenonT(60), <2>1, <3>1, <3>2, ChainKept
  <2>4. QED
    BY <2>2, <2>3
<1>14. ASSUME NEW v \in Workers PROVE Informed(v)'
  <2>1. Informed(v) /\ (task[v].at # "idle" => task[v].job \in Jobs)
    BY DEF IInv, Informed
  <2>2. CASE v = w /\ h # 0
    BY <1>4, <1>7, <1>9, <2>2 DEF Informed
  <2>3. CASE v # w \/ h = 0
    <3>1. task[v].at # "idle" => \/ job'[task[v].job] = job[task[v].job]
                                 \/ job'[task[v].job].status # "running"
                                 \/ job'[task[v].job].worker # v
      <4> DEFINE j == task[v].job
      <4> HAVE task[v].at # "idle"
      <4>0. j \in Jobs /\ v # w
        BY <1>2, <2>1, SyncAssumption
      <4> HIDE DEF j
      <4>1. CASE j \in Swept
        BY <1>5, <4>0, <4>1 DEF j
      <4>2. CASE j \notin Swept /\ j \in Spent
        BY <1>6, <4>0, <4>2 DEF j
      <4>3. CASE j = h
        BY <1>7, <4>0, <4>3, SyncAssumption DEF j
      <4>4. CASE j \notin Swept /\ j \notin Spent /\ j # h
        BY <1>8, <4>0, <4>4 DEF j
      <4>5. QED
        BY <4>1, <4>2, <4>3, <4>4
    <3>2. QED
      BY <1>2, <1>9, <2>1, <2>3, <3>1, InformedKept
  <2>4. QED
    BY <2>2, <2>3
<1>15. QED
  BY <1>10, <1>11, <1>12, <1>13, <1>14 DEF IInv

LEMMA ReadCursorKeeps == ASSUME IInv, NEW w \in Workers, ReadCursor(w) PROVE IInv'
<1> DEFINE t == [[task[w] EXCEPT !.at = "resolve"] EXCEPT !.cursor = checkpoint[task[w].job].cursor]
<1>1. /\ task[w].at = "cursor" /\ task[w].job \in Jobs /\ task[w] \in Task
      /\ checkpoint[task[w].job].cursor \in Cursors
      /\ UNCHANGED <<connection, rows, written, controls>>
  BY DEF IInv, Informed, TypeOK, Checkpoint, ReadCursor, At
<1>2. Go(w, t) \/ \E phase \in {"idle", "stale"} : Go(w, Ended(w, phase))
  <2>1. [task[w] EXCEPT !.at = "resolve", !.cursor = checkpoint[task[w].job].cursor] = t
    OBVIOUS
  <2>2. Unlocked(w) \in {"idle", "stale"}
    BY DEF Unlocked
  <2>3. QED
    BY <2>1, <2>2 DEF ReadCursor
<1>3. CASE Go(w, t)
  <2>1. /\ t \in Task /\ t.at = "resolve" /\ t.job = task[w].job /\ t.attempts = task[w].attempts
    BY ZenonT(60), <1>1 DEF Task, Phases
  <2> HIDE DEF t
  <2>2. task'[w] = t /\ job' = job
    BY <1>1, <1>3, GoTask DEF IInv, rows
  <2>3. Informed(w)
    BY DEF IInv
  <2>4. Informed(w)'
    BY <1>1, <2>1, <2>2, <2>3 DEF Informed, Held
  <2>5. QED
    BY <1>1, <1>3, <2>1, <2>4, OnlyTask
<1>4. QED
  BY <1>1, <1>2, <1>3, Leaving

LEMMA ResolveKeeps == ASSUME IInv, NEW w \in Workers, Resolve(w) PROVE IInv'
<1> DEFINE t == [[[task[w] EXCEPT !.at = "send"] EXCEPT !.secret = secret] EXCEPT !.account = account]
<1>1. /\ task[w].at = "resolve" /\ task[w].job \in Jobs /\ task[w] \in Task
      /\ UNCHANGED <<connection, rows, written, controls>>
  BY DEF IInv, Informed, TypeOK, Resolve, At
<1>2. Go(w, t) \/ Go(w, Ended(w, "stale"))
  <2>1. [task[w] EXCEPT !.at = "send", !.secret = secret, !.account = account] = t
    OBVIOUS
  <2>2. QED
    BY <2>1 DEF Resolve
<1>3. CASE Go(w, t)
  <2>1. secret \in 0..MaxSecret /\ account \in 0..MaxGeneration /\ secret \in Nat
    BY Bounds DEF IInv, TypeOK
  <2>2. /\ t \in Task /\ t.at = "send" /\ t.job = task[w].job /\ t.attempts = task[w].attempts
        /\ t.secret = secret /\ t.account = account
    BY ZenonT(60), <1>1, <2>1 DEF Task, Phases
  <2> HIDE DEF t
  <2>3. task'[w] = t /\ job' = job /\ secret' = secret /\ account' = account
    BY <1>1, <1>3, GoTask DEF IInv, rows, connection
  <2>4. Informed(w)
    BY DEF IInv
  <2>5. Informed(w)'
    BY <1>1, <2>1, <2>2, <2>3, <2>4 DEF Informed, Held
  <2>6. QED
    BY <1>1, <1>3, <2>2, <2>5, OnlyTask
<1>4. QED
  BY <1>1, <1>2, <1>3, Leaving

LEMMA SendKeeps == ASSUME IInv, NEW w \in Workers, Send(w) PROVE IInv'
<1>1. /\ task[w].at = "send" /\ task[w].job \in Jobs /\ task[w] \in Task
      /\ UNCHANGED <<connection, rows, written, controls>>
  BY ZenonT(60) DEF IInv, Informed, TypeOK, Send, At
<1>2. \/ Go(w, Ended(w, "stale"))
      \/ \E p \in Pages : Go(w, [task[w] EXCEPT !.at = "commit", !.next = p.next, !.records = p.records])
  BY ZenonT(60) DEF Send
<1>3. ASSUME NEW p \in Pages,
             Go(w, [task[w] EXCEPT !.at = "commit", !.next = p.next, !.records = p.records])
      PROVE  IInv'
  <2> DEFINE t == [[[task[w] EXCEPT !.at = "commit"] EXCEPT !.next = p.next] EXCEPT !.records = p.records]
  <2>1. Go(w, t)
    <3>1. [task[w] EXCEPT !.at = "commit", !.next = p.next, !.records = p.records] = t
      OBVIOUS
    <3>2. QED
      BY <1>3, <3>1
  <2>2. p.next \in Cursors /\ p.records \in 0..1
    BY SyncAssumption
  <2>3. /\ t \in Task /\ t.at = "commit" /\ t.job = task[w].job /\ t.attempts = task[w].attempts
        /\ t.secret = task[w].secret /\ t.account = task[w].account
    BY ZenonT(60), <1>1, <2>2 DEF Task, Phases
  <2> HIDE DEF t
  <2>4. task'[w] = t /\ job' = job /\ secret' = secret /\ account' = account
    BY <1>1, <2>1, GoTask DEF IInv, rows, connection
  <2>5. Informed(w)
    BY DEF IInv
  <2>6. Informed(w)'
    BY ZenonT(60), <1>1, <2>3, <2>4, <2>5 DEF Informed, Held
  <2>7. QED
    BY <1>1, <2>1, <2>3, <2>6, OnlyTask
<1>4. QED
  BY ZenonT(60), <1>1, <1>2, <1>3, Leaving

LEMMA LeavingKeeps ==
    ASSUME IInv, NEW w \in Workers, FetchFails(w) \/ CommitFails(w) \/ Stop(w)
    PROVE  IInv'
<1>1. CASE FetchFails(w)
  BY ZenonT(60), <1>1, Leaving DEF FetchFails
<1>2. CASE CommitFails(w)
  BY ZenonT(60), <1>2, Leaving DEF CommitFails, At
<1>3. CASE Stop(w)
  BY <1>3, Leaving DEF Stop
<1>4. QED
  BY <1>1, <1>2, <1>3

(* One job's row changes, and it is not running afterwards. *)
LEMMA OneJob ==
    ASSUME IInv, NEW j \in Jobs, NEW r \in Row, job' = [job EXCEPT ![j] = r], r.status # "running",
           UNCHANGED connection, usage \subseteq usage', TypeOK', Labelled',
           \A k \in Jobs : k # j => path'[k] = path[k] /\ checkpoint'[k] = checkpoint[k] /\ visits'[k] = visits[k],
           Budgeted(j)', Chained(j)',
           \A v \in Workers : task'[v] = task[v] \/ Informed(v)'
    PROVE  IInv'
<1>1. /\ job'[j].status # "running"
      /\ \A k \in Jobs : k # j => job'[k] = job[k]
  BY DEF IInv, TypeOK
<1>2. Accounts'
  BY DEF IInv, Accounts, connection
<1>3. ASSUME NEW k \in Jobs PROVE Budgeted(k)'
  BY <1>1 DEF IInv, Budgeted, StaleCancelled
<1>4. ASSUME NEW k \in Jobs PROVE Chained(k)'
  <2>1. Chained(k)
    BY DEF IInv
  <2>2. CASE k # j
    BY <1>1, <2>1, <2>2, ChainKept
  <2>3. QED
    BY <2>2
<1>5. ASSUME NEW v \in Workers PROVE Informed(v)'
  <2>1. Informed(v) /\ (task[v].at # "idle" => task[v].job \in Jobs)
    BY ZenonT(60) DEF IInv, Informed
  <2>2. task[v].at # "idle" => job'[task[v].job] = job[task[v].job] \/ job'[task[v].job].status # "running"
    BY ZenonT(60), <1>1, <2>1
  <2>3. QED
    BY <2>1, <2>2, InformedKept
<1>6. QED
  BY <1>2, <1>3, <1>4, <1>5 DEF IInv

LEMMA Appended == ASSUME NEW S, NEW s \in Seq(S), NEW x \in S PROVE Append(s, x) \in Seq(S)
  OBVIOUS

LEMMA CommitPageKeeps == ASSUME IInv, NEW w \in Workers, CommitPage(w) PROVE IInv'
<1>a. PICK t \in Task : t = task[w]
  BY DEF IInv, TypeOK
<1>b. PICK j \in Jobs : j = t.job
  BY ZenonT(60), <1>a DEF IInv, Informed, CommitPage, At
<1>c. PICK st \in {"succeeded", "pending"} : st = IF t.next = Start THEN "succeeded" ELSE "pending"
  OBVIOUS
<1>d. PICK r : r = UpdatedRow(job[j], st, job[j].attempts, None)
  OBVIOUS
<1> DEFINE g == [cursor |-> t.cursor, next |-> t.next, records |-> t.records, account |-> t.account]
<1>1. TypeOK /\ t = task[w] /\ j = task[w].job /\ t.at = "commit" /\ Informed(w) /\ Chained(j) /\ Budgeted(j)
  BY ZenonT(60), <1>a, <1>b DEF IInv, CommitPage, At
<1>2. Locked(w) /\ Unmoved(w) /\ checkpoint[j].cursor = t.cursor /\ ~Cycle(w)
  <2>1. Unlocked(w) # "ok"
    BY DEF Unlocked
  <2>2. Verdict(w) = "ok"
    BY ZenonT(60) DEF CommitPage
  <2>3. QED
    BY <1>1, <2>1, <2>2 DEF Verdict
<1>3. /\ job[j].status = "running" /\ job[j].generation = generation
      /\ t.generation = generation /\ t.account = generation
      /\ t.cursor \notin visits[j]
  BY <1>1, <1>2 DEF Locked, Unmoved, Cycle, Informed, IInv, Accounts
<1>4. /\ r \in Row /\ r.status = st
      /\ r.attempts = job[j].attempts /\ r.generation = job[j].generation
  <2>1. job[j] \in Row /\ job[j].attempts \in 0..MaxAttempts
    BY <1>1 DEF TypeOK, Row
  <2>2. st \in Live \cup {"succeeded", "failed"} /\ None \in Workers \cup {None}
    BY DEF Live
  <2>3. /\ UpdatedRow(job[j], st, job[j].attempts, None) \in Row
        /\ UpdatedRow(job[j], st, job[j].attempts, None).status = st
        /\ UpdatedRow(job[j], st, job[j].attempts, None).attempts = job[j].attempts
        /\ UpdatedRow(job[j], st, job[j].attempts, None).generation = job[j].generation
    BY <2>1, <2>2, UpdatedRowRow
  <2>4. QED
    BY ZenonT(60), <1>d, <2>3
<1>5. g \in Page /\ g.cursor = t.cursor /\ g.next = t.next /\ g.records = t.records /\ g.account = t.account
  BY <1>1 DEF Task, Page
<1>6. /\ job' = [job EXCEPT ![j] = r]
      /\ future' = future \ {j}
      /\ checkpoint' = [checkpoint EXCEPT ![j] = [cursor |-> t.next, generation |-> t.generation]]
      /\ visits' = [visits EXCEPT ![j] = visits[j] \cup {t.cursor}]
      /\ path' = [path EXCEPT ![j] = Append(path[j], g)]
      /\ IF t.records = 0 THEN UNCHANGED written
         ELSE /\ messages' = [messages EXCEPT ![t.cursor] = [generation |-> t.generation, account |-> t.account]]
              /\ usage' = usage \cup {<<j, t.cursor>>}
      /\ Go(w, Idle) \/ Go(w, Failing(w, FALSE))
      /\ UNCHANGED <<connection, controls>>
  BY ZenonT(60), <1>1, <1>b, <1>c, <1>d DEF CommitPage
<1>7. /\ t.cursor \in Cursors /\ t.next \in Cursors /\ t.records \in 0..1
      /\ t.generation \in 0..MaxGeneration /\ t.account \in 0..MaxGeneration
  BY <1>1 DEF Task
<1> HIDE DEF g
<1>8. /\ usage \subseteq usage' /\ usage' \subseteq Jobs \X Cursors
      /\ t.records = 1 => <<j, t.cursor>> \in usage'
  <2>1. usage \subseteq Jobs \X Cursors
    BY <1>1 DEF TypeOK
  <2>2. CASE t.records = 0
    BY <1>6, <2>1, <2>2 DEF written
  <2>3. CASE t.records # 0
    <3>1. usage' = usage \cup {<<j, t.cursor>>}
      BY <1>6, <2>3
    <3>2. QED
      BY <1>7, <2>1, <3>1
  <2>4. QED
    BY <2>2, <2>3
<1>9. /\ messages' \in [Cursors -> [generation : 0..MaxGeneration, account : 0..MaxGeneration]]
      /\ Labelled'
  <2>1. CASE t.records = 0
    BY ZenonT(60), <1>1, <1>6, <2>1 DEF TypeOK, written, Labelled, IInv
  <2>2. CASE t.records # 0
    <3>1. messages' = [messages EXCEPT ![t.cursor] = [generation |-> t.generation, account |-> t.account]]
      BY <1>6, <2>2
    <3>2. messages \in [Cursors -> [generation : 0..MaxGeneration, account : 0..MaxGeneration]] /\ Labelled
      BY ZenonT(60), <1>1 DEF TypeOK, IInv
    <3>3. QED
      BY <1>3, <1>7, <3>1, <3>2 DEF Labelled
  <2>3. QED
    BY <2>1, <2>2
<1>10. /\ task' \in [Workers -> Task]
       /\ \A v \in Workers : v # w => task'[v] = task[v]
       /\ task'[w].at = "idle" \/ (task'[w].at = "fail" /\ task'[w].job = j)
  <2>1. CASE Go(w, Idle)
    BY ZenonT(60), <1>1, <2>1, GoTask, IdleTask
  <2>2. CASE Go(w, Failing(w, FALSE))
    BY ZenonT(60), <1>1, <2>2, GoTask, FailingTask
  <2>3. QED
    BY ZenonT(60), <1>6, <2>1, <2>2
<1>11. path[j] \in Seq(Page) /\ Append(path[j], g) \in Seq(Page)
  <2>1. path \in [Jobs -> Seq(Page)] /\ j \in Jobs
    BY <1>1 DEF TypeOK
  <2>2. path[j] \in Seq(Page)
    BY ZenonT(60), <2>1
  <2>3. g \in Page
    BY Zenon, <1>5
  <2>4. QED
    BY Zenon, <2>2, <2>3, Appended
<1>12. TypeOK'
  <2>1. job' \in [Jobs -> Row]
    BY ZenonT(60), <1>1, <1>4, <1>6 DEF TypeOK
  <2>2. checkpoint' \in [Jobs -> Checkpoint]
    <3>1. [cursor |-> t.next, generation |-> t.generation] \in Checkpoint
      BY <1>7 DEF Checkpoint
    <3>2. QED
      BY ZenonT(60), <1>1, <1>6, <3>1 DEF TypeOK
  <2>3. visits' \in [Jobs -> SUBSET Cursors]
    BY ZenonT(60), <1>1, <1>6, <1>7 DEF TypeOK
  <2>4. path' \in [Jobs -> Seq(Page)]
    BY ZenonT(60), <1>1, <1>6, <1>11 DEF TypeOK
  <2>5. future' \subseteq Jobs /\ UNCHANGED <<status, secret, generation, account, controls>>
    BY ZenonT(60), <1>1, <1>6 DEF TypeOK, connection
  <2>6. QED
    BY <1>1, <1>8, <1>9, <1>10, <2>1, <2>2, <2>3, <2>4, <2>5 DEF TypeOK
<1>13. /\ job'[j] = r /\ path'[j] = Append(path[j], g) /\ checkpoint'[j].cursor = t.next
       /\ visits'[j] = visits[j] \cup {t.cursor}
       /\ \A k \in Jobs : k # j => path'[k] = path[k] /\ checkpoint'[k] = checkpoint[k] /\ visits'[k] = visits[k]
  BY ZenonT(60), <1>1, <1>6 DEF TypeOK
<1>14. Budgeted(j)'
  BY ZenonT(60), <1>1, <1>3, <1>4, <1>13 DEF Budgeted, StaleCancelled, Live
<1>15. Chained(j)'
  <2>1. /\ Linked(path[j]) /\ g.cursor = EndOf(path[j]) /\ g.cursor \notin CursorsOf(path[j])
        /\ visits[j] = CursorsOf(path[j]) /\ Charged(j, path[j], usage) /\ Fetched(path[j], job[j].generation)
    BY ZenonT(60), <1>1, <1>2, <1>3, <1>5 DEF Chained
  <2>a. PICK p \in Seq(Page), q \in Page : p = path[j] /\ q = g
    BY <1>5, <1>11
  <2>b. Linked(p) /\ q.cursor = EndOf(p) /\ q.cursor \notin CursorsOf(p)
    BY <2>1, <2>a
  <2>c. /\ Linked(Append(p, q)) /\ EndOf(Append(p, q)) = q.next
        /\ CursorsOf(Append(p, q)) = CursorsOf(p) \cup {q.cursor}
        /\ Complete(Append(p, q)) <=> q.next = Start
        /\ \A acc : Fetched(p, acc) /\ q.account = acc => Fetched(Append(p, q), acc)
        /\ \A k, u, v : /\ Charged(k, p, u) /\ u \subseteq v
                        /\ q.records = 1 => <<k, q.cursor>> \in v
                        => Charged(k, Append(p, q), v)
    BY ZenonT(60), <2>b, ChainExtended
  <2>d. path'[j] = Append(p, q)
    BY <1>13, <2>a
  <2>2. /\ Linked(path'[j]) /\ EndOf(path'[j]) = g.next
        /\ CursorsOf(path'[j]) = CursorsOf(path[j]) \cup {g.cursor}
        /\ Complete(path'[j]) <=> g.next = Start
    BY <2>a, <2>c, <2>d
  <2>3. Fetched(path'[j], job'[j].generation)
    <3>1. Fetched(p, job[j].generation) /\ q.account = job[j].generation
      BY <1>3, <1>5, <2>1, <2>a
    <3>2. Fetched(Append(p, q), job[j].generation)
      BY <2>c, <3>1
    <3>3. job'[j].generation = job[j].generation
      BY <1>4, <1>13
    <3>4. QED
      BY <2>d, <3>2, <3>3
  <2>4. Charged(j, path'[j], usage')
    <3>1. Charged(j, p, usage) /\ usage \subseteq usage' /\ (q.records = 1 => <<j, q.cursor>> \in usage')
      BY <1>5, <1>8, <2>1, <2>a
    <3>2. Charged(j, Append(p, q), usage')
      BY <2>c, <3>1
    <3>3. QED
      BY <2>d, <3>2
  <2>5. job'[j].status = "succeeded" <=> g.next = Start
    BY <1>4, <1>5, <1>13, <1>c
  <2>5a. job'[j].status # "absent"
    BY <1>4, <1>13
  <2>6. QED
    BY ZenonT(60), <1>5, <1>13, <2>1, <2>2, <2>3, <2>4, <2>5, <2>5a DEF Chained
<1>16. Informed(w)'
  BY ZenonT(60), <1>1, <1>4, <1>10, <1>13 DEF Informed, Held
<1>17. r.status # "running"
  BY <1>4
<1>18. QED
  BY ZenonT(60), <1>17, <1>1, <1>4, <1>6, <1>8, <1>9, <1>10, <1>12, <1>13, <1>14, <1>15, <1>16, OneJob

LEMMA FailWithErrorKeeps == ASSUME IInv, NEW w \in Workers, FailWithError(w) PROVE IInv'
<1>1. PICK t \in Task : t = task[w]
  BY DEF IInv, TypeOK
<1>2. PICK j \in Jobs : j = t.job
  BY ZenonT(60), <1>1 DEF IInv, Informed, FailWithError, At
<1>3. /\ TypeOK /\ t.at = "fail" /\ Go(w, Idle) /\ Informed(w) /\ Chained(j) /\ Budgeted(j)
      /\ UNCHANGED <<connection, checkpoint, visits, path, written, controls>>
  BY <1>1 DEF IInv, FailWithError, At
<1>4. CASE ~Locked(w)
  BY ZenonT(60), <1>1, <1>3, <1>4, Leaving DEF FailWithError, rows
<1>5. CASE Locked(w)
  <2>1. job[j].status = "running" /\ job[j].worker = w
    BY <1>1, <1>2, <1>5 DEF Locked
  <2>2. job[j] \in Row /\ job[j].attempts \in Nat /\ job[j].attempts < MaxAttempts /\ MaxAttempts \in Nat
    BY <1>3, <2>1, Bounds DEF TypeOK, Row, Budgeted, Live
  <2>3. t.fate = "pending" => job[j].attempts + 1 < MaxAttempts
    BY <1>1, <1>2, <1>3, <2>1 DEF Informed, Held
  <2>4. t.fate \in {"pending", "failed"}
    BY DEF Task
  <2>5. PICK r : r = UpdatedRow(job[j], t.fate, job[j].attempts + 1, None)
    OBVIOUS
  <2>6. /\ r \in Row /\ r.status = t.fate /\ r.attempts = job[j].attempts + 1
        /\ r.generation = job[j].generation
    <3>1. /\ job[j].attempts + 1 \in 0..MaxAttempts /\ t.fate \in Live \cup {"succeeded", "failed"}
          /\ None \in Workers \cup {None} /\ job[j] \in Row
      BY <2>2, <2>4 DEF Live
    <3>2. QED
      BY <2>5, <3>1, UpdatedRowRow
  <2>7. /\ job' = [job EXCEPT ![j] = r]
        /\ future' = IF t.fate = "pending" THEN future ELSE future \ {j}
    BY <1>1, <1>2, <1>5, <2>5 DEF FailWithError
  <2>8. job'[j] = r
    BY <1>3, <2>7 DEF TypeOK
  <2>9. /\ task' \in [Workers -> Task] /\ task'[w].at = "idle"
        /\ \A v \in Workers : v # w => task'[v] = task[v]
    BY <1>3, GoTask, IdleTask
  <2>10. TypeOK' /\ Labelled' /\ usage \subseteq usage'
    <3>1. job' \in [Jobs -> Row] /\ future' \subseteq Jobs
      BY <1>3, <2>6, <2>7 DEF TypeOK
    <3>2. QED
      BY <1>3, <2>9, <3>1 DEF TypeOK, Labelled, IInv, connection, written
  <2>11. Budgeted(j)'
    BY <2>2, <2>3, <2>4, <2>6, <2>8 DEF Budgeted, StaleCancelled, Live
  <2>12. Chained(j)'
    <3>1. job'[j].status \notin {"succeeded", "absent"} /\ job'[j].generation = job[j].generation
      BY <2>4, <2>6, <2>8
    <3>2. QED
      BY <1>3, <2>1, <2>10, <3>1, ChainKept
  <2>13. Informed(w)'
    BY <2>9 DEF Informed
  <2>14. r.status # "running"
    BY <2>4, <2>6
  <2>15. QED
    BY ZenonT(60), <1>3, <2>6, <2>7, <2>9, <2>10, <2>11, <2>12, <2>13, <2>14, OneJob
<1>6. QED
  BY <1>4, <1>5

LEMMA CancelStaleKeeps == ASSUME IInv, NEW w \in Workers, CancelStale(w) PROVE IInv'
<1>1. PICK j \in Jobs : j = task[w].job
  BY ZenonT(60) DEF IInv, Informed, CancelStale, At
<1>2. /\ TypeOK /\ task[w].at = "stale" /\ Go(w, Idle) /\ Budgeted(j)
      /\ UNCHANGED <<connection, written, controls>>
  BY ZenonT(60) DEF IInv, CancelStale, At
<1>3. CASE UNCHANGED rows
  BY <1>2, <1>3, Leaving
<1>4. CASE /\ job[j].status = "running"
           /\ job' = [job EXCEPT ![j] = Cancelled(job[j], "stale")]
           /\ future' = future \ {j}
           /\ Forget({j})
  <2>1. job[j] \in Row /\ "stale" \in Errors
    BY <1>2 DEF TypeOK, Errors
  <2>2. PICK r \in Row : r = Cancelled(job[j], "stale")
    BY <2>1, CancelledRow
  <2>3. r.status = "cancelled" /\ r.attempts = job[j].attempts
    BY <2>1, <2>2, CancelledRow
  <2>4. job' = [job EXCEPT ![j] = r] /\ job'[j] = r
    BY <1>2, <1>4, <2>2 DEF TypeOK
  <2>5. /\ task' \in [Workers -> Task] /\ task'[w].at = "idle"
        /\ \A v \in Workers : v # w => task'[v] = task[v]
    BY <1>2, GoTask, IdleTask
  <2>6. TypeOK' /\ Labelled' /\ usage \subseteq usage'
    <3>1. job' \in [Jobs -> Row] /\ future' \subseteq Jobs
      BY <1>2, <1>4, <2>4 DEF TypeOK
    <3>2. /\ checkpoint' \in [Jobs -> Checkpoint] /\ visits' \in [Jobs -> SUBSET Cursors]
          /\ path' \in [Jobs -> Seq(Page)]
      BY <1>2, <1>4, Forgetting
    <3>3. QED
      BY <1>2, <2>5, <3>1, <3>2 DEF TypeOK, Labelled, IInv, connection, written
  <2>7. Budgeted(j)'
    BY <1>2, <1>4, <2>3, <2>4 DEF Budgeted, StaleCancelled, Live
  <2>8. Chained(j)'
    <3>1. path'[j] = <<>> /\ checkpoint'[j] = NoCheckpoint /\ visits'[j] = {}
      BY <1>4 DEF Forget
    <3>2. job'[j].status # "succeeded"
      BY <2>3, <2>4
    <3>3. QED
      BY <3>1, <3>2, ChainForgotten
  <2>9. Informed(w)'
    BY <2>5 DEF Informed
  <2>10. \A k \in Jobs : k # j => path'[k] = path[k] /\ checkpoint'[k] = checkpoint[k] /\ visits'[k] = visits[k]
    BY <1>2, <1>4, Forgetting
  <2>11. r.status # "running"
    BY <2>3
  <2>12. QED
    BY ZenonT(60), <1>2, <2>4, <2>5, <2>6, <2>7, <2>8, <2>9, <2>10, <2>11, OneJob
<1>5. QED
  BY ZenonT(60), <1>1, <1>3, <1>4 DEF CancelStale

LEMMA ControlKeeps == ASSUME IInv, NEW j \in Jobs, NEW action \in Actions, Control(j, action) PROVE IInv'
<1> DEFINE S == IF action # "Cancel" /\ job[j].generation # generation THEN {j} ELSE {}
<1>1. /\ TypeOK /\ job[j] \in Row /\ Chained(j) /\ Budgeted(j)
      /\ Allowed(j, action) /\ Forget(S) /\ UNCHANGED <<connection, written, task>>
      /\ future' = future \ {j} /\ controls < MaxControls /\ controls' = controls + 1
      /\ generation \in 0..MaxGeneration
  BY Bounds DEF IInv, TypeOK, Control
<1>2. PICK r : r = IF action = "Cancel" THEN Cancelled(job[j], "operator") ELSE Restarted(j, action)
  OBVIOUS
<1> DEFINE Fits == /\ r \in Row /\ r.status \in {"pending", "cancelled"}
                   /\ job[j].status \in {"pending", "running", "cancelled", "failed"}
                   /\ r.status = "pending" => r.attempts < MaxAttempts
                   /\ r.status = "cancelled" => r.error = "operator"
                   /\ S = {} => r.generation = job[j].generation
                   /\ S \in {{}, {j}}
<1>3. ASSUME action = "Cancel" PROVE Fits
  <2>1. job[j].status \in Live /\ "operator" \in Errors
    BY <1>1, <1>3 DEF Allowed, Errors
  <2>2. r = Cancelled(job[j], "operator") /\ S = {}
    BY <1>2, <1>3
  <2>3. r \in Row /\ r.status = "cancelled" /\ r.error = "operator" /\ r.generation = job[j].generation
    BY <1>1, <2>1, <2>2, CancelledRow
  <2>4. QED
    BY <2>1, <2>2, <2>3 DEF Live
<1>4. ASSUME action # "Cancel" PROVE Fits
  <2>1. /\ job[j].status \in {"pending", "running", "cancelled", "failed"}
        /\ action = "RunNow" => job[j].status \in Live \/ StaleCancelled(j)
    BY ZenonT(60), <1>1, <1>4 DEF Allowed, Actions, Restartable, StaleCancelled, Live
  <2>2. PICK n : n = IF action = "RunNow" THEN job[j].attempts ELSE 0
    OBVIOUS
  <2>3. n \in 0..MaxAttempts /\ n < MaxAttempts
    <3>1. CASE action = "RunNow"
      <4>1. job[j].attempts < MaxAttempts
        BY <1>1, <2>1, <3>1 DEF Budgeted
      <4>2. job[j].attempts \in 0..MaxAttempts
        BY <1>1 DEF Row
      <4>3. QED
        BY <2>2, <3>1, <4>1, <4>2
    <3>2. CASE action # "RunNow"
      BY <2>2, <3>2, Bounds
    <3>3. QED
      BY <3>1, <3>2
  <2>4. r = [status |-> "pending", worker |-> None, generation |-> generation, attempts |-> n, error |-> "none"]
    BY <1>2, <1>4, <2>2 DEF Restarted
  <2>5. r \in Row /\ r.status = "pending" /\ r.attempts = n /\ r.generation = generation
    BY <1>1, <2>3, <2>4 DEF Row, Live, Errors
  <2>6. S \in {{}, {j}} /\ (S = {} => job[j].generation = generation)
    BY <1>4
  <2>7. QED
    BY <2>1, <2>3, <2>5, <2>6
<1>5. Fits
  BY <1>3, <1>4
<1>6. job' = [job EXCEPT ![j] = r] /\ job'[j] = r
  BY <1>1, <1>2 DEF Control, TypeOK
<1>7. /\ checkpoint' \in [Jobs -> Checkpoint] /\ visits' \in [Jobs -> SUBSET Cursors]
      /\ path' \in [Jobs -> Seq(Page)]
      /\ S = {j} => path'[j] = <<>> /\ checkpoint'[j] = NoCheckpoint /\ visits'[j] = {}
      /\ S = {} => path'[j] = path[j] /\ checkpoint'[j] = checkpoint[j] /\ visits'[j] = visits[j]
      /\ \A k \in Jobs : k # j => path'[k] = path[k] /\ checkpoint'[k] = checkpoint[k] /\ visits'[k] = visits[k]
  <2> HIDE DEF S
  <2>1. /\ checkpoint' \in [Jobs -> Checkpoint] /\ visits' \in [Jobs -> SUBSET Cursors]
        /\ path' \in [Jobs -> Seq(Page)]
        /\ \A k \in Jobs \cap S :
              path'[k] = <<>> /\ checkpoint'[k] = NoCheckpoint /\ visits'[k] = {}
        /\ \A k \in Jobs \ S :
              path'[k] = path[k] /\ checkpoint'[k] = checkpoint[k] /\ visits'[k] = visits[k]
    BY ZenonT(60), <1>1, Forgetting
  <2>2. S \in {{}, {j}}
    BY <1>5
  <2>3. QED
    BY <2>1, <2>2
<1>8. TypeOK' /\ Labelled' /\ usage \subseteq usage'
  <2>1. job' \in [Jobs -> Row] /\ future' \subseteq Jobs /\ controls' \in 0..MaxControls
    BY <1>1, <1>5, <1>6, Bounds DEF TypeOK
  <2>2. QED
    BY <1>1, <1>7, <2>1 DEF TypeOK, Labelled, IInv, connection, written
<1>9. Budgeted(j)'
  BY <1>5, <1>6 DEF Budgeted, StaleCancelled, Live
<1>10. Chained(j)'
  <2> HIDE DEF S
  <2>1. CASE S = {j}
    BY <1>5, <1>6, <1>7, <2>1, ChainForgotten
  <2>2. CASE S = {}
    BY ZenonT(60), <1>1, <1>5, <1>6, <1>7, <1>8, <2>2, ChainKept
  <2>3. QED
    BY <1>5, <2>1, <2>2
<1>11. r \in Row /\ r.status # "running"
  BY <1>5
<1>12. QED
  BY ZenonT(60), <1>1, <1>6, <1>7, <1>8, <1>9, <1>10, <1>11, OneJob

LEMMA ConnectKeeps == ASSUME IInv, Connect PROVE IInv'
<1>1. BindingNext /\ UNCHANGED <<rows, written, task, controls>> /\ TypeOK /\ account = generation
  BY DEF Connect, IInv, Accounts
<1>2. /\ status' \in Statuses /\ secret' \in 0..MaxSecret /\ generation' \in 1..MaxGeneration
      /\ account' = generation'
      /\ secret \in Nat /\ secret' \in Nat /\ secret <= secret' /\ (secret' = secret => account' = account)
  BY <1>1, Bounds DEF BindingNext, BeginRefresh, FinishRefresh, Deactivate, Rebind, Statuses, TypeOK
<1>3. TypeOK' /\ Accounts' /\ Labelled'
  BY <1>1, <1>2 DEF TypeOK, Accounts, Labelled, IInv, rows, written
<1>4. \A j \in Jobs : Budgeted(j)' /\ Chained(j)'
  BY ZenonT(60), <1>1 DEF IInv, Budgeted, Chained, StaleCancelled, rows, written
<1>5. ASSUME NEW w \in Workers PROVE Informed(w)'
  <2>1. Informed(w) /\ task' = task /\ job' = job /\ task[w].secret \in Nat
    BY <1>1, Bounds DEF IInv, rows, TypeOK, Task
  <2>2. QED
    BY <1>2, <2>1 DEF Informed, Held
<1>6. QED
  BY <1>3, <1>4, <1>5 DEF IInv

----------------------------------------------------------------------------

LEMMA NextInvariant == IInv /\ [Next]_vars => IInv'
<1> SUFFICES ASSUME IInv, [Next]_vars PROVE IInv'
  OBVIOUS
<1>1. ASSUME NEW j \in Jobs, Enqueue(j) \/ Elapse(j) PROVE IInv'
  BY <1>1, EnqueueKeeps, ElapseKeeps
<1>2. ASSUME NEW j \in Jobs, NEW action \in Actions, Control(j, action) PROVE IInv'
  BY <1>2, ControlKeeps
<1>3. ASSUME NEW w \in Workers, ClaimWithPolicy(w) \/ Step(w) \/ Stop(w) PROVE IInv'
  BY <1>3, ClaimKeeps, ReadCursorKeeps, ResolveKeeps, SendKeeps, LeavingKeeps, CommitPageKeeps,
     FailWithErrorKeeps, CancelStaleKeeps DEF Step
<1>4. CASE Connect
  BY <1>4, ConnectKeeps
<1>5. CASE UNCHANGED vars
  <2> USE <1>5 DEF vars, rows, written, connection, IInv
  <2>1. TypeOK' /\ Accounts' /\ Labelled'
    BY DEF TypeOK, Accounts, Labelled
  <2>2. \A j \in Jobs : Budgeted(j)' /\ Chained(j)'
    BY ZenonT(60) DEF Budgeted, Chained, StaleCancelled
  <2>3. \A w \in Workers : Informed(w)'
    BY ZenonT(60) DEF Informed, Held
  <2>4. QED
    BY <2>1, <2>2, <2>3
<1>6. QED
  BY <1>1, <1>2, <1>3, <1>4, <1>5 DEF Next

(* The inductive invariant of the jobs, their pages and the workers'       *)
(* tasks, whatever transactions of repository.rs interleave.               *)
THEOREM Invariant == Spec => []IInv
  BY InitInvariant, NextInvariant, PTL DEF Spec

(* The rows of sync_jobs and the workers' tasks keep their types; a job's  *)
(* attempts never exceed max_attempts.                                     *)
THEOREM TypeCorrect == Spec => []TypeOK
<1>1. IInv => TypeOK
  BY DEF IInv
<1>2. QED
  BY <1>1, Invariant, PTL

(* The pages that a job has committed follow one another from the first    *)
(* without gap or repetition and are charged, and the job has succeeded    *)
(* exactly if they are complete: commit_page_checked compares the          *)
(* checkpoint's cursor and the visited ones.                               *)
THEOREM PagesAreAChain == Spec => []PagesFormChain
<1>1. IInv => PagesFormChain
  <2> SUFFICES ASSUME IInv, NEW j \in Jobs
               PROVE  /\ Linked(path[j]) /\ Charged(j, path[j], usage)
                      /\ job[j].status = "succeeded" <=> Complete(path[j])
    BY ZenonT(60) DEF PagesFormChain, Linked, Charged, Complete
  <2>1. QED
    BY ZenonT(60) DEF IInv, Chained
<1>2. QED
  BY <1>1, Invariant, PTL

(* Stored messages and committed pages come from the account of their      *)
(* generation, although commit_page_checked compares only the connection's *)
(* secret and generation with those of the fetch.                          *)
THEOREM MessagesAreOfTheirAccount == Spec => []MessagesBelong
<1>1. IInv => MessagesBelong
  BY ZenonT(60) DEF IInv, MessagesBelong, Labelled, Chained, Fetched
<1>2. QED
  BY <1>1, Invariant, PTL

(* A job that succeeded or was cancelled by an operator is never changed,  *)
(* and one that failed or went stale is restarted by control only.         *)
THEOREM EndedJobsAreFinal == Spec => EndedIsFinal
<1> DEFINE Ends(j) ==
        /\ Succeeded(j) \/ OperatorCancelled(j)
             => <<job[j], checkpoint[j], path[j]>>' = <<job[j], checkpoint[j], path[j]>>
        /\ job[j].status \in {"failed", "cancelled"} /\ job'[j] # job[j] => controls' = controls + 1
<1>1. ASSUME TypeOK, [Next]_vars, NEW j \in Jobs PROVE Ends(j)
  <2>1. ASSUME NEW k \in Jobs, Enqueue(k) \/ Elapse(k) PROVE Ends(j)
    BY <1>1, <2>1 DEF Enqueue, Elapse, TypeOK, Succeeded, OperatorCancelled
  <2>2. ASSUME NEW k \in Jobs, NEW action \in Actions, Control(k, action) PROVE Ends(j)
    <3>1. Allowed(k, action) /\ controls' = controls + 1 /\ (j # k => job'[j] = job[j])
      BY <1>1, <2>2 DEF Control, TypeOK
    <3>2. j = k => ~Succeeded(j) /\ ~OperatorCancelled(j)
      BY ZenonT(60), <3>1 DEF Allowed, Actions, Restartable, StaleCancelled, Succeeded, OperatorCancelled, Live
    <3>3. j # k => checkpoint'[j] = checkpoint[j] /\ path'[j] = path[j]
      <4> DEFINE S == IF action # "Cancel" /\ job[k].generation # generation THEN {k} ELSE {}
      <4>1. Forget(S) /\ (j # k => j \notin S)
        BY <2>2 DEF Control
      <4> HIDE DEF S
      <4>2. QED
        BY <1>1, <4>1, Forgetting
    <3>4. QED
      BY ZenonT(60), <3>1, <3>2, <3>3
  <2>3. ASSUME job[j].status \notin Live, NEW w \in Workers, ClaimWithPolicy(w)
        PROVE  job'[j] = job[j] /\ checkpoint'[j] = checkpoint[j] /\ path'[j] = path[j]
    <3>1. j \notin Swept /\ j \notin Spent /\ ~Claimable(j)
      BY <2>3 DEF Swept, StaleJobs, Spent, Claimable, Lane
    <3>2. Forget(Swept) /\ job'[j] = job[j]
      BY <2>3, <3>1, SyncAssumption DEF ClaimWithPolicy
    <3>3. QED
      BY <1>1, <3>1, <3>2, Forgetting
  <2>4. ASSUME job[j].status \notin Live, NEW w \in Workers, Step(w) \/ Stop(w)
        PROVE  job'[j] = job[j] /\ checkpoint'[j] = checkpoint[j] /\ path'[j] = path[j]
    <3>1. CASE UNCHANGED rows
      BY <3>1 DEF rows
    <3>2. CASE CommitPage(w)
      <4>1. Locked(w)
        <5>1. Unlocked(w) # "ok"
          BY DEF Unlocked
        <5>2. QED
          BY ZenonT(60), <3>2, <5>1 DEF CommitPage, Verdict
      <4>2. j # task[w].job
        BY <2>4, <4>1 DEF Locked, Live
      <4>3. QED
        BY ZenonT(60), <1>1, <3>2, <4>2 DEF CommitPage, TypeOK
    <3>3. CASE FailWithError(w)
      <4>1. Locked(w) => j # task[w].job
        BY ZenonT(60), <2>4 DEF Locked, Live
      <4>2. QED
        BY <1>1, <3>3, <4>1 DEF FailWithError, TypeOK
    <3>4. CASE CancelStale(w) /\ ~UNCHANGED rows
      <4>1. j # task[w].job /\ Forget({task[w].job}) /\ job'[j] = job[j]
        BY <1>1, <2>4, <3>4 DEF CancelStale, TypeOK, Live
      <4>2. QED
        BY ZenonT(60), <4>1 DEF Forget
    <3>5. QED
      BY ZenonT(60), <2>4, <3>1, <3>2, <3>3, <3>4 DEF Step, ReadCursor, Resolve, Send, FetchFails, CommitFails, Stop
  <2>5. CASE Connect \/ UNCHANGED vars
    BY <2>5 DEF Connect, rows, vars
  <2>6. Succeeded(j) \/ OperatorCancelled(j) \/ job[j].status \in {"failed", "cancelled"}
          => job[j].status \notin Live
    BY DEF Succeeded, OperatorCancelled, Live
  <2>7. ASSUME NEW w \in Workers, ClaimWithPolicy(w) \/ Step(w) \/ Stop(w) PROVE Ends(j)
    BY ZenonT(60), <2>3, <2>4, <2>6, <2>7
  <2>8. QED
    BY ZenonT(60), <1>1, <2>1, <2>2, <2>5, <2>7 DEF Next
<1>2. TypeOK /\ [Next]_vars => [\A j \in Jobs : Ends(j)]_vars
  BY <1>1
<1>3. QED
  BY <1>2, TypeCorrect, PTL DEF Spec, EndedIsFinal

============================================================================
