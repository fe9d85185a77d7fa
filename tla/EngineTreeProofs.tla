-------------------------- MODULE EngineTreeProofs --------------------------
(***************************************************************************)
(* The tree of runs of module Engine, for both kinds of host: a run joins  *)
(* what it began, and no wakeup is lost.  The proofs rest on the inductive *)
(* invariant IInv and the step relations Good and Shape of EngineProofs.   *)
(***************************************************************************)
EXTENDS EngineProofs

----------------------------------------------------------------------------
(* Chains of successors.  latest_run is a recursive function of its number *)
(* of hops; what it computes is proved by taking a least counterexample.    *)

(* What the proofs take from the library of finite sets and of the order   *)
(* of the numbers.  It is proved before the theorems (LibraryFacts).       *)
Library ==
    /\ \A T : T \subseteq Nat /\ T # {} => \E m \in T : \A k \in T : m <= k
    /\ Cardinality({}) = 0

(* Every set of numbers that is not empty has a least element. *)
LEMMA LeastNat ==
  ASSUME Library, NEW T, T \subseteq Nat, T # {}
  PROVE  \E m \in T : \A k \in T : m <= k
  BY Zenon DEF Library

(* One hop, all hops, and what defines them. *)
Follow(rn, q) == IF rn[q].next = None THEN q ELSE rn[q].next

Hops(rn, c) ==
    LET hop[n \in 0..MaxHops] ==
          IF n = 0 THEN c
          ELSE IF rn[hop[n - 1]].next = None THEN hop[n - 1] ELSE rn[hop[n - 1]].next
    IN  hop

IsHops(rn, c, N, f) == f = [n \in 0..N |-> IF n = 0 THEN c ELSE Follow(rn, f[n - 1])]

LEMMA LatestIs == ASSUME NEW c PROVE latest_run(c) = Hops(run, c)[MaxHops]
  BY DEF latest_run, Hops

LEMMA LatestPrimedIs == ASSUME NEW c PROVE latest_run(c)' = Hops(run', c)[MaxHops]
  BY DEF latest_run, Hops

LEMMA HopsExist == ASSUME Library, NEW rn, NEW c, NEW N \in Nat PROVE \E f : IsHops(rn, c, N, f)
<1> DEFINE T == {n \in Nat : ~\E f : IsHops(rn, c, n, f)}
<1>1. ASSUME T # {} PROVE FALSE
  <2>1. PICK m \in T : \A k \in T : m <= k
    BY Zenon, <1>1, LeastNat
  <2>2. m \in Nat
    BY Zenon, <2>1
  <2>3. CASE m = 0
    <3> DEFINE g == [n \in 0..0 |-> c]
    <3>1. g = [n \in 0..0 |-> IF n = 0 THEN c ELSE Follow(rn, g[n - 1])]
      OBVIOUS
    <3>2. IsHops(rn, c, 0, g)
      BY Zenon, <3>1 DEF IsHops
    <3>3. QED
      BY Zenon, <2>1, <2>3, <3>2
  <2>4. CASE m # 0
    <3>1. m - 1 \in Nat /\ ~(m <= m - 1)
      BY <2>2, <2>4
    <3>2. PICK f : IsHops(rn, c, m - 1, f)
      BY Zenon, <2>1, <3>1
    <3> DEFINE g == [n \in 0..m |-> IF n = m THEN Follow(rn, f[m - 1]) ELSE f[n]]
    <3>3. \A n \in 0..(m - 1) : f[n] = IF n = 0 THEN c ELSE Follow(rn, f[n - 1])
      BY Zenon, <3>2 DEF IsHops
    <3>4. ASSUME NEW n \in 0..m
          PROVE  g[n] = IF n = 0 THEN c ELSE Follow(rn, g[n - 1])
      <4>1. CASE n = m
        <5>1. g[m] = Follow(rn, f[m - 1]) /\ m - 1 \in 0..m /\ m - 1 # m
          BY <2>2, <3>1, <4>1
        <5>2. g[m - 1] = f[m - 1]
          BY Zenon, <5>1
        <5>3. QED
          BY Zenon, <2>4, <4>1, <5>1, <5>2
      <4>2. CASE n # m
        <5>1. n \in 0..(m - 1)
          BY <2>2, <4>2
        <5>2. g[n] = f[n]
          BY Zenon, <4>2
        <5>3. n # 0 => n - 1 \in 0..m /\ n - 1 # m
          BY <2>2, <4>2, <5>1
        <5>4. n # 0 => g[n - 1] = f[n - 1]
          BY Zenon, <5>3
        <5>5. QED
          BY Zenon, <3>3, <5>1, <5>2, <5>4
      <4>3. QED
        BY Zenon, <4>1, <4>2
    <3>5. g = [n \in 0..m |-> g[n]]
      BY Zenon
    <3>6. [n \in 0..m |-> g[n]] = [n \in 0..m |-> IF n = 0 THEN c ELSE Follow(rn, g[n - 1])]
      BY Zenon, <3>4
    <3> HIDE DEF g
    <3>7. IsHops(rn, c, m, g)
      BY Zenon, <3>5, <3>6 DEF IsHops
    <3>8. QED
      BY Zenon, <2>1, <3>7
  <2>5. QED
    BY Zenon, <2>3, <2>4
<1>2. QED
  BY Zenon, <1>1

LEMMA HopsAre == ASSUME Library, NEW rn, NEW c PROVE IsHops(rn, c, MaxHops, Hops(rn, c))
<1>1. MaxHops \in Nat
  BY Zenon, ConstantsAssumption
<1>2. \E f : IsHops(rn, c, MaxHops, f)
  BY Zenon, <1>1, HopsExist
<1>3. Hops(rn, c) = CHOOSE f : IsHops(rn, c, MaxHops, f)
  BY DEF Hops, IsHops, Follow
<1>4. QED
  BY Zenon, <1>2, <1>3

(* Induction, for a property given as the set of the numbers that have it. *)
LEMMA Induction ==
  ASSUME Library, NEW T, NEW N \in Nat, 0 \in T, \A n \in 0..N : n # N /\ n \in T => n + 1 \in T
  PROVE  \A n \in 0..N : n \in T
<1> DEFINE U == {n \in Nat : n \in 0..N /\ n \notin T}
<1>1. ASSUME U # {} PROVE FALSE
  <2>1. PICK m \in U : \A k \in U : m <= k
    BY Zenon, <1>1, LeastNat
  <2>2. m \in 0..N /\ m \notin T
    BY Zenon, <2>1
  <2>3. m # 0
    BY Zenon, <2>2
  <2>4. m - 1 \in Nat /\ m - 1 \in 0..N /\ m - 1 # N /\ ~(m <= m - 1) /\ (m - 1) + 1 = m
    BY <2>2, <2>3
  <2>5. m - 1 \in T
    BY Zenon, <2>1, <2>4
  <2>6. QED
    BY Zenon, <2>2, <2>4, <2>5
<1>2. QED
  BY <1>1

LEMMA HopsIn ==
  ASSUME Library, NEW rn, NEW c, NEW S, c \in S, \A q \in S : Follow(rn, q) \in S
  PROVE  Hops(rn, c)[MaxHops] \in S
<1> DEFINE h == Hops(rn, c)
           T == {n \in 0..MaxHops : h[n] \in S}
<1>1. MaxHops \in Nat /\ 0 \in 0..MaxHops /\ MaxHops \in 0..MaxHops
  BY ConstantsAssumption
<1>a. IsHops(rn, c, MaxHops, h)
  BY Zenon, HopsAre
<1> HIDE DEF h
<1>2. h = [n \in 0..MaxHops |-> IF n = 0 THEN c ELSE Follow(rn, h[n - 1])]
  BY Zenon, <1>a DEF IsHops
<1>3. 0 \in T
  BY Zenon, <1>1, <1>2
<1>4. ASSUME NEW n \in 0..MaxHops, n # MaxHops, n \in T PROVE n + 1 \in T
  <2>1. n + 1 \in 0..MaxHops /\ n + 1 # 0 /\ (n + 1) - 1 = n
    BY <1>1, <1>4
  <2>2. h[n + 1] = Follow(rn, h[n])
    BY Zenon, <1>2, <2>1
  <2>3. QED
    BY Zenon, <1>4, <2>1, <2>2
<1>5. \A n \in 0..MaxHops : n \in T
  <2> HIDE DEF T
  <2>1. QED
    BY Zenon, <1>1, <1>3, <1>4, Induction
<1>6. QED
  BY Zenon, <1>1, <1>5 DEF h

(* rm has the links of rn, and perhaps links from last runs to new ones. *)
Extends(rn, rm, S) ==
    /\ \A q \in S : rn[q].next \in S \cup {None}
    /\ \A q \in S : rn[q].next # None => rm[q].next = rn[q].next
    /\ \A q \in S : rn[q].next = None /\ rm[q].next # None => rm[rm[q].next].next = None

Moved(rn, rm, S, x, y) ==
    x \in S /\ (y = x \/ (rn[x].next = None /\ rm[x].next # None /\ y = rm[x].next))

LEMMA HopsMove ==
  ASSUME Library, NEW rn, NEW rm, NEW S, NEW c \in S, None \notin S, Extends(rn, rm, S)
  PROVE  Moved(rn, rm, S, Hops(rn, c)[MaxHops], Hops(rm, c)[MaxHops])
<1> DEFINE h == Hops(rn, c)
           g == Hops(rm, c)
           Rel(x, y) == Moved(rn, rm, S, x, y)
           T == {n \in 0..MaxHops : Rel(h[n], g[n])}
<1>1. MaxHops \in Nat /\ 0 \in 0..MaxHops /\ MaxHops \in 0..MaxHops
  BY ConstantsAssumption
<1>a. IsHops(rn, c, MaxHops, h) /\ IsHops(rm, c, MaxHops, g)
  BY Zenon, HopsAre
<1> HIDE DEF h, g
<1>2. /\ h = [n \in 0..MaxHops |-> IF n = 0 THEN c ELSE Follow(rn, h[n - 1])]
      /\ g = [n \in 0..MaxHops |-> IF n = 0 THEN c ELSE Follow(rm, g[n - 1])]
  BY Zenon, <1>a DEF IsHops
<1>3. ASSUME NEW x, NEW y, Rel(x, y) PROVE Rel(Follow(rn, x), Follow(rm, y))
  BY Zenon, <1>3 DEF Follow, Extends, Moved
<1>4. 0 \in T
  BY Zenon, <1>1, <1>2 DEF Moved
<1>5. ASSUME NEW n \in 0..MaxHops, n # MaxHops, n \in T PROVE n + 1 \in T
  <2>1. n + 1 \in 0..MaxHops /\ n + 1 # 0 /\ (n + 1) - 1 = n
    BY <1>1, <1>5
  <2>2. h[n + 1] = Follow(rn, h[n]) /\ g[n + 1] = Follow(rm, g[n])
    BY Zenon, <1>2, <2>1
  <2>3. Rel(h[n], g[n])
    BY Zenon, <1>5
  <2> HIDE DEF Rel
  <2>4. Rel(Follow(rn, h[n]), Follow(rm, g[n]))
    BY Zenon, <1>3, <2>3
  <2>5. QED
    BY Zenon, <2>1, <2>2, <2>4
<1>6. \A n \in 0..MaxHops : n \in T
  <2> HIDE DEF T
  <2>1. QED
    BY Zenon, <1>1, <1>4, <1>5, Induction
<1>7. Rel(h[MaxHops], g[MaxHops])
  <2> HIDE DEF Rel
  <2>1. QED
    BY Zenon, <1>1, <1>6
<1>8. QED
  BY Zenon, <1>7 DEF h, g

----------------------------------------------------------------------------
(* What a commit does to the run that is looked at.                        *)

(* Records that differ at most in what a wakeup changes. *)
UpToWakeup(rec, old) ==
    /\ SameLinks(rec, old)
    /\ rec.state = old.state /\ rec.pc = old.pc /\ rec.issued = old.issued
    /\ rec.sent = old.sent /\ rec.taken = old.taken

(* A commit writes the given records; a run that it leaves unscheduled was *)
(* not woken, and no child of it has ended.                                *)
LEMMA CommitTo ==
  ASSUME RunsOK, NEW writes, DOMAIN writes \subseteq Runs, \A q \in DOMAIN writes : writes[q] \in Record,
         NEW woken, Commit(writes, woken), NEW q \in Runs
  PROVE  LET rec == IF q \in DOMAIN writes THEN writes[q] ELSE run[q]
         IN  /\ UpToWakeup(run'[q], rec)
             /\ woken = {} => run'[q] = rec
             /\ column'[q] = None =>
                  /\ ~(q \in woken /\ rec.state = "Running")
                  /\ q \in DOMAIN writes => rec.wakeup = None
                  /\ q \notin DOMAIN writes => column[q] = None
                  /\ rec.state = "Running" =>
                       \A w \in DOMAIN writes : writes[w].state \in Ended => writes[w].parent # q
<1> DEFINE new  == [p \in Runs |-> IF p \in DOMAIN writes THEN writes[p] ELSE run[p]]
           wake == {p \in woken : new[p].state = "Running"}
           due  == {new[p].parent : p \in {w \in DOMAIN writes : writes[w].state \in Ended}}
           rec  == IF q \in DOMAIN writes THEN writes[q] ELSE run[q]
<1>1. new[q] = rec /\ rec \in Record
  BY Zenon DEF RunsOK
<1>2. run'[q] = IF q \in wake THEN [new[q] EXCEPT !.wakeup = "now"] ELSE new[q]
  BY Zenon DEF Commit
<1>3. column'[q] = IF q \in wake \/ (q \in due /\ Scheduled(new[q])) THEN "now"
                   ELSE IF q \in DOMAIN writes THEN writes[q].wakeup ELSE column[q]
  BY Zenon DEF Commit
<1>4. q \in wake <=> q \in woken /\ rec.state = "Running"
  BY Zenon, <1>1
<1>5. \A w \in DOMAIN writes : writes[w].state \in Ended /\ writes[w].parent = q => q \in due
  BY Zenon
<1>6. None # "now"
  BY Zenon, ProgramAssumption
<1>7. q \in DOMAIN writes => rec = writes[q]
  BY Zenon
<1>8. q \notin DOMAIN writes => rec = run[q]
  BY Zenon
<1>9. UpToWakeup([rec EXCEPT !.wakeup = "now"], rec)
  <2> HIDE DEF rec
  <2>1. QED
    BY ZenonT(60), <1>1 DEF UpToWakeup, SameLinks, Record
<1>10. UpToWakeup(rec, rec)
  BY Zenon DEF UpToWakeup, SameLinks
<1> HIDE DEF new, wake, due, rec
<1>11. UpToWakeup(run'[q], rec) /\ (woken = {} => run'[q] = rec)
  BY Zenon, <1>1, <1>2, <1>4, <1>9, <1>10
<1>12. ASSUME column'[q] = None
       PROVE  /\ ~(q \in woken /\ rec.state = "Running")
              /\ q \in DOMAIN writes => rec.wakeup = None
              /\ q \notin DOMAIN writes => column[q] = None
              /\ rec.state = "Running" =>
                   \A w \in DOMAIN writes : writes[w].state \in Ended => writes[w].parent # q
  <2>1. q \notin wake
    BY Zenon, <1>3, <1>6, <1>12
  <2>2. ~(q \in due /\ Scheduled(new[q]))
    BY Zenon, <1>3, <1>6, <1>12, <2>1
  <2>3. rec.state = "Running" => q \notin due
    BY Zenon, <1>1, <2>2 DEF Scheduled
  <2>4. q \in DOMAIN writes => rec.wakeup = None
    BY Zenon, <1>3, <1>7, <1>12, <2>1, <2>2
  <2>5. q \notin DOMAIN writes => column[q] = None
    BY Zenon, <1>3, <1>12, <2>1, <2>2
  <2>6. QED
    BY Zenon, <1>4, <1>5, <2>1, <2>3, <2>4, <2>5
<1>13. QED
  BY Zenon, <1>11, <1>12 DEF rec

(* ... of one record. *)
LEMMA SaveTo ==
  ASSUME IInv, NEW r \in Runs, NEW rec \in Record, NEW woken, Commit(Write(r, rec), woken)
  PROVE  /\ UpToWakeup(run'[r], rec) /\ \A q \in Runs \ {r} : UpToWakeup(run'[q], run[q])
         /\ column'[r] = None => rec.wakeup = None
         /\ woken = {} => run'[r] = rec /\ \A q \in Runs \ {r} : run'[q] = run[q]
<1> DEFINE writes == Write(r, rec)
<1>1. DOMAIN writes = {r} /\ writes[r] = rec
  BY Zenon DEF Write
<1> HIDE DEF writes
<1>2. Commit(writes, woken) /\ DOMAIN writes \subseteq Runs /\ \A q \in DOMAIN writes : writes[q] \in Record
  BY Zenon, <1>1 DEF writes
<1>3. \A q \in Runs : /\ UpToWakeup(run'[q], IF q \in DOMAIN writes THEN writes[q] ELSE run[q])
                      /\ woken = {} => run'[q] = IF q \in DOMAIN writes THEN writes[q] ELSE run[q]
  BY Zenon, <1>2, CommitTo, IInvParts
<1>4. column'[r] = None => rec.wakeup = None
  BY Zenon, <1>1, <1>2, CommitTo, IInvParts
<1>5. QED
  BY Zenon, <1>1, <1>3, <1>4

----------------------------------------------------------------------------
(* The tree of runs.  A run that does not exist has no place in it; the    *)
(* children of a run and their successors name it as their parent; only a  *)
(* run that has continued has a successor; and the last run of every chain *)
(* of successors is the one latest_run finds, unless the chain is too long. *)
Blank(rec) == rec.parent = None /\ rec.next = None /\ rec.children = <<>>

Kids(rec) == {rec.children[i] : i \in DOMAIN rec.children}

Placed(p) ==
    /\ run[p].state = "Absent" => Blank(run[p])
    /\ \A c \in Kids(run[p]) : run[c].parent = p /\ run[c].state # "Absent"
    /\ run[p].next # None =>
         /\ run[run[p].next].parent = run[p].parent
         /\ run[run[p].next].state # "Absent"
         /\ run[p].state \in Heirs
    /\ run[p].parent # None => run[p].parent # p /\ run[run[p].parent].state # "Absent"

Tip(q) ==
    run[q].parent # None /\ run[q].next = None =>
      \E c \in Kids(run[run[q].parent]) : latest_run(c) = q \/ TooManyHops(c)

TreeInv == (\A p \in Runs : Placed(p) /\ Tip(p)) /\ CompletedJoined

(* No run exists in the beginning. *)
LEMMA InitTree == ASSUME Init PROVE TreeInv
<1>1. \A p \in Runs : run[p].state = "Absent" /\ run[p].parent = None /\ run[p].next = None /\ run[p].children = <<>>
  BY Zenon DEF Init, new_run
<1>2. \A p \in Runs : Kids(run[p]) = {}
  BY <1>1 DEF Kids
<1>3. QED
  BY Zenon, <1>1, <1>2 DEF TreeInv, Placed, Tip, Blank, CompletedJoined

(* latest_run across a step that may give runs without a successor one.    *)
LEMMA LatestStep ==
  ASSUME Library, IInv, NEW c \in Runs,
         \A q \in Runs : run[q].next # None => run'[q].next = run[q].next,
         \A q \in Runs : run[q].next = None /\ run'[q].next # None => run'[run'[q].next].next = None
  PROVE  LET x == latest_run(c)
             y == latest_run(c)'
         IN  /\ x \in Runs
             /\ y = x \/ (run[x].next = None /\ run'[x].next # None /\ y = run'[x].next)
<1>1. \A q \in Runs : run[q].next \in Runs \cup {None}
  BY ZenonT(60), RunTyped DEF Record
<1>2. None \notin Runs
  BY Zenon, ProgramAssumption
<1>3. latest_run(c) = Hops(run, c)[MaxHops] /\ latest_run(c)' = Hops(run', c)[MaxHops]
  BY Zenon, LatestIs, LatestPrimedIs
<1>4. Extends(run, run', Runs)
  BY Zenon, <1>1 DEF Extends
<1>5. Moved(run, run', Runs, Hops(run, c)[MaxHops], Hops(run', c)[MaxHops])
  BY Zenon, <1>2, <1>4, HopsMove
<1>6. QED
  BY Zenon, <1>3, <1>5 DEF Moved

LEMMA LatestStill ==
  ASSUME Library, IInv, NEW c \in Runs, \A q \in Runs : run'[q].next = run[q].next
  PROVE  /\ latest_run(c) \in Runs /\ latest_run(c)' = latest_run(c)
         /\ TooManyHops(c)' <=> TooManyHops(c)
<1>1. latest_run(c) \in Runs /\ latest_run(c)' = latest_run(c)
  BY Zenon, LatestStep
<1>2. TooManyHops(c)' <=> run'[latest_run(c)'].next # None
  BY Zenon DEF TooManyHops
<1>3. QED
  BY Zenon, <1>1, <1>2 DEF TooManyHops

LEMMA KidsRuns == ASSUME IInv, NEW p \in Runs PROVE Kids(run[p]) \subseteq Runs
<1>1. run[p].children \in Seq(Runs)
  BY ZenonT(60), RunTyped DEF Record
<1>2. QED
  BY <1>1 DEF Kids

(* A run that has joined its children leaves none unfinished: the last run *)
(* of each child has completed.                                            *)
LEMMA JoinedKids ==
  ASSUME IInv, TreeInv, NEW p \in Runs,
         run[p].state \in {"Completed", "ContinuedAsNew"} \/ (AllDone(p) /\ JoinChildren(p) = "joined")
  PROVE  /\ \A e \in TasksOf(p) : task[e].state \in {"Absent", "Done"}
         /\ \A q \in Runs : run[q].parent = p => run[q].state = "Completed" \/ run[q].next # None
<1>1. CASE run[p].state \in {"Completed", "ContinuedAsNew"}
  BY Zenon, <1>1 DEF TreeInv, CompletedJoined
<1>2. CASE AllDone(p) /\ JoinChildren(p) = "joined"
  <2> DEFINE kids == run[p].children
             open_ == {i \in DOMAIN kids : TooManyHops(kids[i]) \/ run[latest_run(kids[i])].state # "Completed"}
  <2>1. open_ = {}
    BY Zenon, <1>2 DEF JoinChildren
  <2>2. \A c \in Kids(run[p]) : ~TooManyHops(c) /\ run[latest_run(c)].state = "Completed"
    BY Zenon, <2>1 DEF Kids
  <2>3. ASSUME NEW q \in Runs, run[q].parent = p, run[q].next = None PROVE run[q].state = "Completed"
    <3>1. p # None
      BY Zenon, ProgramAssumption
    <3>2. QED
      BY Zenon, <2>2, <2>3, <3>1 DEF TreeInv, Tip
  <2>4. QED
    BY Zenon, <1>2, <2>3 DEF AllDone
<1>3. QED
  BY Zenon, <1>1, <1>2

(* How the states of the runs move. *)
StateStep ==
    \A q \in Runs :
      /\ run[q].state # "Absent" => run'[q].state # "Absent"
      /\ run[q].state \in Heirs => run'[q].state \in Heirs
      /\ run[q].state = "Completed" => run'[q].state = "Completed"
      /\ run'[q].state \in {"Completed", "ContinuedAsNew"} =>
           /\ \/ run[q].state \in {"Completed", "ContinuedAsNew"}
              \/ AllDone(q) /\ JoinChildren(q) = "joined"
           /\ \A e \in TasksOf(q) : task'[e] = task[e]

(* A run r is written as rec, and s is new, of the given parent. *)
Formed(r, s, parent, rec) ==
    /\ run'[r] = rec
    /\ run'[s].state = "Running" /\ run'[s].parent = parent /\ run'[s].next = None
    /\ run'[s].children = <<>> /\ Kids(run'[s]) = {}
    /\ \A q \in Runs \ {r, s} : run'[q] = run[q]

(* Two runs are written, one of them new. *)
LEMMA Creates ==
  ASSUME IInv, NEW r \in Runs, NEW s \in Runs, NEW parent \in Runs \cup {None}, NEW rec \in Record, NEW writes,
         DOMAIN writes = {r, s}, writes[r] = rec, writes[s] = new_run(parent), Commit(writes, {}), r # s
  PROVE  Formed(r, s, parent, rec)
<1>1. new_run(parent) \in Record
  BY Zenon, NewRecord
<1>2. DOMAIN writes \subseteq Runs /\ \A q \in DOMAIN writes : writes[q] \in Record
  BY Zenon, <1>1
<1>3. \A q \in Runs : run'[q] = IF q \in DOMAIN writes THEN writes[q] ELSE run[q]
  BY Zenon, <1>2, CommitTo, IInvParts
<1>4. run'[r] = rec /\ run'[s] = new_run(parent) /\ \A q \in Runs \ {r, s} : run'[q] = run[q]
  BY Zenon, <1>3
<1>5. run'[s].state = "Running" /\ run'[s].parent = parent /\ run'[s].next = None /\ run'[s].children = <<>>
  <2>1. LET new == new_run(parent)
        IN  new.state = "Running" /\ new.parent = parent /\ new.next = None /\ new.children = <<>>
    BY DEF new_run
  <2>2. QED
    BY Zenon, <1>4, <2>1
<1>6. Kids(run'[s]) = {}
  BY <1>5 DEF Kids
<1>7. QED
  BY Zenon, <1>4, <1>5, <1>6 DEF Formed

(* Whatever the shape of a step, it keeps the tree of runs. *)
LEMMA StepTree == ASSUME Library, IInv, TreeInv, Shape PROVE TreeInv'
(* What a run that ends joined has joined. *)
<1>Joins.
  ASSUME IInv, TreeInv, StateStep, NEW p \in Runs, run'[p].state \in {"Completed", "ContinuedAsNew"}
  PROVE  /\ \A e \in TasksOf(p) : task'[e].state \in {"Absent", "Done"}
         /\ \A q \in Runs : run[q].parent = p => run[q].state = "Completed" \/ run[q].next # None
  BY Zenon, <1>Joins, JoinedKids DEF StateStep
<1>Joined.
  ASSUME IInv, TreeInv, StateStep,
         \A q, p \in Runs : /\ run'[p].state \in {"Completed", "ContinuedAsNew"}
                            /\ run'[q].parent = p
                            => run[q].parent = p /\ (run[q].next # None => run'[q].next # None)
  PROVE  CompletedJoined'
  <2> USE <1>Joined
  <2>1. ASSUME NEW p \in Runs, run'[p].state \in {"Completed", "ContinuedAsNew"}
        PROVE  /\ \A e \in TasksOf(p) : task'[e].state \in {"Absent", "Done"}
               /\ \A q \in Runs : run'[q].parent = p => run'[q].state = "Completed" \/ run'[q].next # None
    BY Zenon, <2>1, <1>Joins DEF StateStep
  <2>2. QED
    BY Zenon, <2>1 DEF CompletedJoined, TasksOf
(* A step that leaves the links alone. *)
<1>Still.
  ASSUME IInv, TreeInv, StateStep, \A q \in Runs : SameLinks(run'[q], run[q])
  PROVE  TreeInv'
  <2> USE <1>Still
  <2>1. \A q \in Runs : /\ run'[q].parent = run[q].parent /\ run'[q].next = run[q].next
                        /\ run'[q].children = run[q].children
    BY Zenon DEF SameLinks
  <2>2. \A q \in Runs : Kids(run[q])' = Kids(run[q])
    BY Zenon, <2>1 DEF Kids
  <2>3. \A q \in Runs : run[q].parent \in Runs \cup {None} /\ run[q].next \in Runs \cup {None}
    BY ZenonT(60), RunTyped DEF Record
  <2>4. ASSUME NEW p \in Runs PROVE Placed(p)'
    <3>1. Placed(p) /\ Kids(run[p]) \subseteq Runs
      BY Zenon, KidsRuns DEF TreeInv
    <3>2. run'[p].state = "Absent" => Blank(run[p])'
      BY Zenon, <2>1, <3>1 DEF Placed, Blank, StateStep
    <3>3. ASSUME NEW c \in Kids(run[p])' PROVE run'[c].parent = p /\ run'[c].state # "Absent"
      <4>1. c \in Kids(run[p]) /\ c \in Runs
        BY Zenon, <2>2, <3>1
      <4>2. QED
        BY Zenon, <2>1, <3>1, <4>1 DEF Placed, StateStep
    <3>4. ASSUME run'[p].next # None
          PROVE  /\ run'[run'[p].next].parent = run'[p].parent
                 /\ run'[run'[p].next].state # "Absent"
                 /\ run'[p].state \in Heirs
      <4>1. PICK s \in Runs : s = run[p].next /\ s = run'[p].next
        BY Zenon, <2>1, <2>3, <3>4
      <4>2. run[s].parent = run[p].parent /\ run[s].state # "Absent" /\ run[p].state \in Heirs
        BY Zenon, <2>1, <3>1, <3>4, <4>1 DEF Placed
      <4>3. QED
        BY Zenon, <2>1, <4>1, <4>2 DEF StateStep
    <3>5. ASSUME run'[p].parent # None PROVE run'[p].parent # p /\ run'[run'[p].parent].state # "Absent"
      <4>1. PICK s \in Runs : s = run[p].parent /\ s = run'[p].parent
        BY Zenon, <2>1, <2>3, <3>5
      <4>2. s # p /\ run[s].state # "Absent"
        BY Zenon, <2>1, <3>1, <3>5, <4>1 DEF Placed
      <4>3. QED
        BY Zenon, <4>1, <4>2 DEF StateStep
    <3>6. QED
      BY Zenon, <3>2, <3>3, <3>4, <3>5 DEF Placed
  <2>5. ASSUME NEW q \in Runs PROVE Tip(q)'
    <3>1. Tip(q)
      BY Zenon DEF TreeInv
    <3>2. ASSUME run'[q].parent # None, run'[q].next = None
          PROVE  \E c \in Kids(run[run[q].parent])' : latest_run(c)' = q \/ TooManyHops(c)'
      <4>1. PICK p \in Runs : p = run[q].parent /\ p = run'[q].parent
        <5>1. run'[q].parent = run[q].parent /\ run[q].parent \in Runs \cup {None}
          BY Zenon, <2>1, <2>3
        <5>2. run[q].parent \in Runs
          BY Zenon, <3>2, <5>1
        <5>3. QED
          BY Zenon, <5>1, <5>2
      <4>2. PICK c \in Kids(run[p]) : latest_run(c) = q \/ TooManyHops(c)
        BY Zenon, <2>1, <3>1, <3>2, <4>1 DEF Tip
      <4>3. c \in Runs
        BY Zenon, <4>2, KidsRuns
      <4>4. latest_run(c)' = q \/ TooManyHops(c)'
        BY Zenon, <2>1, <4>2, <4>3, LatestStill
      <4>5. c \in Kids(run[run[q].parent])'
        <5>1. c \in Kids(run[p])'
          BY Zenon, <2>2, <4>2
        <5>2. QED
          BY Zenon, <4>1, <5>1 DEF Kids
      <4>6. QED
        BY Zenon, <4>4, <4>5
    <3>3. QED
      BY Zenon, <3>2 DEF Tip
  <2>6. CompletedJoined'
    BY Zenon, <2>1, <1>Joined
  <2>7. QED
    BY Zenon, <2>4, <2>5, <2>6 DEF TreeInv
<1>Attached. ASSUME IInv, TreeInv, NEW r \in Runs, NEW c \in Runs, NEW rec, Attaches(r, c, rec) PROVE TreeInv'
  <2> USE <1>Attached
  <2>1. /\ run[r].state \in Drivable /\ run[c].state = "Absent" /\ rec \in Record /\ rec.parent = run[r].parent
        /\ rec.next = run[r].next /\ rec.children = Append(run[r].children, c) /\ rec.state = "Running"
        /\ \A e \in Effects : e[1] # r => task'[e] = task[e]
    BY Zenon DEF Attaches
  <2>2. r # c
    BY Zenon, <2>1 DEF Drivable
  <2>3. /\ run'[r] = rec
        /\ run'[c].state = "Running" /\ run'[c].parent = r /\ run'[c].next = None
        /\ run'[c].children = <<>> /\ Kids(run[c])' = {}
        /\ \A q \in Runs \ {r, c} : run'[q] = run[q]
    <3> DEFINE writes == [q \in {r, c} |-> IF q = r THEN rec ELSE new_run(r)]
    <3>1. DOMAIN writes = {r, c} /\ writes[r] = rec /\ writes[c] = new_run(r)
      BY Zenon, <2>2
    <3>2. Commit(writes, {})
      BY Zenon DEF Attaches
    <3> HIDE DEF writes
    <3>3. r \in Runs \cup {None} /\ rec \in Record
      BY Zenon, <2>1
    <3>4. Formed(r, c, r, rec)
      BY Zenon, <2>2, <3>1, <3>2, <3>3, Creates
    <3>5. QED
      BY Zenon, <3>4 DEF Formed, Kids
  <2>4. /\ Placed(c) /\ Blank(run[c])
    BY Zenon, <2>1 DEF TreeInv, Placed
  <2>5. /\ \A q \in Runs : run'[q].next = run[q].next
        /\ \A q \in Runs \ {c} : run'[q].parent = run[q].parent
    BY Zenon, <2>1, <2>3, <2>4 DEF Blank
  <2>6. StateStep
    <3>1. ASSUME NEW q \in Runs \ {r, c}
          PROVE  run'[q].state = run[q].state /\ \A e \in TasksOf(q) : task'[e] = task[e]
      BY Zenon, <2>1, <2>3 DEF TasksOf
    <3>2. run[r].state \notin Heirs /\ run[r].state # "Completed" /\ run[c].state \notin Heirs
      BY Zenon, <2>1 DEF Drivable, Heirs, Fence
    <3>3. QED
      BY Zenon, <2>1, <2>3, <3>1, <3>2 DEF StateStep
  <2>7. /\ Kids(run[r])' = Kids(run[r]) \cup {c}
        /\ \A q \in Runs \ {r, c} : Kids(run[q])' = Kids(run[q])
        /\ \A q \in Runs : Kids(run[q]) \subseteq Runs \ {c}
    <3>1. run[r].children \in Seq(Runs)
      BY ZenonT(60), RunTyped DEF Record
    <3>2. run'[r].children = Append(run[r].children, c)
      BY Zenon, <2>1, <2>3
    <3>3. Kids(run[r])' = Kids(run[r]) \cup {c}
      <4> DEFINE kids == run[r].children
      <4>1. DOMAIN Append(kids, c) = (DOMAIN kids) \cup {Len(kids) + 1} /\ Len(kids) + 1 \notin DOMAIN kids
        BY <3>1
      <4>2. Append(kids, c)[Len(kids) + 1] = c /\ \A i \in DOMAIN kids : Append(kids, c)[i] = kids[i]
        BY <3>1
      <4> HIDE DEF kids
      <4>3. {Append(kids, c)[i] : i \in DOMAIN Append(kids, c)} = {kids[i] : i \in DOMAIN kids} \cup {c}
        BY <4>1, <4>2
      <4>4. QED
        BY Zenon, <3>2, <4>3 DEF Kids, kids
    <3>4. \A q \in Runs \ {r, c} : Kids(run[q])' = Kids(run[q])
      BY Zenon, <2>3 DEF Kids
    <3>5. \A q \in Runs : Kids(run[q]) \subseteq Runs \ {c}
      <4>1. ASSUME NEW q \in Runs, NEW d \in Kids(run[q]) PROVE d \in Runs /\ run[d].state # "Absent"
        BY Zenon, <4>1, KidsRuns DEF TreeInv, Placed
      <4>2. QED
        BY Zenon, <2>1, <4>1
    <3>6. QED
      BY Zenon, <3>3, <3>4, <3>5
  <2>8. ASSUME NEW p \in Runs PROVE Placed(p)'
    <3>1. Placed(p) /\ run[p].parent \in Runs \cup {None} /\ run[p].next \in Runs \cup {None}
      BY ZenonT(60), RunTyped DEF TreeInv, Record
    <3>2. CASE p = c
      BY Zenon, <2>1, <2>2, <2>3, <3>2 DEF Placed
    <3>3. CASE p # c
      <4>1. run'[p].state = "Absent" => Blank(run[p])'
        BY Zenon, <2>1, <2>3, <3>1, <3>3 DEF Placed, Blank
      <4>2. \A d \in Kids(run[p])' : run'[d].parent = p /\ run'[d].state # "Absent"
        <5>1. ASSUME NEW d \in Kids(run[p]) PROVE run'[d].parent = p /\ run'[d].state # "Absent"
          <6>1. d \in Runs \ {c} /\ run[d].parent = p /\ run[d].state # "Absent"
            BY Zenon, <2>7, <3>1 DEF Placed
          <6>2. QED
            BY Zenon, <2>5, <2>6, <6>1 DEF StateStep
        <5>2. run'[c].parent = r /\ run'[c].state # "Absent"
          BY Zenon, <2>3
        <5>3. Kids(run[p])' = Kids(run[p]) \/ (p = r /\ Kids(run[p])' = Kids(run[p]) \cup {c})
          BY Zenon, <2>7, <3>3
        <5>4. QED
          BY Zenon, <5>1, <5>2, <5>3
      <4>3. run'[p].next # None => /\ run'[run'[p].next].parent = run'[p].parent
                                   /\ run'[run'[p].next].state # "Absent"
                                   /\ run'[p].state \in Heirs
        <5>1. run'[p].next = run[p].next /\ run'[p].parent = run[p].parent
          BY Zenon, <2>5, <3>3
        <5>2. run[p].next # None => run[p].next \in Runs \ {c}
          BY Zenon, <2>1, <3>1 DEF Placed
        <5>3. QED
          BY Zenon, <2>5, <2>6, <3>1, <5>1, <5>2 DEF Placed, StateStep
      <4>4. run'[p].parent # None => run'[p].parent # p /\ run'[run'[p].parent].state # "Absent"
        BY Zenon, <2>5, <2>6, <3>1, <3>3 DEF Placed, StateStep
      <4>5. QED
        BY Zenon, <4>1, <4>2, <4>3, <4>4 DEF Placed
    <3>4. QED
      BY Zenon, <3>2, <3>3
  <2>9. ASSUME NEW q \in Runs PROVE Tip(q)'
    <3>1. CASE q = c
      <4>1. latest_run(c)' = c
        <5>1. \A x \in {c} : Follow(run', x) \in {c}
          BY Zenon, <2>3 DEF Follow
        <5>2. Hops(run', c)[MaxHops] \in {c}
          BY Zenon, <5>1, HopsIn
        <5>3. QED
          BY Zenon, <5>2, LatestPrimedIs
      <4>2. c \in Kids(run[r])'
        BY Zenon, <2>7
      <4>3. c \in Kids(run[run[c].parent])'
        BY Zenon, <2>3, <4>2 DEF Kids
      <4>4. QED
        BY Zenon, <3>1, <4>1, <4>3 DEF Tip
    <3>2. CASE q # c
      <4>1. ASSUME run'[q].parent # None, run'[q].next = None
            PROVE  \E d \in Kids(run[run[q].parent])' : latest_run(d)' = q \/ TooManyHops(d)'
        <5>1. run'[q].parent = run[q].parent /\ run[q].parent \in Runs \cup {None} /\ run[q].next = None
          BY ZenonT(60), <2>5, <3>2, <4>1, RunTyped DEF Record
        <5>2. PICK p \in Runs : p = run[q].parent /\ p = run'[q].parent
          BY Zenon, <4>1, <5>1
        <5>3. PICK d \in Kids(run[p]) : latest_run(d) = q \/ TooManyHops(d)
          BY Zenon, <4>1, <5>1, <5>2 DEF TreeInv, Tip
        <5>4. latest_run(d)' = q \/ TooManyHops(d)'
          BY Zenon, <2>5, <2>7, <5>3, LatestStill
        <5>5. p # c
          <6>1. Placed(q) /\ run[q].parent # None
            BY Zenon, <4>1, <5>1 DEF TreeInv
          <6>2. QED
            BY Zenon, <2>1, <5>2, <6>1 DEF Placed
        <5>6. d \in Kids(run[p])'
          BY Zenon, <2>7, <5>3, <5>5
        <5>7. d \in Kids(run[run[q].parent])'
          BY Zenon, <5>2, <5>6 DEF Kids
        <5>8. QED
          BY Zenon, <5>4, <5>7
      <4>2. QED
        BY Zenon, <4>1 DEF Tip
    <3>3. QED
      BY Zenon, <3>1, <3>2
  <2>10. CompletedJoined'
    BY Zenon, <2>1, <2>3, <2>5, <2>6, <1>Joined
  <2>11. QED
    BY Zenon, <2>8, <2>9, <2>10 DEF TreeInv
<1>Continued. ASSUME IInv, TreeInv, NEW r \in Runs, NEW s \in Runs, NEW rec, Continues(r, s, rec) PROVE TreeInv'
  <2> USE <1>Continued
  <2>1. /\ run[r].state \in Drivable /\ AllDone(r) /\ JoinChildren(r) = "joined" /\ run[s].state = "Absent"
        /\ rec \in Record /\ rec.parent = run[r].parent /\ rec.next = s
        /\ rec.children = run[r].children /\ rec.state = "ContinuedAsNew" /\ task' = task
    BY Zenon DEF Continues, Joined
  <2>2. r # s /\ run[r].parent \in Runs \cup {None} /\ None \notin Runs
    BY ZenonT(60), <2>1, RunTyped, ProgramAssumption DEF Drivable, Record
  <2>3. Formed(r, s, run[r].parent, rec)
    <3> DEFINE parent == run[r].parent
               writes == [q \in {r, s} |-> IF q = s THEN new_run(parent) ELSE rec]
    <3>1. DOMAIN writes = {r, s} /\ writes[r] = rec /\ writes[s] = new_run(parent)
      BY Zenon, <2>2
    <3>2. Commit(writes, {})
      BY Zenon DEF Continues
    <3>3. parent \in Runs \cup {None} /\ rec \in Record
      BY Zenon, <2>1, <2>2
    <3> HIDE DEF writes, parent
    <3>4. Formed(r, s, parent, rec)
      BY Zenon, <2>2, <3>1, <3>2, <3>3, Creates
    <3>5. QED
      BY Zenon, <3>4 DEF parent
  <2>4. /\ run'[r] = rec
        /\ run'[s].state = "Running" /\ run'[s].parent = run[r].parent /\ run'[s].next = None
        /\ Kids(run'[s]) = {}
        /\ \A q \in Runs \ {r, s} : run'[q] = run[q]
    BY Zenon, <2>3 DEF Formed
  <2>5. Placed(r) /\ run[r].next = None /\ Placed(s) /\ Blank(run[s])
    <3>1. run[r].state \notin Heirs
      BY Zenon, <2>1 DEF Drivable, Heirs, Fence
    <3>2. QED
      BY Zenon, <2>1, <3>1 DEF TreeInv, Placed
  <2>6. /\ \A q \in Runs \ {r} : run'[q].next = run[q].next
        /\ \A q \in Runs \ {s} : run'[q].parent = run[q].parent /\ run'[q].children = run[q].children
    BY Zenon, <2>1, <2>4, <2>5 DEF Blank
  <2>7. StateStep
    <3>1. ASSUME NEW q \in Runs \ {r, s} PROVE run'[q].state = run[q].state
      BY Zenon, <2>4
    <3>2. run[r].state \notin Heirs /\ run[r].state # "Completed" /\ run[s].state \notin Heirs
      BY Zenon, <2>1 DEF Drivable, Heirs, Fence
    <3>3. run'[r].state = "ContinuedAsNew"
      BY Zenon, <2>1, <2>4
    <3>4. QED
      BY Zenon, <2>1, <2>4, <3>1, <3>2, <3>3 DEF StateStep
  <2>8. \A q \in Runs \ {s} : /\ Kids(run'[q]) = Kids(run[q]) /\ Kids(run[q]) \subseteq Runs \ {s}
    <3>1. ASSUME NEW q \in Runs, NEW d \in Kids(run[q]) PROVE d \in Runs /\ run[d].state # "Absent"
      BY Zenon, <3>1, KidsRuns DEF TreeInv, Placed
    <3>2. \A q \in Runs \ {s} : Kids(run'[q]) = Kids(run[q])
      BY Zenon, <2>6 DEF Kids
    <3>3. QED
      BY Zenon, <2>1, <3>1, <3>2
  <2>9. run[r].parent # None => run[r].parent # s /\ run'[run[r].parent].state # "Absent"
    BY Zenon, <2>1, <2>2, <2>5, <2>7 DEF Placed, StateStep
  <2>10. ASSUME NEW p \in Runs PROVE Placed(p)'
    <3>1. Placed(p) /\ run[p].parent \in Runs \cup {None} /\ run[p].next \in Runs \cup {None}
      BY ZenonT(60), RunTyped DEF TreeInv, Record
    <3>2. CASE p = s
      <4>1. run'[p].parent # None => run'[p].parent # p /\ run'[run'[p].parent].state # "Absent"
        BY Zenon, <2>4, <2>9, <3>2
      <4>2. Kids(run[p])' = {} /\ run'[p].next = None /\ run'[p].state # "Absent"
        BY Zenon, <2>4, <3>2 DEF Kids
      <4>3. QED
        BY Zenon, <4>1, <4>2 DEF Placed
    <3>3. CASE p # s
      <4>1. run'[p].state = "Absent" => Blank(run[p])'
        BY Zenon, <2>1, <2>4, <3>1, <3>3 DEF Placed, Blank
      <4>2. \A d \in Kids(run[p])' : run'[d].parent = p /\ run'[d].state # "Absent"
        <5>1. ASSUME NEW d \in Kids(run[p]) PROVE run'[d].parent = p /\ run'[d].state # "Absent"
          <6>1. d \in Runs \ {s} /\ run[d].parent = p /\ run[d].state # "Absent"
            BY Zenon, <2>8, <3>1, <3>3 DEF Placed
          <6>2. QED
            BY Zenon, <2>6, <2>7, <6>1 DEF StateStep
        <5>2. Kids(run[p])' = Kids(run[p])
          BY Zenon, <2>8, <3>3 DEF Kids
        <5>3. QED
          BY Zenon, <5>1, <5>2
      <4>3. run'[p].next # None => /\ run'[run'[p].next].parent = run'[p].parent
                                   /\ run'[run'[p].next].state # "Absent"
                                   /\ run'[p].state \in Heirs
        <5>1. CASE p = r
          BY Zenon, <2>1, <2>4, <5>1 DEF Heirs
        <5>2. CASE p # r
          <6>1. run'[p] = run[p]
            BY Zenon, <2>4, <3>3, <5>2
          <6>2. run[p].next # None => run[p].next \in Runs \ {s}
            BY Zenon, <2>1, <3>1 DEF Placed
          <6>3. QED
            BY Zenon, <2>6, <2>7, <3>1, <6>1, <6>2 DEF Placed, StateStep
        <5>3. QED
          BY Zenon, <5>1, <5>2
      <4>4. run'[p].parent # None => run'[p].parent # p /\ run'[run'[p].parent].state # "Absent"
        BY Zenon, <2>6, <2>7, <3>1, <3>3 DEF Placed, StateStep
      <4>5. QED
        BY Zenon, <4>1, <4>2, <4>3, <4>4 DEF Placed
    <3>4. QED
      BY Zenon, <3>2, <3>3
  (* The chain that ended in r now ends in s. *)
  <2>11. ASSUME NEW q \in Runs, NEW t \in Runs, NEW p \in Runs, run[q].parent = p, run[q].next = None,
                t = (IF q = r THEN s ELSE q)
         PROVE  \E c \in Kids(run'[p]) : latest_run(c)' = t \/ TooManyHops(c)'
    <3>1. p # s
      <4>1. Placed(q) /\ run[q].parent # None
        BY Zenon, <2>2, <2>11 DEF TreeInv
      <4>2. QED
        BY Zenon, <2>1, <2>11, <4>1 DEF Placed
    <3>2. PICK c \in Kids(run[p]) : latest_run(c) = q \/ TooManyHops(c)
      BY Zenon, <2>2, <2>11 DEF TreeInv, Tip
    <3>3. c \in Runs /\ c \in Kids(run'[p])
      BY Zenon, <2>8, <3>1, <3>2
    <3> DEFINE x == latest_run(c)
               y == latest_run(c)'
    <3>4. /\ \A z \in Runs : run[z].next # None => run'[z].next = run[z].next
          /\ \A z \in Runs : run[z].next = None /\ run'[z].next # None => run'[run'[z].next].next = None
      BY Zenon, <2>1, <2>4, <2>5, <2>6
    <3>5. x \in Runs /\ (y = x \/ (run[x].next = None /\ run'[x].next # None /\ y = run'[x].next))
      BY Zenon, <3>3, <3>4, LatestStep
    <3>6. TooManyHops(c)' <=> run'[y].next # None
      BY Zenon DEF TooManyHops
    <3>7. TooManyHops(c) <=> run[x].next # None
      BY Zenon DEF TooManyHops
    <3>8. x = q \/ run[x].next # None
      BY Zenon, <3>2, <3>7
    <3> HIDE DEF x, y
    <3>9. y = t \/ run'[y].next # None
      <4>1. CASE x = r
        <5>1. x = q /\ t = s
          BY Zenon, <2>5, <2>11, <3>8, <4>1
        <5>2. y = r \/ y = s
          BY Zenon, <2>1, <2>4, <3>5, <4>1
        <5>3. run'[r].next # None
          BY Zenon, <2>1, <2>2, <2>4
        <5>4. QED
          BY Zenon, <5>1, <5>2, <5>3
      <4>2. CASE x # r
        <5>1. run'[x].next = run[x].next
          BY Zenon, <2>6, <3>5, <4>2
        <5>2. y = x
          BY Zenon, <3>5, <5>1
        <5>3. QED
          BY Zenon, <2>11, <3>8, <4>2, <5>1, <5>2
      <4>3. QED
        BY Zenon, <4>1, <4>2
    <3>10. latest_run(c)' = t \/ TooManyHops(c)'
      BY Zenon, <3>6, <3>9 DEF y
    <3>11. QED
      BY Zenon, <3>3, <3>10
  <2>12. ASSUME NEW t \in Runs PROVE Tip(t)'
    <3>1. ASSUME run'[t].parent # None, run'[t].next = None
          PROVE  \E c \in Kids(run[run[t].parent])' : latest_run(c)' = t \/ TooManyHops(c)'
      <4>1. t # r
        BY Zenon, <2>1, <2>2, <2>4, <3>1
      <4>2. PICK q \in Runs : t = (IF q = r THEN s ELSE q) /\ run[q].next = None /\ run[q].parent = run'[t].parent
        <5>1. CASE t = s
          BY Zenon, <2>4, <2>5, <5>1
        <5>2. CASE t # s
          BY Zenon, <2>4, <3>1, <4>1, <5>2
        <5>3. QED
          BY Zenon, <5>1, <5>2
      <4>3. PICK p \in Runs : p = run[q].parent /\ p = run'[t].parent
        BY ZenonT(60), <3>1, <4>2, RunTyped DEF Record
      <4>4. PICK c \in Kids(run'[p]) : latest_run(c)' = t \/ TooManyHops(c)'
        <5>1. run[q].parent = p /\ run[q].next = None /\ t = (IF q = r THEN s ELSE q)
          BY Zenon, <4>2, <4>3
        <5> HIDE <4>2, <4>3
        <5>2. QED
          BY Zenon, <5>1, <2>11
      <4>5. c \in Kids(run[run[t].parent])'
        BY Zenon, <4>3, <4>4 DEF Kids
      <4>6. QED
        BY Zenon, <4>4, <4>5
    <3>2. QED
      BY Zenon, <3>1 DEF Tip
  <2>13. CompletedJoined'
    <3>1. ASSUME NEW q \in Runs, NEW p \in Runs, run'[p].state \in {"Completed", "ContinuedAsNew"},
                 run'[q].parent = p
          PROVE  run[q].parent = p /\ (run[q].next # None => run'[q].next # None)
      <4>1. CASE q = s
        <5>1. run[r].parent = p
          BY Zenon, <2>4, <3>1, <4>1
        <5>2. run[r].state = "Completed" \/ run[r].next # None
          BY Zenon, <2>7, <3>1, <5>1, <1>Joins
        <5>3. QED
          BY Zenon, <2>1, <2>5, <5>2 DEF Drivable
      <4>2. CASE q # s
        <5>1. run[q].parent = p
          BY Zenon, <2>6, <3>1, <4>2
        <5>2. CASE q = r
          BY Zenon, <2>5, <5>1, <5>2
        <5>3. CASE q # r
          BY Zenon, <2>6, <5>1, <5>3
        <5>4. QED
          BY Zenon, <5>2, <5>3
      <4>3. QED
        BY Zenon, <4>1, <4>2
    <3>2. QED
      BY Zenon, <2>7, <3>1, <1>Joined
  <2>14. QED
    BY Zenon, <2>10, <2>12, <2>13 DEF TreeInv
(* The other steps leave the links alone. *)
<1>Quiet. ASSUME IInv, TreeInv, run' = run, task' = task PROVE TreeInv'
  <2> USE <1>Quiet
  <2>1. StateStep
    BY Zenon DEF StateStep
  <2>2. \A q \in Runs : SameLinks(run'[q], run[q])
    BY Zenon DEF SameLinks
  <2>3. QED
    BY Zenon, <2>1, <2>2, <1>Still
<1>Woken. ASSUME IInv, TreeInv, NEW woken, Commit(<<>>, woken), task' = task PROVE TreeInv'
  <2> USE <1>Woken
  <2> DEFINE writes == <<>>
  <2>1. DOMAIN writes = {}
    BY SMT
  <2> HIDE DEF writes
  <2>2. Commit(writes, woken) /\ DOMAIN writes \subseteq Runs /\ \A q \in DOMAIN writes : writes[q] \in Record
    BY Zenon, <2>1 DEF writes
  <2>3. \A q \in Runs : UpToWakeup(run'[q], run[q])
    BY Zenon, <2>1, <2>2, CommitTo, IInvParts
  <2>4. \A q \in Runs : SameLinks(run'[q], run[q]) /\ run'[q].state = run[q].state
    BY Zenon, <2>3 DEF UpToWakeup, SameLinks
  <2>5. StateStep
    BY Zenon, <2>4 DEF StateStep
  <2>6. QED
    BY Zenon, <2>4, <2>5, <1>Still
<1>Started. ASSUME IInv, TreeInv, NEW r \in Runs, start(r) PROVE TreeInv'
  <2> USE <1>Started
  <2>1. run[r].state = "Absent" /\ Commit(Write(r, new_run(None)), {}) /\ task' = task
    BY Zenon DEF start, Save, history
  <2>2. new_run(None) \in Record
    BY Zenon, NewRecord
  <2>3. UpToWakeup(run'[r], new_run(None)) /\ \A q \in Runs \ {r} : UpToWakeup(run'[q], run[q])
    BY Zenon, <2>1, <2>2, SaveTo
  <2>4. Blank(run[r]) /\ Blank(new_run(None)) /\ new_run(None).state = "Running"
    <3>1. Blank(new_run(None)) /\ new_run(None).state = "Running"
      BY DEF Blank, new_run
    <3>2. QED
      BY Zenon, <2>1, <3>1 DEF TreeInv, Placed
  <2>5. \A q \in Runs : SameLinks(run'[q], run[q])
    BY Zenon, <2>3, <2>4 DEF UpToWakeup, SameLinks, Blank
  <2>6. /\ run'[r].state = "Running" /\ run[r].state \notin Heirs
        /\ \A q \in Runs \ {r} : run'[q].state = run[q].state
    BY Zenon, <2>1, <2>3, <2>4 DEF UpToWakeup, Heirs, Fence
  <2>7. StateStep
    BY Zenon, <2>1, <2>6 DEF StateStep
  <2>8. QED
    BY Zenon, <2>5, <2>7, <1>Still
<1>Driven. ASSUME IInv, TreeInv, NEW r \in Runs, NEW rec, NEW woken, Local(r, rec, woken) PROVE TreeInv'
  <2> USE <1>Driven
  <2>1. /\ rec \in Record /\ SameLinks(rec, run[r])
        /\ run[r].state \notin {"Absent", "Completed"}
        /\ rec.state \notin {"Absent", "Completed", "ContinuedAsNew"}
        /\ run[r].state \in Heirs => rec.state \in Heirs
        /\ Commit(Write(r, rec), woken)
        /\ \A e \in Effects : e[1] # r => task'[e] = task[e]
    BY Zenon DEF Local, Moves, Heirs
  <2>2. UpToWakeup(run'[r], rec) /\ \A q \in Runs \ {r} : UpToWakeup(run'[q], run[q])
    BY Zenon, <2>1, SaveTo
  <2>3. run'[r].state = rec.state /\ \A q \in Runs \ {r} : run'[q].state = run[q].state
    BY Zenon, <2>2 DEF UpToWakeup
  <2>4. \A q \in Runs : SameLinks(run'[q], run[q])
    BY Zenon, <2>1, <2>2 DEF UpToWakeup, SameLinks
  <2>5. \A q \in Runs \ {r} : \A e \in TasksOf(q) : task'[e] = task[e]
    BY Zenon, <2>1 DEF TasksOf
  <2>6. StateStep
    BY Zenon, <2>1, <2>3, <2>5 DEF StateStep
  <2>7. QED
    BY Zenon, <2>4, <2>6, <1>Still
<1>Completed. ASSUME IInv, TreeInv, NEW r \in Runs, NEW rec, Completes(r, rec) PROVE TreeInv'
  <2> USE <1>Completed
  <2>1. /\ run[r].state \in Drivable /\ AllDone(r) /\ JoinChildren(r) = "joined" /\ rec \in Record
        /\ rec.state = "Completed" /\ SameLinks(rec, run[r]) /\ task' = task
        /\ Commit(Write(r, rec), {})
    BY Zenon DEF Completes, Joined, SameLinks, Save
  <2>2. UpToWakeup(run'[r], rec) /\ \A q \in Runs \ {r} : UpToWakeup(run'[q], run[q])
    BY Zenon, <2>1, SaveTo
  <2>3. run'[r].state = "Completed" /\ \A q \in Runs \ {r} : run'[q].state = run[q].state
    BY Zenon, <2>1, <2>2 DEF UpToWakeup
  <2>4. \A q \in Runs : SameLinks(run'[q], run[q])
    BY Zenon, <2>1, <2>2 DEF UpToWakeup, SameLinks
  <2>5. run[r].state \notin Heirs
    BY Zenon, <2>1 DEF Drivable, Heirs, Fence
  <2>6. StateStep
    BY Zenon, <2>1, <2>3, <2>5 DEF StateStep
  <2>7. QED
    BY Zenon, <2>4, <2>6, <1>Still
<1>1. ASSUME open \/ (NoSave /\ task' = task) PROVE TreeInv'
  BY Zenon, <1>1, <1>Quiet DEF open, NoSave
<1>2. ASSUME NEW woken, Commit(<<>>, woken), task' = task PROVE TreeInv'
  BY Zenon, <1>2, <1>Woken
<1>3. ASSUME NEW r \in Runs, start(r) \/ (\E rec : Completes(r, rec)) \/ (\E rec, woken : Local(r, rec, woken))
      PROVE  TreeInv'
  BY Zenon, <1>3, <1>Started, <1>Completed, <1>Driven
<1>4. ASSUME NEW r \in Runs, NEW s \in Runs, NEW rec, Attaches(r, s, rec) \/ Continues(r, s, rec) PROVE TreeInv'
  BY Zenon, <1>4, <1>Attached, <1>Continued
<1>5. QED
  BY Zenon, <1>1, <1>2, <1>3, <1>4 DEF Shape

----------------------------------------------------------------------------
(* Wakeups.                                                                *)

(* What a blocked command of run r waits for, apart from the time: it has   *)
(* not come.                                                               *)
Unended(c) == TooManyHops(c) \/ run[latest_run(c)].state \notin Ended

Awaits(r, s) ==
    /\ s.kind = "signal" => ~(run[r].taken < run[r].sent)
    /\ s.kind = "activity" => task[<<r, s.task>>].state # "Done"
    /\ s.kind = "child" => Unended(s.run)

Blocks(r) ==
    /\ Ongoing(r)
    /\ Cmd(r).op \in {"activity", "timer", "signal", "select"}
    /\ Cmd(r).op = "activity" => ~Cmd(r).detached /\ task[<<r, run[r].pc + 1>>].state # "Done"
    /\ Cmd(r).op = "signal" => ~(run[r].taken < run[r].sent)
    /\ Cmd(r).op = "select" => \A s \in Sources(r) : ~Unattached(r, s) /\ Awaits(r, s)

SourceKinds == {"timer", "signal", "activity", "child"}

(* The current command is among those of the assumption. *)
LEMMA CmdIs ==
  ASSUME IInv, NEW r \in Runs, Ongoing(r)
  PROVE  /\ Cmd(r).op \in {"activity", "timer", "signal", "child", "select", "continue"}
         /\ Cmd(r).op = "activity" => <<r, run[r].pc + 1>> \in TasksOf(r)
         /\ Cmd(r).op = "select" => /\ DOMAIN Cmd(r).sources \subseteq Nat
                                    /\ \A s \in Sources(r) : s.kind \in SourceKinds
<1> DEFINE i == run[r].pc + 1
<1>1. run[r].pc \in Nat
  BY ZenonT(60), RunTyped DEF Record
<1>2. i \in 1..Len(Program[r])
  BY <1>1, ProgramAssumption DEF Ongoing
<1>3. i \in DOMAIN Program[r] /\ Cmd(r) = Program[r][i]
  BY Zenon, <1>2, ProgramAssumption DEF Cmd
<1> HIDE DEF i
<1>4. /\ Program[r][i].op \in {"activity", "timer", "signal", "child", "select", "continue"}
      /\ Program[r][i].op = "select" =>
              /\ DOMAIN Program[r][i].sources \subseteq Nat
              /\ \A j \in DOMAIN Program[r][i].sources :
                   Program[r][i].sources[j].kind \in SourceKinds
  BY Zenon, <1>3, ProgramAssumption DEF SourceKinds
<1>5. Cmd(r).op = "activity" => <<r, i>> \in TasksOf(r)
  <2>1. ASSUME Cmd(r).op = "activity" PROVE <<r, i>> \in Effects
    BY <1>3, <2>1 DEF Effects
  <2>2. <<r, i>>[1] = r
    BY Zenon
  <2>3. QED
    BY Zenon, <2>1, <2>2 DEF TasksOf
<1>6. QED
  BY Zenon, <1>3, <1>4, <1>5 DEF Sources, i

(* Source by source. *)
LEMMA AnswerAwaits ==
  ASSUME NEW r \in Runs, NEW s, s.kind \in SourceKinds
  PROVE  /\ SourceAnswer(r, s) = "blocked" => Awaits(r, s)
         /\ Awaits(r, s) /\ ~loop.fired => SourceAnswer(r, s) \in {"blocked", "Limit"}
<1>1. CASE s.kind = "timer"
  BY Zenon, <1>1 DEF SourceAnswer, Awaits
<1>2. CASE s.kind = "signal"
  BY Zenon, <1>2 DEF SourceAnswer, Awaits
<1>3. CASE s.kind = "activity"
  BY Zenon, <1>3 DEF SourceAnswer, Awaits
<1>4. CASE s.kind = "child"
  <2> DEFINE state == run[latest_run(s.run)].state
  <2>1. SourceAnswer(r, s) =
          CASE TooManyHops(s.run) -> "Limit"
            [] ~TooManyHops(s.run) /\ state = "Completed" -> "value"
            [] ~TooManyHops(s.run) /\ state \in {"Failed", "Nondeterminism", "Cancelled"} -> state
            [] OTHER -> "blocked"
    BY Zenon, <1>4 DEF SourceAnswer
  <2> HIDE DEF state
  <2>2. CASE TooManyHops(s.run)
    BY Zenon, <1>4, <2>1, <2>2 DEF Awaits, Unended
  <2>3. CASE ~TooManyHops(s.run) /\ state = "Completed"
    <3>1. SourceAnswer(r, s) = "value"
      BY Zenon, <2>1, <2>3
    <3>2. QED
      BY Zenon, <1>4, <2>3, <3>1 DEF Awaits, Unended, Ended, state
  <2>4. CASE ~TooManyHops(s.run) /\ state \in {"Failed", "Nondeterminism", "Cancelled"}
    <3>1. SourceAnswer(r, s) = state
      BY Zenon, <2>1, <2>4
    <3>2. QED
      BY Zenon, <1>4, <2>4, <3>1 DEF Awaits, Unended, Ended, state
  <2>5. CASE ~TooManyHops(s.run) /\ state \notin {"Completed", "Failed", "Nondeterminism", "Cancelled"}
    <3>1. SourceAnswer(r, s) = "blocked"
      BY Zenon, <2>1, <2>5
    <3>2. QED
      BY Zenon, <1>4, <2>5, <3>1 DEF Awaits, Unended, Ended, state
  <2>6. QED
    BY Zenon, <2>2, <2>3, <2>4, <2>5
<1>5. QED
  BY Zenon, <1>1, <1>2, <1>3, <1>4 DEF SourceKinds

LEMMA DecisiveMin ==
  ASSUME Library, NEW r, DOMAIN Cmd(r).sources \subseteq Nat, Decisive(r) # {}
  PROVE  Min(Decisive(r)) \in DOMAIN Cmd(r).sources /\ SourceAnswer(r, Chosen(r)) # "blocked"
<1>1. Decisive(r) \subseteq Nat
  BY Zenon DEF Decisive
<1>2. Min(Decisive(r)) \in Decisive(r)
  BY Zenon, <1>1, LeastNat DEF Min
<1>3. QED
  BY Zenon, <1>2 DEF Decisive, Chosen

LEMMA SelectIs ==
  ASSUME NEW r, Cmd(r).op = "select"
  PROVE  /\ (\E s \in Sources(r) : Unattached(r, s)) => evaluate(r) = "Invalid"
         /\ ~(\E s \in Sources(r) : Unattached(r, s)) /\ Decisive(r) = {} => evaluate(r) = "blocked"
         /\ ~(\E s \in Sources(r) : Unattached(r, s)) /\ Decisive(r) # {} => evaluate(r) = SourceAnswer(r, Chosen(r))
<1> DEFINE some == \E s \in Sources(r) : Unattached(r, s)
<1>1. evaluate(r) = CASE some -> "Invalid"
                      [] ~some /\ Decisive(r) = {} -> "blocked"
                      [] OTHER -> SourceAnswer(r, Chosen(r))
  BY Zenon DEF evaluate
<1> HIDE DEF some
<1>2. /\ some => evaluate(r) = "Invalid"
      /\ ~some /\ Decisive(r) = {} => evaluate(r) = "blocked"
      /\ ~some /\ Decisive(r) # {} => evaluate(r) = SourceAnswer(r, Chosen(r))
  BY Zenon, <1>1
<1>3. QED
  BY Zenon, <1>2 DEF some

(* A command blocks because what it waits for has not come; and until it   *)
(* has, only the time can make it go on.                                   *)
LEMMA BlockedBlocks == ASSUME Library, IInv, NEW r \in Runs, Ongoing(r), evaluate(r) = "blocked" PROVE Blocks(r)
<1>0. Cmd(r).op \in {"activity", "timer", "signal", "child", "select", "continue"}
  BY Zenon, CmdIs
<1>1. CASE Cmd(r).op = "activity"
  BY Zenon, <1>1 DEF evaluate, Blocks
<1>2. CASE Cmd(r).op = "timer"
  BY Zenon, <1>2 DEF Blocks
<1>3. CASE Cmd(r).op = "signal"
  <2> DEFINE s == [kind |-> "signal"]
  <2>1. evaluate(r) = SourceAnswer(r, s)
    BY Zenon, <1>3 DEF evaluate
  <2>2. s.kind = "signal" /\ s.kind \in SourceKinds
    BY Zenon DEF SourceKinds
  <2> HIDE DEF s
  <2>3. Awaits(r, s)
    BY Zenon, <2>1, <2>2, AnswerAwaits
  <2>4. QED
    BY Zenon, <1>3, <2>2, <2>3 DEF Blocks, Awaits
<1>4. CASE Cmd(r).op = "child"
  BY Zenon, <1>4 DEF evaluate
<1>5. CASE Cmd(r).op = "select"
  <2>1. DOMAIN Cmd(r).sources \subseteq Nat /\ \A s \in Sources(r) : s.kind \in SourceKinds
    BY Zenon, <1>5, CmdIs
  <2>2. \A s \in Sources(r) : ~Unattached(r, s)
    BY Zenon, <1>5, SelectIs
  <2>3. Decisive(r) = {}
    BY Zenon, <1>5, <2>1, <2>2, SelectIs, DecisiveMin
  <2>4. \A s \in Sources(r) : SourceAnswer(r, s) = "blocked"
    BY Zenon, <1>5, <2>3 DEF Sources, Decisive
  <2>5. QED
    <3>1. ASSUME NEW s \in Sources(r) PROVE Awaits(r, s)
      <4>1. s.kind \in SourceKinds /\ SourceAnswer(r, s) = "blocked"
        BY Zenon, <2>1, <2>4
      <4> HIDE <2>1, <2>4
      <4>2. QED
        BY Zenon, <4>1, AnswerAwaits
    <3>2. QED
      BY Zenon, <1>5, <2>2, <3>1 DEF Blocks
<1>6. CASE Cmd(r).op = "continue"
  <2>1. JoinChildren(r) \in {"joined", "Limit", "Nondeterminism"}
    BY Zenon DEF JoinChildren
  <2>2. evaluate(r) = CASE ~AllDone(r) -> "Invalid"
                        [] AllDone(r) /\ JoinChildren(r) # "joined" -> JoinChildren(r)
                        [] OTHER -> IF Vacant(Cmd(r).run) THEN "ContinuedAsNew" ELSE "Invalid"
    BY Zenon, <1>6 DEF evaluate
  <2>3. QED
    BY Zenon, <2>1, <2>2
<1>7. QED
  BY Zenon, <1>0, <1>1, <1>2, <1>3, <1>4, <1>5, <1>6

LEMMA BlocksBlocked ==
  ASSUME Library, IInv, NEW r \in Runs, Blocks(r), loop.fired = FALSE PROVE evaluate(r) \in {"blocked", "Limit"}
<1>0. Ongoing(r) /\ Cmd(r).op \in {"activity", "timer", "signal", "select"}
  BY Zenon DEF Blocks
<1>1. CASE Cmd(r).op = "activity"
  BY Zenon, <1>1 DEF evaluate, Blocks
<1>2. CASE Cmd(r).op \in {"timer", "signal"}
  <2> DEFINE s == [kind |-> Cmd(r).op]
  <2>1. evaluate(r) = SourceAnswer(r, s)
    BY Zenon, <1>2 DEF evaluate
  <2>2. s.kind = Cmd(r).op /\ s.kind \in SourceKinds
    BY Zenon, <1>2 DEF SourceKinds
  <2> HIDE DEF s
  <2>3. Awaits(r, s)
    BY Zenon, <1>2, <2>2 DEF Awaits, Blocks
  <2>4. QED
    BY Zenon, <2>1, <2>2, <2>3, AnswerAwaits
<1>3. CASE Cmd(r).op = "select"
  <2>1. DOMAIN Cmd(r).sources \subseteq Nat /\ \A s \in Sources(r) : s.kind \in SourceKinds
    BY Zenon, <1>0, <1>3, CmdIs
  <2>2. \A s \in Sources(r) : ~Unattached(r, s) /\ Awaits(r, s)
    BY Zenon, <1>3 DEF Blocks
  <2>3. CASE Decisive(r) = {}
    BY Zenon, <1>3, <2>2, <2>3, SelectIs
  <2>4. CASE Decisive(r) # {}
    <3>1. evaluate(r) = SourceAnswer(r, Chosen(r))
      BY Zenon, <1>3, <2>2, <2>4, SelectIs
    <3>2. Chosen(r) \in Sources(r)
      BY Zenon, <1>3, <2>1, <2>4, DecisiveMin DEF Sources, Chosen
    <3>3. Chosen(r).kind \in SourceKinds /\ Awaits(r, Chosen(r))
      BY Zenon, <2>1, <2>2, <3>2
    <3>4. SourceAnswer(r, Chosen(r)) \in {"blocked", "Limit"}
      BY Zenon, <3>3, AnswerAwaits
    <3>5. QED
      BY Zenon, <3>1, <3>4
  <2>5. QED
    BY Zenon, <2>3, <2>4
<1>4. QED
  BY Zenon, <1>0, <1>1, <1>2, <1>3

(* The runs a chain of successors of a child goes through are all children. *)
LEMMA LatestChild ==
  ASSUME Library, IInv, TreeInv, NEW q \in Runs, NEW c \in Kids(run[q])
  PROVE  c \in Runs /\ latest_run(c) \in Runs /\ run[latest_run(c)].parent = q
<1> DEFINE S == {x \in Runs : run[x].parent = q}
<1>1. c \in S
  BY Zenon, KidsRuns DEF TreeInv, Placed
<1>2. ASSUME NEW x \in S PROVE Follow(run, x) \in S
  <2>1. x \in Runs /\ run[x].parent = q /\ Placed(x) /\ run[x].next \in Runs \cup {None}
    BY ZenonT(60), <1>2, RunTyped DEF TreeInv, Record
  <2>2. CASE run[x].next = None
    BY Zenon, <1>2, <2>2 DEF Follow
  <2>3. CASE run[x].next # None
    BY Zenon, <2>1, <2>3 DEF Follow, Placed
  <2>4. QED
    BY Zenon, <2>2, <2>3
<1> HIDE DEF S
<1>3. Hops(run, c)[MaxHops] \in S
  BY Zenon, <1>1, <1>2, HopsIn
<1>4. latest_run(c) \in S
  BY Zenon, <1>3, LatestIs
<1>5. QED
  BY Zenon, <1>1, <1>4 DEF S

(* No child of q, nor a run that continues one, ends. *)
Longer(q) ==
    /\ \A x \in Runs : run[x].next # None => run'[x].next = run[x].next
    /\ \A x \in Runs : run[x].next = None /\ run'[x].next # None =>
         run'[run'[x].next].next = None /\ run'[run'[x].next].state \notin Ended
    /\ \A x \in Runs : run[x].parent = q /\ run'[x].state \in Ended => run[x].state \in Ended

LEMMA UnendedStep ==
  ASSUME Library, IInv, TreeInv, NEW q \in Runs, NEW c \in Kids(run[q]), Longer(q), Unended(c) PROVE Unended(c)'
<1> DEFINE x == latest_run(c)
           y == latest_run(c)'
<1>1. c \in Runs /\ x \in Runs /\ run[x].parent = q
  BY Zenon, LatestChild
<1>2. y = x \/ (run[x].next = None /\ run'[x].next # None /\ y = run'[x].next)
  BY Zenon, <1>1, LatestStep DEF Longer
<1>3. run[x].next # None \/ run[x].state \notin Ended
  BY Zenon DEF Unended, TooManyHops
<1>4. Unended(c)' <=> run'[y].next # None \/ run'[y].state \notin Ended
  BY Zenon DEF Unended, TooManyHops
<1> HIDE DEF x, y
<1>5. run'[y].next # None \/ run'[y].state \notin Ended
  <2>1. CASE y = x
    BY Zenon, <1>1, <1>3, <2>1 DEF Longer
  <2>2. CASE run[x].next = None /\ run'[x].next # None /\ y = run'[x].next
    BY Zenon, <1>1, <2>2 DEF Longer
  <2>3. QED
    BY Zenon, <1>2, <2>1, <2>2
<1>6. QED
  BY Zenon, <1>4, <1>5

(* The record and the tasks of q as far as a blocked command goes. *)
SameWait(q) ==
    /\ run'[q].pc = run[q].pc /\ run'[q].sent = run[q].sent /\ run'[q].taken = run[q].taken
    /\ run'[q].children = run[q].children
    /\ \A e \in TasksOf(q) : /\ task'[e].state = "Done" => task[e].state = "Done"
                             /\ task'[e].state = "Absent" => task[e].state = "Absent"

LEMMA BlocksStep ==
  ASSUME Library, IInv, TreeInv, NEW q \in Runs, Longer(q), SameWait(q), Blocks(q) PROVE Blocks(q)'
<1>1. /\ Ongoing(q) /\ Cmd(q).op \in {"activity", "timer", "signal", "select"}
      /\ Cmd(q).op = "activity" => ~Cmd(q).detached /\ task[<<q, run[q].pc + 1>>].state # "Done"
      /\ Cmd(q).op = "signal" => ~(run[q].taken < run[q].sent)
      /\ Cmd(q).op = "select" => \A s \in Sources(q) : ~Unattached(q, s) /\ Awaits(q, s)
  BY Zenon DEF Blocks
<1>2. run'[q].pc = run[q].pc /\ run'[q].sent = run[q].sent /\ run'[q].taken = run[q].taken
  BY Zenon DEF SameWait
<1>3. (Ongoing(q)' <=> Ongoing(q)) /\ Cmd(q)' = Cmd(q)
  BY Zenon, <1>2 DEF Ongoing, Cmd
<1>4. Sources(q)' = Sources(q)
  BY Zenon, <1>3 DEF Sources
<1>5. Cmd(q).op = "activity" => task'[<<q, run'[q].pc + 1>>].state # "Done"
  BY Zenon, <1>1, <1>2, CmdIs DEF SameWait
<1>6. ASSUME NEW s \in Sources(q), Cmd(q).op = "select" PROVE ~Unattached(q, s)' /\ Awaits(q, s)'
  <2>1. ~Unattached(q, s) /\ Awaits(q, s)
    BY Zenon, <1>1, <1>6
  <2>2. s.kind = "activity" => <<q, s.task>> \in TasksOf(q) /\ task[<<q, s.task>>].state \notin {"Absent", "Done"}
    <3>1. <<q, s.task>>[1] = q
      BY Zenon
    <3>2. QED
      BY Zenon, <2>1, <3>1 DEF Unattached, Awaits, TasksOf
  <2>3. s.kind = "activity" => task'[<<q, s.task>>].state \notin {"Absent", "Done"}
    BY Zenon, <2>2 DEF SameWait
  <2>4. s.kind = "child" => s.run \in Kids(run[q])
    BY Zenon, <2>1 DEF Unattached, Kids
  <2>5. s.kind = "child" => Unended(s.run)'
    BY Zenon, <2>1, <2>4, UnendedStep DEF Awaits
  <2>6. ~Unattached(q, s)'
    BY Zenon, <2>1, <2>2, <2>3 DEF Unattached, SameWait, TasksOf
  <2>7. Awaits(q, s)'
    BY Zenon, <1>2, <2>1, <2>3, <2>5 DEF Awaits
  <2>8. QED
    BY Zenon, <2>6, <2>7
<1>7. QED
  BY Zenon, <1>1, <1>2, <1>3, <1>4, <1>5, <1>6 DEF Blocks

(* An embedding host holds an attempt of r. *)
Lent(r) == Embedded /\ \E e \in TasksOf(r) : task[e].owner = epoch /\ task[e].state \in Live

(* Nothing of r is to be dispatched or recovered. *)
Unready(r) ==
    \A e \in TasksOf(r) : task[e].state # "Ready" /\ (task[e].state \in Live => task[e].owner = epoch)

(* A running run that is not scheduled waits for its command, with nothing *)
(* left to do meanwhile unless it is parked.                               *)
Wakeful(r) ==
    run[r].state = "Running" /\ column[r] = None /\ ~Lent(r) =>
      /\ run[r].issued = 1 /\ Blocks(r)
      /\ Unready(r) \/ (r \in parked /\ dispatched # {})

(* Preparing an attempt writes back the wakeup that its dispatch saved. *)
PreparesSaved ==
    phase = "prepare" => driven \in Effects /\ (run[driven[1]].wakeup = None => column[driven[1]] = None)

WakeInv == (\A r \in Runs : Wakeful(r)) /\ PreparesSaved

(* Nothing runs in the beginning. *)
LEMMA InitWake == ASSUME Init PROVE WakeInv
<1>1. \A r \in Runs : run[r].state = "Absent"
  BY Zenon DEF Init, new_run
<1>2. QED
  BY Zenon, <1>1 DEF Init, WakeInv, Wakeful, PreparesSaved

(* Whatever the shape of a step, the runs it leaves unscheduled wait. *)
LEMMA StepWakeful == ASSUME Library, IInv, TreeInv, WakeInv, Shape PROVE \A r \in Runs : Wakeful(r)'
<1>Due. None # "now" /\ None # "later"
  BY Zenon, ProgramAssumption
<1>Rests.
  ASSUME IInv, TreeInv, WakeInv, NEW q \in Runs, UpToWakeup(run'[q], run[q]), column[q] = None, epoch' = epoch,
         \A e \in TasksOf(q) : task'[e] = task[e], Longer(q),
         q \in parked /\ dispatched # {} => q \in parked' /\ dispatched' # {}
  PROVE  Wakeful(q)'
  <2> USE <1>Rests
  <2>1. SUFFICES ASSUME run'[q].state = "Running", ~Lent(q)'
                 PROVE  /\ run'[q].issued = 1 /\ Blocks(q)'
                        /\ Unready(q)' \/ (q \in parked' /\ dispatched' # {})
    BY Zenon DEF Wakeful
  <2>2. run[q].state = "Running" /\ run'[q].issued = run[q].issued
    BY Zenon, <2>1 DEF UpToWakeup
  <2>3. ~Lent(q)
    BY Zenon, <2>1 DEF Lent
  <2>4. run[q].issued = 1 /\ Blocks(q) /\ (Unready(q) \/ (q \in parked /\ dispatched # {}))
    BY Zenon, <2>2, <2>3 DEF WakeInv, Wakeful
  <2>5. SameWait(q)
    BY Zenon DEF SameWait, UpToWakeup, SameLinks
  <2>6. Blocks(q)'
    BY Zenon, <2>4, <2>5, BlocksStep
  <2>7. Unready(q) => Unready(q)'
    BY Zenon DEF Unready
  <2>8. QED
    BY Zenon, <2>2, <2>4, <2>6, <2>7
<1>Untouched.
  ASSUME IInv, TreeInv, WakeInv, NEW writes, DOMAIN writes \subseteq Runs,
         \A x \in DOMAIN writes : writes[x] \in Record /\ (writes[x].state \in Ended => writes[x].parent = run[x].parent),
         NEW woken, Commit(writes, woken), Wakes(woken), epoch' = epoch,
         \A x \in Runs : run[x].next # None => run'[x].next = run[x].next,
         \A x \in Runs : run[x].next = None /\ run'[x].next # None =>
           run'[run'[x].next].next = None /\ run'[run'[x].next].state \notin Ended,
         NEW q \in Runs, q \notin DOMAIN writes, \A e \in TasksOf(q) : task'[e] = task[e]
  PROVE  Wakeful(q)'
  <2> USE <1>Untouched
  <2>1. SUFFICES ASSUME run'[q].state = "Running", column'[q] = None PROVE Wakeful(q)'
    BY Zenon DEF Wakeful
  <2>2. UpToWakeup(run'[q], run[q])
    BY Zenon, CommitTo, IInvParts
  <2>3. run[q].state = "Running"
    BY Zenon, <2>1, <2>2 DEF UpToWakeup
  <2>4. /\ q \notin woken /\ column[q] = None
        /\ \A w \in DOMAIN writes : writes[w].state \in Ended => writes[w].parent # q
    BY Zenon, <2>1, <2>3, CommitTo, IInvParts
  <2>5. \A x \in Runs : UpToWakeup(run'[x], IF x \in DOMAIN writes THEN writes[x] ELSE run[x])
    BY Zenon, CommitTo, IInvParts
  <2>6. ASSUME NEW x \in Runs, run[x].parent = q, run'[x].state \in Ended PROVE run[x].state \in Ended
    <3>1. CASE x \in DOMAIN writes
      <4>1. writes[x].state = run'[x].state
        BY Zenon, <2>5, <3>1 DEF UpToWakeup
      <4>2. QED
        BY Zenon, <2>4, <2>6, <3>1, <4>1
    <3>2. CASE x \notin DOMAIN writes
      BY Zenon, <2>5, <2>6, <3>2 DEF UpToWakeup
    <3>3. QED
      BY Zenon, <3>1, <3>2
  <2>7. Longer(q)
    BY Zenon, <2>6 DEF Longer
  <2>8. q \in parked /\ dispatched # {} => q \in parked' /\ dispatched' # {}
    BY Zenon, <2>4 DEF Wakes
  <2>9. QED
    BY Zenon, <2>2, <2>4, <2>7, <2>8, <1>Rests
<1>One.
  ASSUME IInv, TreeInv, WakeInv, NEW r \in Runs, NEW rec \in Record, SameLinks(rec, run[r]), NEW woken,
         Commit(Write(r, rec), woken), Wakes(woken), epoch' = epoch,
         \A e \in Effects : e[1] # r => task'[e] = task[e], NEW q \in Runs \ {r}
  PROVE  Wakeful(q)'
  <2> USE <1>One
  <2> DEFINE writes == Write(r, rec)
  <2>1. DOMAIN writes = {r} /\ writes[r] = rec
    BY Zenon DEF Write
  <2>2. rec.parent = run[r].parent /\ rec.next = run[r].next
    BY Zenon DEF SameLinks
  <2> HIDE DEF writes
  <2>3. /\ Commit(writes, woken) /\ DOMAIN writes \subseteq Runs /\ \A x \in DOMAIN writes : writes[x] \in Record
        /\ \A x \in DOMAIN writes : writes[x].state \in Ended => writes[x].parent = run[x].parent
    BY Zenon, <2>1, <2>2 DEF writes
  <2>4. \A x \in Runs : UpToWakeup(run'[x], IF x \in DOMAIN writes THEN writes[x] ELSE run[x])
    BY Zenon, <2>3, CommitTo, IInvParts
  <2>5. \A x \in Runs : run'[x].next = run[x].next
    BY Zenon, <2>1, <2>2, <2>4 DEF UpToWakeup, SameLinks
  <2>6. q \notin DOMAIN writes /\ \A e \in TasksOf(q) : task'[e] = task[e]
    BY Zenon, <2>1 DEF TasksOf
  <2>7. QED
    BY Zenon, <2>3, <2>5, <2>6, <1>Untouched
<1>Waits.
  ASSUME IInv, TreeInv, NEW r \in Runs, NEW rec \in Record, SameLinks(rec, run[r]), rec.state = "Running",
         epoch' = epoch, Waits(r, rec), UpToWakeup(run'[r], rec), \A q \in Runs \ {r} : UpToWakeup(run'[q], run[q])
  PROVE  Wakeful(r)'
  <2> USE <1>Waits
  <2>1. /\ Evaluates(r, "blocked")
        /\ rec.issued = 1 /\ rec.pc = run[r].pc /\ rec.sent = run[r].sent /\ rec.taken = run[r].taken
        /\ \A e \in TasksOf(r) : /\ task'[e].state = "Done" => task[e].state = "Done"
                                 /\ task'[e].state = "Absent" => task[e].state = "Absent"
    BY Zenon DEF Waits
  <2>2. Blocks(r)
    BY Zenon, <2>1, BlockedBlocks DEF Evaluates
  <2>3. SameWait(r) /\ run'[r].issued = 1
    BY Zenon, <2>1 DEF SameWait, UpToWakeup, SameLinks
  <2>4. /\ \A x \in Runs : run'[x].next = run[x].next
        /\ \A x \in Runs \ {r} : run'[x].state = run[x].state
        /\ run'[r].state = "Running"
    BY Zenon DEF UpToWakeup, SameLinks
  <2>5. Longer(r)
    BY Zenon, <2>4 DEF Longer, Ended
  <2>6. Blocks(r)'
    BY Zenon, <2>2, <2>3, <2>5, BlocksStep
  <2>7. Full => dispatched # {}
    <3>1. ASSUME Full, dispatched = {} PROVE FALSE
      <4>1. Cardinality(dispatched) = 0
        BY Zenon, <3>1 DEF Library
      <4>2. DispatchLimit \in 1..256
        BY Zenon, ConstantsAssumption
      <4>3. QED
        BY <3>1, <4>1, <4>2 DEF Full
    <3>2. QED
      BY Zenon, <3>1
  <2>8. Unready(r)' \/ (r \in parked' /\ dispatched' # {})
    BY Zenon, <2>7 DEF Waits, Unready
  <2>9. QED
    BY Zenon, <2>3, <2>6, <2>8 DEF Wakeful
<1>Prepares.
  ASSUME IInv, TreeInv, WakeInv, NEW r \in Runs, NEW e \in TasksOf(r), NEW n \in Nat, prepare_registered(e, n)
  PROVE  Wakeful(r)'
  <2> USE <1>Prepares
  <2> DEFINE t == In(start_execution(task[e]), "Invoking")
  <2>1. e \in Effects /\ e[1] = r /\ run[r] \in Record /\ task[e] \in Task
    BY Zenon, RunTyped, TaskTyped DEF TasksOf
  <2>2. /\ Prepares(e, n) /\ owned_task(e, n) /\ task' = [task EXCEPT ![e] = t] /\ Commit(Write(r, run[r]), {})
        /\ epoch' = epoch /\ parked' = parked /\ dispatched' = dispatched
    BY Zenon, <2>1 DEF prepare_registered, owned_attempt, Save
  <2>3. t \in Task /\ t.state = "Invoking" /\ t.owner = task[e].owner
    <3>1. start_execution(task[e]) \in Task
      BY Zenon, <2>1, StartTask
    <3>2. start_execution(task[e]).owner = task[e].owner
      BY Zenon, <2>1 DEF start_execution, Task
    <3> HIDE DEF start_execution
    <3>3. t \in Task /\ t.state = "Invoking"
      BY Zenon, <3>1, InTask DEF TaskStates
    <3>4. t.owner = start_execution(task[e]).owner
      BY Zenon, <3>1 DEF In, Task
    <3>5. QED
      BY Zenon, <3>2, <3>3, <3>4
  <2> HIDE DEF t
  <2>4. task'[e] = t /\ \A f \in TasksOf(r) \ {e} : task'[f] = task[f]
    BY Zenon, <2>1, <2>2, <2>3, OneTask DEF TasksOf
  <2>5. t.owner = epoch'
    BY Zenon, <2>2, <2>3 DEF owned_task
  <2>6. run'[r] = run[r] /\ (\A q \in Runs \ {r} : run'[q] = run[q]) /\ (column'[r] = None => run[r].wakeup = None)
    BY Zenon, <2>1, <2>2, SaveTo
  <2>7. CASE Embedded
    <3>1. Lent(r)'
      BY Zenon, <2>3, <2>4, <2>5, <2>7 DEF Lent, Live, TasksOf
    <3>2. QED
      BY Zenon, <3>1 DEF Wakeful
  <2>8. CASE ~Embedded
    <3>1. SUFFICES ASSUME run'[r].state = "Running", column'[r] = None PROVE Wakeful(r)'
      BY Zenon DEF Wakeful
    <3>2. phase = "prepare" /\ driven = e
      BY Zenon, <2>2, <2>8 DEF Prepares
    <3>3. column[r] = None
      BY Zenon, <2>1, <2>6, <3>1, <3>2 DEF WakeInv, PreparesSaved
    <3>4. run[r].state = "Running" /\ ~Lent(r)
      BY Zenon, <2>6, <2>8, <3>1 DEF Lent
    <3>5. run[r].issued = 1 /\ Blocks(r) /\ (Unready(r) \/ (r \in parked /\ dispatched # {}))
      BY Zenon, <3>3, <3>4 DEF WakeInv, Wakeful
    <3>6. SameWait(r)
      BY Zenon, <2>3, <2>4, <2>6 DEF SameWait
    <3>7. \A q \in Runs : run'[q] = run[q]
      BY Zenon, <2>6
    <3>8. Longer(r)
      BY Zenon, <3>7 DEF Longer
    <3>9. Blocks(r)'
      BY Zenon, <3>5, <3>6, <3>8, BlocksStep
    <3>10. Unready(r) => Unready(r)'
      BY Zenon, <2>2, <2>3, <2>4, <2>5 DEF Unready, TasksOf
    <3>11. QED
      BY Zenon, <2>2, <2>6, <3>5, <3>9, <3>10 DEF Wakeful
  <2>9. QED
    BY Zenon, <2>7, <2>8
<1>Driven. ASSUME IInv, TreeInv, WakeInv, NEW r \in Runs, NEW rec, NEW woken, Local(r, rec, woken), NEW q \in Runs
           PROVE  Wakeful(q)'
  <2> USE <1>Driven
  <2>1. /\ rec \in Record /\ SameLinks(rec, run[r]) /\ Commit(Write(r, rec), woken) /\ Wakes(woken) /\ epoch' = epoch
        /\ \A e \in Effects : e[1] # r => task'[e] = task[e]
        /\ rec.state = "Running" /\ rec.wakeup = None =>
             Waits(r, rec) \/ \E e \in TasksOf(r), n \in Nat : prepare_registered(e, n)
    BY Zenon DEF Local, Moves
  <2>2. CASE q # r
    BY Zenon, <2>1, <2>2, <1>One
  <2>3. CASE q = r
    <3>1. SUFFICES ASSUME run'[r].state = "Running", column'[r] = None PROVE Wakeful(r)'
      BY Zenon, <2>3 DEF Wakeful
    <3>2. /\ UpToWakeup(run'[r], rec) /\ \A x \in Runs \ {r} : UpToWakeup(run'[x], run[x])
          /\ rec.wakeup = None
      BY Zenon, <2>1, <3>1, SaveTo
    <3>3. rec.state = "Running"
      BY Zenon, <3>1, <3>2 DEF UpToWakeup
    <3>4. CASE Waits(r, rec)
      BY Zenon, <2>1, <3>2, <3>3, <3>4, <1>Waits
    <3>5. CASE \E e \in TasksOf(r), n \in Nat : prepare_registered(e, n)
      BY Zenon, <3>5, <1>Prepares
    <3>6. QED
      BY Zenon, <2>1, <3>2, <3>3, <3>4, <3>5
  <2>4. QED
    BY Zenon, <2>2, <2>3
<1>Created.
  ASSUME IInv, TreeInv, WakeInv, NEW r \in Runs, NEW s \in Runs, NEW parent \in Runs \cup {None}, NEW rec \in Record,
         NEW writes, DOMAIN writes = {r, s}, writes[r] = rec, writes[s] = new_run(parent), Commit(writes, {}), r # s,
         run[s].state = "Absent", run[r].state \in Drivable, rec.next \in {run[r].next, s}, rec.state \notin Ended,
         rec.state = "Running" => rec.wakeup # None, Wakes({}), epoch' = epoch,
         \A e \in Effects : e[1] # r => task'[e] = task[e], NEW q \in Runs
  PROVE  Wakeful(q)'
  <2> USE <1>Created
  <2>1. Formed(r, s, parent, rec)
    BY Zenon, Creates
  <2>2. /\ run'[r] = rec /\ run'[s].state = "Running" /\ run'[s].next = None
        /\ \A x \in Runs \ {r, s} : run'[x] = run[x]
    BY Zenon, <2>1 DEF Formed
  <2>3. run[r].next = None /\ run[s].next = None
    <3>1. run[r].state \notin Heirs /\ run[s].state \notin Heirs
      BY Zenon DEF Drivable, Heirs, Fence
    <3>2. QED
      BY Zenon, <3>1 DEF TreeInv, Placed
  <2>4. /\ \A x \in Runs : run[x].next # None => run'[x].next = run[x].next
        /\ \A x \in Runs : run[x].next = None /\ run'[x].next # None => run'[x].next = s
    BY Zenon, <2>2, <2>3
  <2>5. \A x \in Runs : run[x].next = None /\ run'[x].next # None =>
           run'[run'[x].next].next = None /\ run'[run'[x].next].state \notin Ended
    BY Zenon, <2>2, <2>4 DEF Ended
  <2>6. new_run(parent) \in Record /\ new_run(parent).state = "Running" /\ new_run(parent).wakeup = "now"
    BY Zenon, NewRecord
  <2>7. /\ DOMAIN writes \subseteq Runs /\ \A x \in DOMAIN writes : writes[x] \in Record
        /\ \A x \in DOMAIN writes : writes[x].state \in Ended => writes[x].parent = run[x].parent
    BY Zenon, <2>6 DEF Ended
  <2>8. CASE q \in {r, s}
    <3>1. column'[q] = None => writes[q].wakeup = None
      BY Zenon, <2>7, <2>8, CommitTo, IInvParts
    <3>2. run'[q].state = "Running" => writes[q].wakeup # None
      BY Zenon, <1>Due, <2>2, <2>6, <2>8
    <3>3. QED
      BY Zenon, <3>1, <3>2 DEF Wakeful
  <2>9. CASE q \notin {r, s}
    <3>1. q \notin DOMAIN writes /\ \A e \in TasksOf(q) : task'[e] = task[e]
      BY Zenon, <2>9 DEF TasksOf
    <3>2. QED
      BY Zenon, <2>4, <2>5, <2>7, <3>1, <1>Untouched
  <2>10. QED
    BY Zenon, <2>8, <2>9
<1>Attached. ASSUME IInv, TreeInv, WakeInv, NEW r \in Runs, NEW c \in Runs, NEW rec, Attaches(r, c, rec), NEW q \in Runs
             PROVE  Wakeful(q)'
  <2> USE <1>Attached
  <2> DEFINE writes == [x \in {r, c} |-> IF x = r THEN rec ELSE new_run(r)]
  <2>1. /\ run[r].state \in Drivable /\ run[c].state = "Absent" /\ rec \in Record
        /\ rec.next = run[r].next /\ rec.state = "Running" /\ rec.wakeup = "now"
        /\ Commit(writes, {}) /\ \A e \in Effects : e[1] # r => task'[e] = task[e]
        /\ epoch' = epoch /\ Wakes({})
    BY Zenon DEF Attaches
  <2>2. r # c /\ r \in Runs \cup {None}
    BY Zenon, <2>1 DEF Drivable
  <2>3. DOMAIN writes = {r, c} /\ writes[r] = rec /\ writes[c] = new_run(r)
    BY Zenon, <2>2
  <2> HIDE DEF writes
  <2>4. rec.next \in {run[r].next, c} /\ rec.state \notin Ended /\ rec.wakeup # None
    BY Zenon, <1>Due, <2>1 DEF Ended
  <2>5. QED
    BY Zenon, <2>1, <2>2, <2>3, <2>4, <1>Created
<1>Continued. ASSUME IInv, TreeInv, WakeInv, NEW r \in Runs, NEW s \in Runs, NEW rec, Continues(r, s, rec), NEW q \in Runs
             PROVE  Wakeful(q)'
  <2> USE <1>Continued
  <2> DEFINE parent == run[r].parent
             writes == [x \in {r, s} |-> IF x = s THEN new_run(parent) ELSE rec]
  <2>1. /\ run[r].state \in Drivable /\ run[s].state = "Absent" /\ rec \in Record
        /\ rec.next = s /\ rec.state = "ContinuedAsNew"
        /\ Commit(writes, {}) /\ task' = task /\ epoch' = epoch /\ Wakes({})
    BY Zenon DEF Continues, Joined
  <2>2. r # s /\ parent \in Runs \cup {None}
    BY ZenonT(60), <2>1, RunTyped DEF Drivable, Record
  <2>3. DOMAIN writes = {r, s} /\ writes[r] = rec /\ writes[s] = new_run(parent)
    BY Zenon, <2>2
  <2> HIDE DEF writes, parent
  <2>4. rec.next \in {run[r].next, s} /\ rec.state \notin Ended /\ rec.state # "Running"
    BY Zenon, <2>1 DEF Ended
  <2>5. QED
    BY Zenon, <2>1, <2>2, <2>3, <2>4, <1>Created
<1>Started. ASSUME IInv, TreeInv, WakeInv, NEW r \in Runs, start(r), NEW q \in Runs PROVE Wakeful(q)'
  <2> USE <1>Started
  <2> DEFINE new == new_run(None)
  <2>1. /\ run[r].state = "Absent" /\ Commit(Write(r, new), {}) /\ task' = task
        /\ epoch' = epoch /\ parked' = parked /\ dispatched' = dispatched
    BY Zenon DEF start, Save, memory
  <2>2. new \in Record /\ new.wakeup = "now"
    BY Zenon, NewRecord
  <2>3. SameLinks(new, run[r])
    <3>1. Blank(new)
      BY DEF Blank, new_run
    <3>2. Blank(run[r])
      BY Zenon, <2>1 DEF TreeInv, Placed
    <3> HIDE DEF new
    <3>3. QED
      BY Zenon, <3>1, <3>2 DEF SameLinks, Blank
  <2> HIDE DEF new
  <2>4. Wakes({})
    BY Zenon, <2>1 DEF Wakes
  <2>5. CASE q = r
    BY Zenon, <1>Due, <2>1, <2>2, <2>5, SaveTo DEF Wakeful
  <2>6. CASE q # r
    BY Zenon, <2>1, <2>2, <2>3, <2>4, <2>6, <1>One
  <2>7. QED
    BY Zenon, <2>5, <2>6
<1>Completed. ASSUME IInv, TreeInv, WakeInv, NEW r \in Runs, NEW rec, Completes(r, rec), NEW q \in Runs PROVE Wakeful(q)'
  <2> USE <1>Completed
  <2>1. /\ rec \in Record /\ rec.state = "Completed" /\ SameLinks(rec, run[r]) /\ Commit(Write(r, rec), {})
        /\ task' = task /\ epoch' = epoch /\ Wakes({})
    BY Zenon DEF Completes, Joined, SameLinks, Save
  <2>2. CASE q = r
    <3>1. UpToWakeup(run'[r], rec)
      BY Zenon, <2>1, SaveTo
    <3>2. QED
      BY Zenon, <2>1, <2>2, <3>1 DEF UpToWakeup, Wakeful
  <2>3. CASE q # r
    BY Zenon, <2>1, <2>3, <1>One
  <2>4. QED
    BY Zenon, <2>2, <2>3
<1>Woken. ASSUME IInv, TreeInv, WakeInv, NEW woken, Commit(<<>>, woken), task' = task, epoch' = epoch, Wakes(woken),
                 NEW q \in Runs
          PROVE  Wakeful(q)'
  <2> USE <1>Woken
  <2> DEFINE writes == <<>>
  <2>1. DOMAIN writes = {}
    BY SMT
  <2> HIDE DEF writes
  <2>2. Commit(writes, woken)
    BY Zenon DEF writes
  <2>3. \A x \in Runs : UpToWakeup(run'[x], run[x])
    BY Zenon, <2>1, <2>2, CommitTo, IInvParts
  <2>4. \A x \in Runs : run'[x].next = run[x].next
    BY Zenon, <2>3 DEF UpToWakeup, SameLinks
  <2>5. QED
    BY Zenon, <2>1, <2>2, <2>4, <1>Untouched
<1>Quiet. ASSUME IInv, TreeInv, WakeInv, NoSave, task' = task, epoch' = epoch, Wakes({}), NEW q \in Runs
          PROVE  Wakeful(q)'
  <2> USE <1>Quiet
  <2>1. run' = run /\ column' = column
    BY Zenon DEF NoSave
  <2>2. UpToWakeup(run'[q], run[q]) /\ Longer(q)
    BY Zenon, <2>1 DEF UpToWakeup, SameLinks, Longer
  <2>3. q \in parked /\ dispatched # {} => q \in parked' /\ dispatched' # {}
    BY Zenon DEF Wakes
  <2>4. CASE column[q] = None
    BY Zenon, <2>2, <2>3, <2>4, <1>Rests
  <2>5. CASE column[q] # None
    BY Zenon, <2>1, <2>5 DEF Wakeful
  <2>6. QED
    BY Zenon, <2>4, <2>5
<1>Open. ASSUME IInv, TreeInv, WakeInv, open, NEW q \in Runs PROVE Wakeful(q)'
  <2> USE <1>Open
  <2>1. run' = run /\ task' = task
    BY Zenon DEF open
  <2>2. column'[q] = IF Scheduled(run[q]) /\ requires_recovery(q) THEN "now" ELSE column[q]
    BY Zenon DEF open
  <2>3. SUFFICES ASSUME run[q].state = "Running", column'[q] = None
                 PROVE  run[q].issued = 1 /\ Blocks(q)' /\ Unready(q)'
    BY Zenon, <2>1 DEF Wakeful
  <2>4. ~requires_recovery(q) /\ column[q] = None
    BY Zenon, <1>Due, <2>2, <2>3 DEF Scheduled
  <2>5. \A e \in TasksOf(q) : task[e].state \notin {"Ready"} \cup Live
    BY Zenon, <2>4 DEF requires_recovery
  <2>6. ~Lent(q)
    BY Zenon, <2>5 DEF Lent
  <2>7. run[q].issued = 1 /\ Blocks(q)
    BY Zenon, <2>3, <2>4, <2>6 DEF WakeInv, Wakeful
  <2>8. Longer(q) /\ SameWait(q)
    BY Zenon, <2>1 DEF Longer, SameWait
  <2>9. Blocks(q)'
    BY Zenon, <2>7, <2>8, BlocksStep
  <2>10. Unready(q)'
    BY Zenon, <2>1, <2>5 DEF Unready
  <2>11. QED
    BY Zenon, <2>7, <2>9, <2>10
<1> TAKE q \in Runs
<1>1. ASSUME open \/ (NoSave /\ task' = task /\ epoch' = epoch /\ Wakes({})) PROVE Wakeful(q)'
  BY Zenon, <1>1, <1>Quiet, <1>Open
<1>2. ASSUME NEW woken, Commit(<<>>, woken), task' = task, epoch' = epoch, Wakes(woken) PROVE Wakeful(q)'
  BY Zenon, <1>2, <1>Woken
<1>3. ASSUME NEW r \in Runs, start(r) \/ (\E rec : Completes(r, rec)) \/ (\E rec, woken : Local(r, rec, woken))
      PROVE  Wakeful(q)'
  BY Zenon, <1>3, <1>Started, <1>Completed, <1>Driven
<1>4. ASSUME NEW r \in Runs, NEW s \in Runs, NEW rec, Attaches(r, s, rec) \/ Continues(r, s, rec) PROVE Wakeful(q)'
  BY Zenon, <1>4, <1>Attached, <1>Continued
<1>5. QED
  BY Zenon, <1>1, <1>2, <1>3, <1>4 DEF Shape

(* Only a dispatch makes the host prepare. *)
LEMMA StepPhase ==
  ASSUME Next, phase' = "prepare" PROVE \E r \in Runs : \E e \in TasksOf(r) : drive_dispatch(r, e)
<1>Kept. ASSUME phase = "idle", UNCHANGED memory PROVE FALSE
  BY Zenon, <1>Kept DEF memory
<1>Request. ASSUME NEW r, cancel_request(r) PROVE FALSE
  BY Zenon, <1>Request DEF cancel_request
<1>Left. ASSUME BackToIdle PROVE FALSE
  BY Zenon, <1>Left DEF BackToIdle
<1>Error. ASSUME NEW r, NEW reason, drive_error(r, reason) PROVE FALSE
  BY Zenon, <1>Error, <1>Left DEF drive_error
<1>Settle. ASSUME NEW e, NEW n, NEW t, NEW rec, phase = "idle", Settle(e, n, t, rec) PROVE FALSE
  BY Zenon, <1>Settle DEF Settle
<1>1. ASSUME open PROVE FALSE
  BY Zenon, <1>1 DEF open
<1>2. ASSUME NEW r \in Runs, start(r) \/ signal(r) \/ resume(r) \/ cancel(r) \/ reconcile_refused(r) PROVE FALSE
  BY Zenon, <1>2, <1>Kept, <1>Request DEF start, signal, resume, cancel, reconcile_refused, MayReconcile
<1>3. ASSUME NEW r \in Runs, DriveStep(r) PROVE FALSE
  <2>1. CASE drive_cancelled(r) \/ drive_stopped(r)
    BY Zenon, <2>1, <1>Kept, <1>Request DEF drive_cancelled, drive_stopped, MayDrive
  <2>2. ASSUME NEW state, drive_suspended(r, state) PROVE FALSE
    BY Zenon, <2>2, <1>Kept DEF drive_suspended, MayDrive
  <2>3. ASSUME NEW due, NEW over, NEW fired, drive(r, due, over, fired) PROVE FALSE
    <3>1. phase = "idle" /\ ((UNCHANGED memory) \/ enter_loop(r, fired))
      BY Zenon, <2>3 DEF drive, MayDrive
    <3>2. QED
      BY Zenon, <3>1, <1>Kept DEF enter_loop
  <2>4. QED
    BY Zenon, <1>3, <2>1, <2>2, <2>3 DEF DriveStep
<1>4. ASSUME NEW r \in Runs, TurnStep(r) PROVE \E e \in TasksOf(r) : drive_dispatch(r, e)
  <2>1. ASSUME drive_value(r) PROVE FALSE
    BY Zenon, <2>1 DEF drive_value, Evaluates, Turn, InLoop
  <2>2. ASSUME drive_progressed(r) \/ drive_return(r) \/ drive_propagate(r) \/ drive_continue(r) PROVE FALSE
    BY Zenon, <2>2, <1>Left DEF drive_progressed, drive_return, drive_propagate, drive_continue
  <2>3. ASSUME drive_cancel(r) PROVE FALSE
    BY Zenon, <2>3, <1>Request DEF drive_cancel
  <2>4. ASSUME drive_refused(r) PROVE FALSE
    BY Zenon, <2>4, <1>Error DEF drive_refused
  <2>5. ASSUME NEW fault, drive_fault(r, fault) PROVE FALSE
    BY Zenon, <2>5, <1>Left DEF drive_fault
  <2>6. ASSUME drive_wait(r) \/ drive_park(r) \/ drive_unimplemented(r) PROVE FALSE
    BY Zenon, <2>6, <1>Left, <1>Error DEF drive_wait, drive_park, drive_unimplemented
  <2>7. ASSUME NEW e, drive_exhausted(r, e) \/ drive_spent(r, e) PROVE FALSE
    BY Zenon, <2>7, <1>Left, <1>Error DEF drive_exhausted, drive_spent
  <2>8. QED
    BY Zenon, <1>4, <2>1, <2>2, <2>3, <2>4, <2>5, <2>6, <2>7 DEF TurnStep
<1>5. ASSUME cancel_descend \/ cancel_finish PROVE FALSE
  BY Zenon, <1>5, <1>Request DEF cancel_descend, cancel_finish
<1>6. ASSUME NEW e \in Effects, NEW n, PrepareStep(e, n) PROVE FALSE
  BY Zenon, <1>6, <1>Left DEF PrepareStep, prepare_registered, prepare_unresolved, reject_dispatch, Refuse
<1>7. ASSUME NEW e \in Effects, NEW n, ResultStep(e, n) PROVE FALSE
  BY Zenon, <1>7, <1>Settle DEF ResultStep, complete, fail, Arrives
<1>8. ASSUME NEW e \in Effects, NEW n, NEW observed, reconcile(e, n, observed) PROVE FALSE
  BY Zenon, <1>8, <1>Kept DEF reconcile, MayReconcile
<1>9. QED
  BY Zenon, <1>1, <1>2, <1>3, <1>4, <1>5, <1>6, <1>7, <1>8 DEF Next

LEMMA DispatchSaves ==
  ASSUME IInv, NEW r \in Runs, NEW e \in TasksOf(r), drive_dispatch(r, e), phase' = "prepare" PROVE PreparesSaved'
<1> DEFINE wake == IF ReadyTasks(r) # {e} THEN "now" ELSE WaitWakeup(r)
           rec == [Pending(r) EXCEPT !.wakeup = wake]
           writes == Write(r, rec)
<1>1. Save(r, rec) /\ driven' = e
  BY Zenon DEF drive_dispatch
<1>2. wake \in Wakeups \cup {None}
  BY Zenon, WaitWakeupType DEF Wakeups
<1> HIDE DEF wake
<1>3. rec \in Record /\ rec.state = "Running"
  BY Zenon, <1>2, PendingRecord, WokenRecord
<1> HIDE DEF rec
<1>4. run'[r] = rec
  BY Zenon, <1>1, <1>3, SaveTo DEF Save
<1>5. DOMAIN writes = {r} /\ writes[r] = rec
  BY Zenon DEF Write
<1>6. Commit(writes, {})
  BY Zenon, <1>1 DEF Save
<1> HIDE DEF writes
<1>7. column'[r] = rec.wakeup
  <2>1. {w \in DOMAIN writes : writes[w].state \in Ended} = {}
    BY Zenon, <1>3, <1>5 DEF Ended
  <2>2. QED
    BY Zenon, <1>5, <1>6, <2>1 DEF Commit
<1>8. e \in Effects /\ e[1] = r
  BY Zenon DEF TasksOf
<1>9. QED
  BY Zenon, <1>1, <1>4, <1>7, <1>8 DEF PreparesSaved

(* The invariant, and what it is inductive with. *)
LEMMA StepWake == ASSUME Library, IInv, LoopInv, TreeInv, WakeInv, [Next]_vars PROVE WakeInv'
<1>1. Shape
  BY Zenon, StepShape
<1>2. \A r \in Runs : Wakeful(r)'
  BY Zenon, <1>1, StepWakeful
<1>3. PreparesSaved'
  <2>1. CASE UNCHANGED vars
    <3>1. phase' = phase /\ driven' = driven /\ run' = run /\ column' = column
      BY Zenon, <2>1 DEF vars, memory
    <3>2. QED
      BY Zenon, <3>1 DEF WakeInv, PreparesSaved
  <2>2. CASE Next
    <3>1. CASE phase' # "prepare"
      BY Zenon, <3>1 DEF PreparesSaved
    <3>2. CASE phase' = "prepare"
      BY Zenon, <2>2, <3>2, StepPhase, DispatchSaves
    <3>3. QED
      BY Zenon, <3>1, <3>2
  <2>3. QED
    BY Zenon, <2>1, <2>2
<1>4. QED
  BY Zenon, <1>2, <1>3 DEF WakeInv

----------------------------------------------------------------------------
(* The facts of the library, and what follows for every behaviour.         *)

INSTANCE FiniteSetTheorems

(* Every set of numbers that is not empty has a least element. *)
LEMMA LeastExists ==
  ASSUME NEW T, T \subseteq Nat, T # {}
  PROVE  \E m \in T : \A k \in T : m <= k
<1> DEFINE R == OpToRel(<, Nat)
<1>1. IsWellFoundedOn(R, Nat)
  BY NatLessThanWellFounded
<1>2. R = {ss \in Nat \X Nat : ss[1] < ss[2]}
  BY DEF OpToRel
<1> HIDE DEF R
<1>3. PICK m \in T : \A k \in T : ~(<<k, m>> \in R)
  BY Zenon, <1>1, WFMin
<1>4. ASSUME NEW k \in T PROVE m <= k
  <2>1. k \in Nat /\ m \in Nat
    BY Zenon
  <2>2. ~(<<k, m>> \in {ss \in Nat \X Nat : ss[1] < ss[2]})
    BY Zenon, <1>2, <1>3
  <2>3. ~(k < m)
    BY <2>1, <2>2
  <2>4. QED
    BY <2>1, <2>3
<1>5. QED
  BY Zenon, <1>4

(* What was taken from the library is true. *)
LEMMA LibraryFacts == Library
<1>1. Cardinality({}) = 0
  BY Zenon, FS_EmptySet
<1>2. QED
  BY Zenon, <1>1, LeastExists DEF Library

(* So the invariants hold of every behaviour. *)
LEMMA WakeInductive == Spec => [](IInv /\ LoopInv /\ TreeInv /\ WakeInv)
<1>1. Init => IInv /\ LoopInv /\ TreeInv /\ WakeInv
  BY Zenon, InitIInv, InitLoop, InitTree, InitWake
<1>2. IInv /\ LoopInv /\ TreeInv /\ WakeInv /\ [Next]_vars => (IInv /\ LoopInv /\ TreeInv /\ WakeInv)'
  <2>1. SUFFICES ASSUME IInv, LoopInv, TreeInv, WakeInv, [Next]_vars
                 PROVE  IInv' /\ LoopInv' /\ TreeInv' /\ WakeInv'
    BY Zenon
  <2>2. Good /\ Shape
    BY Zenon, <2>1, StepGood, StepShape
  <2>3. QED
    BY Zenon, <2>1, <2>2, LibraryFacts, GoodKeepsIInv, StepLoop, StepTree, StepWake
<1>3. QED
  BY <1>1, <1>2, PTL DEF Spec

(* A run that completed or continued has joined everything it began, on    *)
(* every path to it and however the runs are nested: join_children and     *)
(* latest_run, followed through the successors of a child.                 *)
THEOREM CompletionIsJoined == Spec => []CompletedJoined
<1>1. TreeInv => CompletedJoined
  BY Zenon DEF TreeInv
<1>2. QED
  BY <1>1, WakeInductive, PTL

(* No wakeup is lost, in the daemon or in an embedding host: between calls *)
(* a running run that could go on is due, parked behind an attempt, or     *)
(* waits for an attempt that the embedding host holds (commit's copy of    *)
(* the wakeup, the parent's row, release_dispatch, requires_recovery).     *)
THEOREM WakeupsAreKept == Spec => []NoLostWakeup
<1>1. ASSUME IInv, LoopInv, WakeInv PROVE NoLostWakeup
  <2> USE <1>1
  <2>1. SUFFICES ASSUME NEW r \in Runs, phase = "idle", run[r].state = "Running", column[r] = None,
                        ~(r \in parked /\ dispatched # {}),
                        ~(Embedded /\ \E e \in TasksOf(r) : owned_task(e, task[e].attempt))
                 PROVE  ~CanProgress(r)
    BY Zenon DEF NoLostWakeup
  <2>2. ~Lent(r)
    BY Zenon, <2>1 DEF Lent, owned_task
  <2>3. run[r].issued = 1 /\ Blocks(r) /\ Unready(r)
    BY Zenon, <2>1, <2>2 DEF WakeInv, Wakeful
  <2>4. ~HasInterrupted(r)
    BY Zenon, <2>1, <2>3 DEF HasInterrupted, Interrupted, Exhausted, Unready, TasksOf
  <2>5. loop.fired = FALSE
    BY Zenon, <2>1 DEF LoopInv, LoopOff
  <2>6. evaluate(r) \in {"blocked", "Limit"}
    BY Zenon, <2>3, <2>5, LibraryFacts, BlocksBlocked
  <2>7. Ongoing(r)
    BY Zenon, <2>3 DEF Blocks
  <2>8. run[r].issued # 0
    BY <2>3
  <2>9. QED
    BY Zenon, <2>3, <2>4, <2>6, <2>7, <2>8 DEF CanProgress, Unready
<1>2. QED
  BY <1>1, WakeInductive, PTL

============================================================================
