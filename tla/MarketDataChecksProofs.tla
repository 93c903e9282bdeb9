------------------------ MODULE MarketDataChecksProofs ------------------------
(***************************************************************************)
(* Proofs about the health checks of MarketDataCollection and about what   *)
(* its rows stand for, for any number of runs and any bounds: a check that *)
(* says ok stands for rows a reader finds, and a failure is reported until *)
(* a check under the same source name succeeds.                            *)
(***************************************************************************)
EXTENDS MarketDataCollectionProofs, BatchLemmas

----------------------------------------------------------------------------
(* The inductive invariant *)

\* The tables in which a run replaces the rows of other runs.
Rewritten == {"heatmap", "etf"}

\* A run whose checks and rows share one transaction.
InSession(r) == IsOpen(r) /\ CommitsLast(run[r].todo)

\* An open transaction belongs to a run in progress. Only committed rows are
\* deleted, and an ETF row only together with the insertion of its successor.
RowOK(x) ==
  /\ x.run \in Runs /\ x.at \in 0..clock /\ x.dead \in Runs
  /\ x.txn # 0 => x.txn = x.run /\ IsOpen(x.txn)
  /\ x.dead # 0 =>
       /\ InSession(x.dead) /\ x.txn = 0 /\ x.table \in Rewritten
       /\ x.table = "etf" =>
            \E y \in rows : y.table = "etf" /\ y.key = x.key /\ y.txn = x.dead

RowsOK == \A x \in rows : RowOK(x)

\* What is left to do of the ETF flows, and when a run began.
PlanOK(r) == run[r].since \in 0..clock /\ (IsOpen(r) => UpsertsLast(run[r].todo))

TimesOK ==
  /\ clock \in 0..MaxClock /\ met \subseteq SUBSET Runs
  /\ \A r \in Runs : PlanOK(r)

\* Checks are in the order of their times.
PlacesOK ==
  /\ \E n \in Nat : DOMAIN checks \subseteq 1..n
  /\ \A i \in DOMAIN checks : checks[i].at \in 0..clock
  /\ \A i, j \in DOMAIN checks : i < j => checks[i].at <= checks[j].at

\* The row x is what the check c says has been fetched.
Stands(x, c) ==
  /\ x.table = c.target.kind /\ x.key = c.target.of /\ x.txn = c.txn
  /\ x.table \in Rewritten \/ x.run = c.run

HasUpsert(todo) == \E i \in 1..Len(todo) : todo[i].kind = "upsert"

\* What the check says has been fetched is still to be written.
Coming(c) ==
  \/ /\ c.target.kind = "prices"
     /\ run[c.run].pc = "store" /\ Todo(c.run) = c.target
  \/ /\ c.target.kind = "heatmap" /\ c.txn # 0
     /\ run[c.run].pc \in Replacing /\ Todo(c.run) = c.target
  \/ /\ c.target.kind = "etf" /\ c.txn # 0
     /\ c.target.of \in run[c.run].got /\ HasUpsert(run[c.run].todo)

Complete(c) ==
  \A i \in DOMAIN Assets : \E x \in Committed("prices") :
    x.run = c.run /\ x.key = <<c.source, Assets[i]>>

Backed(c) ==
  \/ Coming(c)
  \/ IF c.target.kind = "prices" THEN run[c.run].pc = "aborted" \/ Complete(c)
     ELSE \E x \in rows : Stands(x, c)

CheckShape(c) ==
  c = [source |-> c.source, target |-> c.target, ok |-> c.ok, data |-> c.data,
       at |-> c.at, run |-> c.run, txn |-> c.txn]

\* A check that says ok, in the transaction of its run or committed, has its
\* rows in the same transaction, or will have them before it is committed.
CheckOK(c) ==
  /\ CheckShape(c) /\ c.ok \in BOOLEAN
  /\ c.run \in Runs /\ run[c.run].pc # "unused"
  /\ c.source = SourceOf(c.target)
  /\ c.txn # 0 => c.txn = c.run /\ InSession(c.txn)
  /\ c.target.kind = "prices" => c.txn = 0
  /\ c.ok => IF c.data THEN Backed(c) ELSE c.target.kind = "etf"

Made == {checks[i] : i \in DOMAIN checks}

ChecksOK == \A c \in Made : CheckOK(c)

ChecksInv == TimesOK /\ RowsOK /\ PlacesOK /\ ChecksOK

----------------------------------------------------------------------------
(* The runs *)

Shows(w, pc, todo, since, got) ==
  RunShape(w) /\ w.pc = pc /\ w.todo = todo /\ w.since = since /\ w.got = got

\* What EXCEPT leaves of a run.
LEMMA RunShows ==
  ASSUME NEW v, RunShape(v), NEW p, NEW s, NEW g
  PROVE  /\ Shows([v EXCEPT !.pc = p], p, v.todo, v.since, v.got)
         /\ Shows([v EXCEPT !.pc = p, !.sees = s], p, v.todo, v.since, v.got)
         /\ Shows([v EXCEPT !.todo = s, !.pc = p], p, s, v.since, v.got)
         /\ Shows([v EXCEPT !.got = g], v.pc, v.todo, v.since, g)
<1> DEFINE j == v.job c == v.pc t == v.todo n == v.since o == v.got e == v.sees
           y == [job |-> j, pc |-> c, todo |-> t, since |-> n, got |-> o, sees |-> e]
           y1 == [job |-> j, pc |-> p, todo |-> t, since |-> n, got |-> o, sees |-> e]
           y2 == [job |-> j, pc |-> p, todo |-> t, since |-> n, got |-> o, sees |-> s]
           y3 == [job |-> j, pc |-> c, todo |-> s, since |-> n, got |-> o, sees |-> e]
           y4 == [job |-> j, pc |-> p, todo |-> s, since |-> n, got |-> o, sees |-> e]
           y5 == [job |-> j, pc |-> c, todo |-> t, since |-> n, got |-> g, sees |-> e]
<1>1. v = y
  BY DEF RunShape
<1> HIDE DEF j, c, t, n, o, e
<1>2. /\ [y EXCEPT !.pc = p] = y1 /\ [y1 EXCEPT !.sees = s] = y2
      /\ [y EXCEPT !.todo = s] = y3 /\ [y3 EXCEPT !.pc = p] = y4
      /\ [y EXCEPT !.got = g] = y5
  OBVIOUS
<1>3. [y EXCEPT !.pc = p, !.sees = s] = [[y EXCEPT !.pc = p] EXCEPT !.sees = s]
  BY DEF y
<1>4. [y EXCEPT !.todo = s, !.pc = p] = [[y EXCEPT !.todo = s] EXCEPT !.pc = p]
  BY DEF y
<1>5. /\ Shows(y1, p, t, n, o) /\ Shows(y2, p, t, n, o) /\ Shows(y4, p, s, n, o)
      /\ Shows(y5, c, t, n, g)
  BY DEF Shows, RunShape
<1> HIDE DEF y, y1, y2, y3, y4, y5
<1> QED
  BY <1>1, <1>2, <1>3, <1>4, <1>5 DEF t, n, o, c

\* When a run moves on.
LEMMA AdvancedShows ==
  ASSUME NEW v, RunShape(v)
  PROVE  /\ RunShape(Advanced(v))
         /\ Len(v.todo) = 1 => Advanced(v).pc = "done" /\ Advanced(v).since = 0
         /\ Len(v.todo) # 1 => Shows(Advanced(v), "fetch", Tail(v.todo), v.since, v.got)
<1>1. CASE Len(v.todo) = 1
  <2>1. Advanced(v) = Closed(v, "done")
    BY <1>1, Zenon DEF Advanced
  <2>2. RunShape(Closed(v, "done")) /\ Closed(v, "done").pc = "done"
    BY ClosedFacts
  <2>3. Closed(v, "done").since = 0
    BY DEF Closed, Unused
  <2> QED
    BY <1>1, <2>1, <2>2, <2>3
<1>2. CASE Len(v.todo) # 1
  <2>1. Advanced(v) = [v EXCEPT !.todo = Tail(v.todo), !.pc = "fetch"]
    BY <1>2, Zenon DEF Advanced
  <2>2. Shows([v EXCEPT !.todo = Tail(v.todo), !.pc = "fetch"], "fetch", Tail(v.todo), v.since, v.got)
    BY RunShows, Zenon
  <2> QED
    BY <1>2, <2>1, <2>2, Zenon DEF Shows
<1> QED
  BY <1>1, <1>2

\* A run that has ended.
LEMMA ClosedSince ==
  ASSUME NEW v, NEW pc
  PROVE  Closed(v, pc).since = 0 /\ Closed(v, pc).pc = pc
BY DEF Closed, Unused

\* A run that stays at its target, moves on or ends.
Goes(v, w) ==
  /\ w.since \in {0, v.since}
  /\ w.pc \in OpenPcs \cup {"done", "aborted"}
  /\ w.pc \in OpenPcs => w.todo = v.todo \/ (Len(v.todo) # 1 /\ w.todo = Tail(v.todo))

\* A run that moves on keeps to its plan.
LEMMA AdvancedGoes ==
  ASSUME NEW v, RunShape(v)
  PROVE  Goes(v, Advanced(v))
<1>1. CASE Len(v.todo) = 1
  BY <1>1, AdvancedShows DEF Goes, OpenPcs
<1>2. CASE Len(v.todo) # 1
  <2>1. Shows(Advanced(v), "fetch", Tail(v.todo), v.since, v.got)
    BY <1>2, AdvancedShows
  <2> QED
    BY <1>2, <2>1 DEF Goes, Shows, OpenPcs
<1> QED
  BY <1>1, <1>2

\* What is left to do of the ETF flows, once the first target is done.
LEMMA TailUpserts ==
  ASSUME NEW todo, Ordered(todo), Len(todo) # 1
  PROVE  /\ UpsertsLast(todo) => UpsertsLast(Tail(todo))
         /\ HasUpsert(todo) /\ Head(todo).kind # "upsert" => HasUpsert(Tail(todo))
         /\ UpsertsLast(todo) /\ Head(todo).kind = "etf" => HasUpsert(Tail(todo))
<1> DEFINE t == Tail(todo)
<1>1. /\ todo \in Seq(Targets) /\ Len(todo) >= 1 /\ Len(todo) \in Nat
  BY DEF Ordered
<1>2. /\ t \in Seq(Targets) /\ Len(t) = Len(todo) - 1 /\ Head(todo) = todo[1]
      /\ \A i \in 1..Len(t) : t[i] = todo[i + 1]
  BY <1>1, HeadTailProperties
<1> HIDE DEF t
<1>3. \A i \in 1..Len(t) : i + 1 \in 1..Len(todo)
  BY <1>1, <1>2
<1>4. ASSUME NEW k \in 1..Len(todo), k # 1 PROVE k - 1 \in 1..Len(t) /\ t[k - 1] = todo[k]
  <2>1. k - 1 \in 1..Len(t) /\ (k - 1) + 1 = k
    BY <1>1, <1>2, <1>4
  <2>2. t[k - 1] = todo[(k - 1) + 1]
    BY <1>2, <2>1
  <2> QED
    BY <2>1, <2>2
<1>5. ASSUME HasUpsert(todo), Head(todo).kind # "upsert" PROVE HasUpsert(t)
  <2>1. PICK k \in 1..Len(todo) : todo[k].kind = "upsert"
    BY <1>5 DEF HasUpsert
  <2>2. k # 1
    BY <1>2, <1>5, <2>1
  <2> QED
    BY <1>4, <2>1, <2>2 DEF HasUpsert
<1>6. ASSUME UpsertsLast(todo), Head(todo).kind = "etf" PROVE HasUpsert(t)
  <2>1. 1 \in 1..Len(todo) /\ todo[1].kind = "etf"
    BY <1>1, <1>2, <1>6
  <2>2. 1 < Len(todo) /\ todo[Len(todo) - 1].kind = "upsert"
    BY <1>6, <2>1 DEF UpsertsLast
  <2>3. Len(todo) - 1 \in 1..Len(todo)
    BY <1>1, <2>2
  <2>4. HasUpsert(todo)
    BY <2>2, <2>3 DEF HasUpsert
  <2> QED
    BY <1>5, <1>6, <2>4
<1>7. ASSUME UpsertsLast(todo) PROVE UpsertsLast(t)
  <2> SUFFICES ASSUME NEW i \in 1..Len(t), t[i].kind \in {"etf", "upsert"}
               PROVE  /\ i < Len(t) /\ t[Len(t) - 1].kind = "upsert"
                      /\ \A j \in 1..(Len(t) - 1) : t[j].kind # "commit"
    BY DEF UpsertsLast
  <2>1. /\ i + 1 < Len(todo) /\ todo[Len(todo) - 1].kind = "upsert"
        /\ \A j \in 1..(Len(todo) - 1) : todo[j].kind # "commit"
    <3>1. i + 1 \in 1..Len(todo) /\ todo[i + 1].kind \in {"etf", "upsert"}
      BY <1>2, <1>3
    <3> QED
      BY <1>7, <3>1 DEF UpsertsLast
  <2>2. i < Len(t) /\ Len(t) - 1 \in 1..Len(t) /\ (Len(t) - 1) + 1 = Len(todo) - 1
    BY <1>1, <1>2, <2>1
  <2>3. t[Len(t) - 1] = todo[(Len(t) - 1) + 1]
    BY <1>2, <2>2
  <2>4. ASSUME NEW j \in 1..(Len(t) - 1) PROVE t[j].kind # "commit"
    <3>1. j \in 1..Len(t) /\ j + 1 \in 1..(Len(todo) - 1)
      BY <1>1, <1>2, <2>2
    <3> QED
      BY <1>2, <2>1, <3>1
  <2> QED
    BY <2>1, <2>2, <2>3, <2>4
<1> QED
  BY <1>5, <1>6, <1>7 DEF t

\* At a commit nothing of the ETF flows is left to do.
LEMMA NoUpsertAtCommit ==
  ASSUME NEW todo, Ordered(todo), UpsertsLast(todo), Head(todo).kind = "commit"
  PROVE  ~HasUpsert(todo)
<1>1. Len(todo) \in Nat /\ Len(todo) >= 1 /\ Head(todo) = todo[1]
  BY TailOrdered DEF Ordered
<1> SUFFICES ASSUME NEW k \in 1..Len(todo), todo[k].kind = "upsert" PROVE FALSE
  BY DEF HasUpsert
<1>2. /\ k < Len(todo) /\ \A j \in 1..(Len(todo) - 1) : todo[j].kind # "commit"
  BY DEF UpsertsLast
<1>3. 1 \in 1..(Len(todo) - 1)
  BY <1>1, <1>2
<1> QED
  BY <1>1, <1>2, <1>3

\* A run does not return to another kind of session.
LEMMA GoesOrdered ==
  ASSUME RunsOK, RunsOK', NEW r \in Runs, IsOpen(r), Goes(run[r], run'[r]), IsOpen(r)'
  PROVE  /\ InSession(r) => InSession(r)'
         /\ UpsertsLast(run[r].todo) => UpsertsLast(run'[r].todo)
<1>1. Ordered(run[r].todo) /\ Ordered(run'[r].todo)
  BY DEF RunsOK, RunOK
<1>2. run'[r].todo = run[r].todo \/ (Len(run[r].todo) # 1 /\ run'[r].todo = Tail(run[r].todo))
  BY DEF Goes, IsOpen
<1>3. AllPrices(run'[r].todo) => AllPrices(run[r].todo)
  BY <1>1, <1>2, TailOrdered
<1>4. ~(AllPrices(run[r].todo) /\ CommitsLast(run[r].todo))
  <2>1. Len(run[r].todo) \in Nat /\ Len(run[r].todo) >= 1
    BY <1>1 DEF Ordered
  <2>2. Len(run[r].todo) \in 1..Len(run[r].todo)
    BY <2>1
  <2> QED
    BY <2>2 DEF AllPrices, CommitsLast
<1>5. InSession(r) => InSession(r)'
  BY <1>1, <1>3, <1>4 DEF InSession, Ordered
<1>6. UpsertsLast(run[r].todo) => UpsertsLast(run'[r].todo)
  BY <1>1, <1>2, TailUpserts
<1> QED
  BY <1>5, <1>6

\* A run that takes a step keeps its plan, and the others theirs.
LEMMA TimesKept ==
  ASSUME RunsOK, RunsOK', TimesOK, clock' = clock, met' = met,
         \A q \in Runs : run'[q] = run[q] \/ (IsOpen(q) /\ Goes(run[q], run'[q]))
  PROVE  TimesOK'
<1>1. ASSUME NEW q \in Runs PROVE PlanOK(q)'
  <2>1. PlanOK(q) /\ clock \in Nat
    BY BoundsAssumption DEF TimesOK
  <2>2. CASE run'[q] = run[q]
    BY <2>1, <2>2 DEF PlanOK, IsOpen
  <2>3. CASE IsOpen(q) /\ Goes(run[q], run'[q])
    <3>1. run'[q].since \in 0..clock
      BY <2>1, <2>3 DEF Goes, PlanOK
    <3>2. IsOpen(q)' => UpsertsLast(run'[q].todo)
      BY <2>1, <2>3, GoesOrdered DEF PlanOK
    <3> QED
      BY <3>1, <3>2 DEF PlanOK
  <2> QED
    BY <2>2, <2>3
<1> QED
  BY <1>1 DEF TimesOK

----------------------------------------------------------------------------
(* The places of the checks *)

\* The new place lies behind all the others.
LEMMA NewPlaceFacts ==
  ASSUME PlacesOK
  PROVE  /\ NewPlace \in Nat /\ NewPlace >= 1
         /\ \A i \in DOMAIN checks : i \in Nat /\ i >= 1 /\ i < NewPlace
<1> DEFINE D == DOMAIN checks
           S == D \cup {0}
<1>1. PICK n \in Nat : D \in SUBSET (1..n)
  BY DEF PlacesOK
<1> HIDE DEF D
<1>2. \E t \in S : \A s \in S : t >= s
  <2>1. CASE D = {}
    BY <2>1
  <2>2. CASE D # {}
    <3>1. PICK t \in D : \A s \in D : s <= t
      BY <1>1, <2>2, GreatestExists
    <3>2. t \in 1..n /\ \A s \in D : s \in 1..n
      BY <1>1
    <3>3. t >= 0 /\ \A s \in D : t >= s
      BY <3>1, <3>2
    <3> QED
      BY <3>3
  <2> QED
    BY <2>1, <2>2
<1>3. Max(S) \in S /\ \A s \in S : Max(S) >= s
  <2> HIDE DEF S
  <2> QED
    BY <1>2, Zenon DEF Max
<1>4. PICK m : m = Max(S)
  OBVIOUS
<1>5. \A s \in S : s \in Nat /\ (s # 0 => s >= 1)
  BY <1>1
<1>6. m \in Nat /\ \A s \in S : m >= s
  BY <1>3, <1>4, <1>5
<1>7. NewPlace = m + 1
  BY <1>4 DEF NewPlace, D
<1>8. \A i \in D : i \in S /\ i >= 1
  BY <1>1
<1>9. \A i \in D : i \in Nat /\ i >= 1 /\ i < m + 1
  BY <1>5, <1>6, <1>8
<1> QED
  BY <1>6, <1>7, <1>9 DEF D

\* Checks that stay, or are rolled back, stay in order.
LEMMA PlacesKept ==
  ASSUME PlacesOK, DOMAIN checks' \subseteq DOMAIN checks,
         \A i \in DOMAIN checks' : checks'[i].at = checks[i].at,
         clock \in Nat, clock' \in Nat, clock <= clock'
  PROVE  PlacesOK'
<1>1. \E n \in Nat : DOMAIN checks' \subseteq 1..n
  BY DEF PlacesOK
<1>2. \A i \in DOMAIN checks' : checks'[i].at \in 0..clock'
  <2> SUFFICES ASSUME NEW i \in DOMAIN checks' PROVE checks'[i].at \in 0..clock'
    OBVIOUS
  <2>1. checks[i].at \in 0..clock /\ checks'[i].at = checks[i].at
    BY DEF PlacesOK
  <2> QED
    BY <2>1
<1>3. \A i, j \in DOMAIN checks' : i < j => checks'[i].at <= checks'[j].at
  <2> SUFFICES ASSUME NEW i \in DOMAIN checks', NEW j \in DOMAIN checks', i < j
               PROVE  checks'[i].at <= checks'[j].at
    OBVIOUS
  <2>1. checks[i].at <= checks[j].at
    BY DEF PlacesOK
  <2> QED
    BY <2>1
<1> QED
  BY <1>1, <1>2, <1>3 DEF PlacesOK

\* A check made now comes last.
LEMMA PlacesExtended ==
  ASSUME PlacesOK, clock \in Nat, clock' = clock, NEW c, c.at = clock, checks' = WithCheck(c)
  PROVE  /\ PlacesOK'
         /\ DOMAIN checks' = DOMAIN checks \cup {NewPlace}
         /\ checks'[NewPlace] = c
         /\ \A i \in DOMAIN checks : checks'[i] = checks[i]
<1>1. PICK p : p = NewPlace
  OBVIOUS
<1>2. p \in Nat /\ p >= 1 /\ \A i \in DOMAIN checks : i \in Nat /\ i >= 1 /\ i < p
  BY <1>1, NewPlaceFacts
<1>3. checks' = [i \in DOMAIN checks \cup {p} |-> IF i = p THEN c ELSE checks[i]]
  BY <1>1 DEF WithCheck
<1>4. DOMAIN checks' = DOMAIN checks \cup {p} /\ checks'[p] = c
  BY <1>3
<1>5. \A i \in DOMAIN checks : checks'[i] = checks[i]
  BY <1>2, <1>3
<1>6. DOMAIN checks' \subseteq 1..p
  BY <1>2, <1>4
<1>7. \A i \in DOMAIN checks' : checks'[i].at \in 0..clock
  <2> SUFFICES ASSUME NEW i \in DOMAIN checks' PROVE checks'[i].at \in 0..clock
    OBVIOUS
  <2>1. CASE i = p
    BY <1>4, <2>1
  <2>2. CASE i \in DOMAIN checks
    BY <1>5, <2>2 DEF PlacesOK
  <2> QED
    BY <1>4, <2>1, <2>2
<1>8. ASSUME NEW i \in DOMAIN checks', NEW j \in DOMAIN checks', i < j
      PROVE  checks'[i].at <= checks'[j].at
  <2>1. i \in DOMAIN checks
    <3>1. i = p => ~(i < j)
      BY <1>2, <1>4
    <3> QED
      BY <1>4, <1>8, <3>1
  <2>2. CASE j = p
    <3>1. checks'[j].at = clock /\ checks'[i].at \in 0..clock
      BY <1>4, <1>7, <2>2
    <3> QED
      BY <3>1
  <2>3. CASE j \in DOMAIN checks
    BY <1>5, <1>8, <2>1, <2>3 DEF PlacesOK
  <2> QED
    BY <1>4, <2>2, <2>3
<1> QED
  BY <1>1, <1>4, <1>5, <1>6, <1>7, <1>8 DEF PlacesOK

----------------------------------------------------------------------------
(* Steps that neither commit nor roll back *)

Same(x, z) == z.table = x.table /\ z.key = x.key /\ z.run = x.run /\ z.txn = x.txn

\* Every row is still there, if only deleted.
RowsLast == \A x \in rows : \E z \in rows' : Same(x, z)

\* Rows stay sound when each is an old one or sound by itself, and no
\* transaction that holds one ends unnoticed.
LEMMA RowsKept ==
  ASSUME RowsOK, clock \in Nat, clock' \in Nat, clock <= clock', RowsLast,
         \A z \in rows' : z \in rows \/ RowOK(z)',
         \A x \in rows : x.txn # 0 => IsOpen(x.txn)',
         \A x \in rows : x.dead # 0 => InSession(x.dead)'
  PROVE  RowsOK'
<1> SUFFICES ASSUME NEW x \in rows, x \in rows' PROVE RowOK(x)'
  BY DEF RowsOK
<1>1. RowOK(x)
  BY DEF RowsOK
<1>2. x.run \in Runs /\ x.at \in 0..clock' /\ x.dead \in Runs
  BY <1>1 DEF RowOK
<1>3. x.dead # 0 /\ x.table = "etf" =>
        \E y \in rows' : y.table = "etf" /\ y.key = x.key /\ y.txn = x.dead
  BY <1>1 DEF RowOK, RowsLast, Same
<1> QED
  BY <1>1, <1>2, <1>3 DEF RowOK

\* A check that nobody changes.
LEMMA CheckKept ==
  ASSUME NEW c, CheckOK(c), RowsLast,
         run'[c.run].pc # "unused",
         c.txn # 0 /\ InSession(c.txn) => InSession(c.txn)',
         run[c.run].pc = "aborted" => run'[c.run].pc = "aborted",
         Coming(c) => Backed(c)'
  PROVE  CheckOK(c)'
<1>1. Complete(c) => Complete(c)'
  <2> SUFFICES ASSUME Complete(c), NEW i \in DOMAIN Assets
               PROVE  \E x \in Committed("prices")' : x.run = c.run /\ x.key = <<c.source, Assets[i]>>
    BY DEF Complete
  <2>1. PICK x \in rows :
          x.table = "prices" /\ x.txn = 0 /\ x.run = c.run /\ x.key = <<c.source, Assets[i]>>
    BY DEF Complete, Committed
  <2>2. PICK z \in rows' : Same(x, z)
    BY DEF RowsLast
  <2> QED
    BY <2>1, <2>2 DEF Same, Committed
<1>2. (\E x \in rows : Stands(x, c)) => \E x \in rows' : Stands(x, c)
  BY DEF RowsLast, Same, Stands
<1>3. Backed(c) => Backed(c)'
  BY <1>1, <1>2, Zenon DEF Backed
<1> QED
  BY <1>3, Zenon DEF CheckOK

\* A step of r that makes at most one check, and leaves all rows.
Quiet(r) ==
  /\ IsOpen(r) /\ clock' = clock /\ met' = met
  /\ \A q \in Runs \ {r} : run'[q] = run[q]
  /\ Goes(run[r], run'[r])
  /\ IsOpen(r)' \/ (Written(r) = {} /\ AllPrices(run[r].todo))
  /\ RowsLast
  /\ \A z \in rows' : z \in rows \/ RowOK(z)'

\* What the step does for the checks of r.
Backs(r) == \A c : CheckOK(c) /\ c.run = r /\ Coming(c) => Backed(c)'

MakesCheck == checks' = checks \/ \E c : checks' = WithCheck(c) /\ c.at = clock /\ CheckOK(c)'

\* Only prices are left, or none.
LEMMA KindOfSession ==
  ASSUME RunsOK, NEW r \in Runs, IsOpen(r)
  PROVE  /\ InSession(r) <=> ~AllPrices(run[r].todo)
         /\ AllPrices(run[r].todo) <=> Todo(r).kind = "prices"
<1>1. Ordered(run[r].todo)
  BY OpenFacts
<1>2. Len(run[r].todo) \in 1..Len(run[r].todo)
  <2>1. Len(run[r].todo) \in Nat /\ Len(run[r].todo) >= 1
    BY <1>1 DEF Ordered
  <2> QED
    BY <2>1
<1>3. ~(AllPrices(run[r].todo) /\ CommitsLast(run[r].todo))
  BY <1>2 DEF AllPrices, CommitsLast
<1> QED
  BY <1>1, <1>3, TailOrdered DEF Ordered, InSession, Todo

\* A step within a transaction, with at most one new check, keeps the
\* invariant.
LEMMA QuietKept ==
  ASSUME CollectionInv, RunsOK', ChecksInv, NEW r \in Runs, Quiet(r), Backs(r), MakesCheck
  PROVE  ChecksInv'
<1>1. RunsOK /\ r \in Runs /\ IsOpen(r) /\ clock \in Nat /\ clock' = clock /\ r # 0
  BY OpenFacts, BoundsAssumption DEF CollectionInv, ChecksInv, TimesOK, Quiet
<1>2. TimesOK'
  BY <1>1, TimesKept DEF ChecksInv, Quiet
<1>3. \A q \in Runs : InSession(q) => InSession(q)'
  <2> SUFFICES ASSUME NEW q \in Runs, InSession(q) PROVE InSession(q)'
    OBVIOUS
  <2>1. CASE q = r
    <3>1. IsOpen(r)'
      BY <1>1, <2>1, KindOfSession DEF Quiet
    <3> QED
      BY <1>1, <2>1, <3>1, GoesOrdered DEF Quiet
  <2>2. CASE q # r
    BY <2>2 DEF InSession, IsOpen, Quiet
  <2> QED
    BY <2>1, <2>2
<1>4. RowsOK'
  <2>1. ASSUME NEW x \in rows, x.txn # 0 PROVE IsOpen(x.txn)'
    <3>1. x.txn \in Runs /\ IsOpen(x.txn)
      BY <2>1 DEF ChecksInv, RowsOK, RowOK
    <3>2. CASE x.txn = r
      BY <3>2 DEF Quiet, Written
    <3>3. CASE x.txn # r
      BY <3>1, <3>3 DEF Quiet, IsOpen
    <3> QED
      BY <3>2, <3>3
  <2>2. ASSUME NEW x \in rows, x.dead # 0 PROVE InSession(x.dead)'
    BY <1>3, <2>2 DEF ChecksInv, RowsOK, RowOK
  <2> QED
    BY <1>1, <2>1, <2>2, RowsKept DEF Quiet, ChecksInv
<1>5. ASSUME NEW c, CheckOK(c) PROVE CheckOK(c)'
  <2>1. c.run \in Runs /\ run[c.run].pc # "unused" /\ (c.txn # 0 => c.txn = c.run)
    BY <1>5 DEF CheckOK
  <2>2. run'[c.run].pc # "unused"
    BY <2>1 DEF Quiet, Goes, OpenPcs
  <2>3. c.txn # 0 /\ InSession(c.txn) => InSession(c.txn)'
    BY <1>3, <2>1
  <2>4. run[c.run].pc = "aborted" => run'[c.run].pc = "aborted"
    BY <2>1 DEF Quiet, IsOpen, OpenPcs
  <2>5. Coming(c) => Backed(c)'
    <3>1. CASE c.run = r
      BY <1>5, <3>1 DEF Backs
    <3>2. CASE c.run # r
      <4>1. run'[c.run] = run[c.run]
        BY <2>1, <3>2 DEF Quiet
      <4>2. Coming(c)' = Coming(c)
        BY <4>1 DEF Coming, Todo
      <4> QED
        BY <4>2 DEF Backed
    <3> QED
      BY <3>1, <3>2
  <2> QED
    BY <1>5, <2>2, <2>3, <2>4, <2>5, CheckKept DEF Quiet
<1>6. PlacesOK' /\ ChecksOK'
  <2>1. CASE checks' = checks
    <3>1. PlacesOK'
      BY <1>1, <2>1, PlacesKept DEF ChecksInv
    <3>2. Made' = Made
      BY <2>1 DEF Made
    <3>3. ChecksOK'
      BY <1>5, <3>2 DEF ChecksInv, ChecksOK
    <3> QED
      BY <3>1, <3>3
  <2>2. CASE \E c : checks' = WithCheck(c) /\ c.at = clock /\ CheckOK(c)'
    <3>1. PICK d : checks' = WithCheck(d) /\ d.at = clock /\ CheckOK(d)'
      BY <2>2
    <3>2. /\ PlacesOK'
          /\ DOMAIN checks' = DOMAIN checks \cup {NewPlace}
          /\ checks'[NewPlace] = d
          /\ \A i \in DOMAIN checks : checks'[i] = checks[i]
      BY <1>1, <3>1, PlacesExtended DEF ChecksInv
    <3>3. Made' = Made \cup {d}
      BY <3>2 DEF Made
    <3>4. ChecksOK'
      BY <1>5, <3>1, <3>3 DEF ChecksInv, ChecksOK
    <3> QED
      BY <3>2, <3>4
  <2> QED
    BY <2>1, <2>2 DEF MakesCheck
<1> QED
  BY <1>2, <1>4, <1>6 DEF ChecksInv

----------------------------------------------------------------------------
(* What the steps of a run have in common *)

\* What a step does to one run it does to no other.
LEMMA RunSet ==
  ASSUME RunsOK, NEW r \in Runs, NEW w, run' = [run EXCEPT ![r] = w]
  PROVE  run'[r] = w /\ \A q \in Runs \ {r} : run'[q] = run[q]
<1>1. run = [q \in Runs |-> run[q]]
  BY DEF RunsOK
<1> QED
  BY <1>1

\* A row just inserted is sound.
LEMMA NewRowOK ==
  ASSUME ChecksInv, NEW r \in Runs, IsOpen(r)', clock' = clock, NEW table, NEW key,
         NEW n, n = NewRow(r, table, key)
  PROVE  RowOK(n)'
<1>1. n.run = r /\ n.txn = r /\ n.dead = 0 /\ n.at = run[r].since
  BY NewRowFacts
<1>2. 0 \in Runs /\ run[r].since \in 0..clock
  BY BoundsAssumption DEF Runs, ChecksInv, TimesOK, PlanOK
<1> QED
  BY <1>1, <1>2 DEF RowOK

\* What a new check says.
LEMMA NewCheckFacts ==
  ASSUME NEW r, NEW outcome, NEW txn
  PROVE  \E c : /\ c = NewCheck(r, outcome, txn) /\ CheckShape(c)
                /\ c.source = SourceOf(Todo(r)) /\ c.target = Todo(r)
                /\ c.ok \in BOOLEAN /\ (c.ok <=> outcome.check = "ok")
                /\ c.data = outcome.data
                /\ c.at = clock /\ c.run = r /\ c.txn = txn
<1> WITNESS NewCheck(r, outcome, txn)
<1> QED
  BY DEF NewCheck, CheckShape

\* A run that is not at its last target moves on.
LEMMA MovesOn ==
  ASSUME CollectionInv, NEW r \in Runs, IsOpen(r), Todo(r).kind \notin {"prices", "commit"}
  PROVE  /\ Len(run[r].todo) # 1
         /\ Goes(run[r], Advanced(run[r]))
         /\ Shows(Advanced(run[r]), "fetch", Tail(run[r].todo), run[r].since, run[r].got)
         /\ InSession(r)
<1>1. RunShape(run[r]) /\ Ordered(run[r].todo)
  BY OpenFacts DEF CollectionInv
<1>2. Len(run[r].todo) # 1
  BY <1>1, TailOrdered DEF Todo
<1>3. InSession(r)
  BY KindOfSession DEF CollectionInv
<1> QED
  BY <1>1, <1>2, <1>3, AdvancedGoes, AdvancedShows

\* Fetching does not write the ETF flows that are still to be written.
LEMMA FetchBacks ==
  ASSUME CollectionInv, NEW r \in Runs, run[r].pc = "fetch", Todo(r).kind # "upsert",
         run[r].got \subseteq run'[r].got,
         \/ run'[r].todo = run[r].todo
         \/ Len(run[r].todo) # 1 /\ run'[r].todo = Tail(run[r].todo)
  PROVE  Backs(r)
<1> SUFFICES ASSUME NEW c, CheckOK(c), c.run = r, Coming(c) PROVE Backed(c)'
  BY DEF Backs
<1>1. /\ c.target.kind = "etf" /\ c.txn # 0
      /\ c.target.of \in run[r].got /\ HasUpsert(run[r].todo)
  BY DEF Coming, Replacing
<1>2. Ordered(run[r].todo)
  BY OpenFacts DEF CollectionInv, IsOpen, OpenPcs
<1>3. HasUpsert(run'[r].todo)
  BY <1>1, <1>2, TailUpserts DEF Todo
<1>4. Coming(c)'
  BY <1>1, <1>3 DEF Coming
<1> QED
  BY <1>4 DEF Backed

\* A check that a session records.
LEMMA Records ==
  ASSUME RunsOK, RunsOK', NEW r \in Runs, IsOpen(r), InSession(r)', NEW outcome,
         Todo(r).kind # "prices",
         checks' = Recorded(r, outcome),
         outcome.check = "ok" => \/ ~outcome.data /\ Todo(r).kind = "etf"
                                 \/ outcome.data = TRUE /\
                                    \A c : c.target = Todo(r) /\ c.run = r /\ c.txn = r => Backed(c)'
  PROVE  MakesCheck
<1>1. CASE outcome.check = "none"
  BY <1>1 DEF Recorded, MakesCheck
<1>2. CASE outcome.check # "none"
  <2>1. PICK c : /\ c = NewCheck(r, outcome, r) /\ CheckShape(c)
                 /\ c.source = SourceOf(Todo(r)) /\ c.target = Todo(r)
                 /\ c.ok \in BOOLEAN /\ (c.ok <=> outcome.check = "ok")
                 /\ c.data = outcome.data
                 /\ c.at = clock /\ c.run = r /\ c.txn = r
    BY NewCheckFacts
  <2>2. checks' = WithCheck(c)
    BY <1>2, <2>1, Zenon DEF Recorded
  <2>3. run'[r].pc # "unused"
    BY DEF InSession, IsOpen, OpenPcs
  <2>4. c.ok => IF c.data THEN Backed(c)' ELSE c.target.kind = "etf"
    BY <2>1
  <2>5. CheckOK(c)'
    BY <2>1, <2>3, <2>4 DEF CheckOK
  <2> QED
    BY <2>1, <2>2, <2>5 DEF MakesCheck
<1> QED
  BY <1>1, <1>2

----------------------------------------------------------------------------
(* The ingestion *)

\* An ok check of prices comes before its snapshots.
LEMMA TrackFetchQuiet ==
  ASSUME CollectionInv, RunsOK', ChecksInv, NEW r \in Runs, TrackFetch(r)
  PROVE  ChecksInv'
<1>1. /\ IsOpen(r) /\ run[r].pc = "fetch" /\ Todo(r).kind = "prices"
      /\ clock' = clock /\ met' = met /\ rows' = rows
  BY DEF TrackFetch, At, IsOpen, OpenPcs
<1>2. PICK reply : LET outcome == SourceBatch(Todo(r).of, reply)
                   IN  /\ checks' = WithCheck(NewCheck(r, outcome, 0))
                       /\ run' = [run EXCEPT ![r] = IF outcome.data THEN [@ EXCEPT !.pc = "store"]
                                                                    ELSE Advanced(@)]
  BY Zenon DEF TrackFetch
<1>3. PICK outcome : outcome = SourceBatch(Todo(r).of, reply)
  OBVIOUS
<1>4. outcome.data \in BOOLEAN /\ (outcome.check = "ok" => outcome.data)
  BY <1>3 DEF SourceBatch, Checked, Fetched, Failed
<1>5. PICK c : /\ c = NewCheck(r, outcome, 0) /\ CheckShape(c)
               /\ c.source = SourceOf(Todo(r)) /\ c.target = Todo(r)
               /\ c.ok \in BOOLEAN /\ (c.ok <=> outcome.check = "ok")
               /\ c.data = outcome.data
               /\ c.at = clock /\ c.run = r /\ c.txn = 0
  BY NewCheckFacts
<1>6. checks' = WithCheck(c)
  BY <1>2, <1>3, <1>5, Zenon
<1>7. RunShape(run[r]) /\ AllPrices(run[r].todo)
  BY <1>1, OpenFacts, KindOfSession DEF CollectionInv
<1>8. /\ \A q \in Runs \ {r} : run'[q] = run[q]
      /\ Goes(run[r], run'[r])
      /\ outcome.data => run'[r].pc = "store" /\ run'[r].todo = run[r].todo
  <2>1. CASE outcome.data
    <3> DEFINE w == [run[r] EXCEPT !.pc = "store"]
    <3>1. run' = [run EXCEPT ![r] = w]
      BY <1>2, <1>3, <2>1, Zenon
    <3>2. Shows(w, "store", run[r].todo, run[r].since, run[r].got)
      BY <1>7, RunShows, Zenon
    <3> HIDE DEF w
    <3>3. run'[r] = w /\ \A q \in Runs \ {r} : run'[q] = run[q]
      BY <3>1, RunSet DEF CollectionInv
    <3> QED
      BY <3>2, <3>3 DEF Shows, Goes, OpenPcs
  <2>2. CASE ~outcome.data
    <3>1. run' = [run EXCEPT ![r] = Advanced(run[r])]
      BY <1>2, <1>3, <2>2, Zenon
    <3>2. run'[r] = Advanced(run[r]) /\ \A q \in Runs \ {r} : run'[q] = run[q]
      BY <3>1, RunSet DEF CollectionInv
    <3> QED
      BY <1>7, <2>2, <3>2, AdvancedGoes
  <2> QED
    BY <2>1, <2>2
<1>9. Written(r) = {}
  BY <1>1, <1>7 DEF CollectionInv, PricesOK, BatchOK
<1>10. Quiet(r)
  BY <1>1, <1>7, <1>8, <1>9 DEF Quiet, RowsLast, Same
<1>11. Backs(r)
  <2> SUFFICES ASSUME NEW d, CheckOK(d), d.run = r, Coming(d) PROVE FALSE
    BY DEF Backs
  <2>1. d.txn # 0
    BY <1>1 DEF Coming
  <2>2. InSession(r)
    BY <2>1 DEF CheckOK
  <2> QED
    BY <1>1, <1>7, <2>2, KindOfSession DEF CollectionInv
<1>12. CheckOK(c)'
  <2>1. run'[r].pc # "unused"
    BY <1>8 DEF Goes, OpenPcs
  <2>2. ASSUME c.ok PROVE c.data /\ Backed(c)'
    <3>1. outcome.data
      BY <1>4, <1>5, <2>2
    <3>2. Coming(c)'
      BY <1>1, <1>5, <1>8, <3>1 DEF Coming, Todo
    <3> QED
      BY <1>5, <3>1, <3>2 DEF Backed
  <2> QED
    BY <1>5, <2>1, <2>2 DEF CheckOK
<1> QED
  BY <1>5, <1>6, <1>10, <1>11, <1>12, QuietKept DEF MakesCheck

\* A snapshot is added to the batch.
LEMMA StoreSnapshotQuiet ==
  ASSUME CollectionInv, RunsOK', ChecksInv, NEW r \in Runs, StoreSnapshot(r)
  PROVE  ChecksInv'
<1>1. /\ IsOpen(r) /\ IsOpen(r)' /\ clock' = clock /\ met' = met /\ run' = run /\ checks' = checks
  BY DEF StoreSnapshot, At, IsOpen, OpenPcs
<1>2. PICK n : /\ n = NewRow(r, "prices", <<Todo(r).of, NextAsset(r)>>)
               /\ rows' = rows \cup {n}
  BY Zenon DEF StoreSnapshot
<1>3. RowOK(n)'
  BY <1>1, <1>2, NewRowOK
<1>4. Goes(run[r], run'[r])
  BY <1>1 DEF Goes, IsOpen
<1>5. Quiet(r)
  BY <1>1, <1>2, <1>3, <1>4 DEF Quiet, RowsLast, Same
<1>6. \A c : Coming(c)' = Coming(c)
  BY <1>1 DEF Coming, Todo
<1>7. Backs(r) /\ MakesCheck
  BY <1>1, <1>6 DEF Backs, Backed, MakesCheck
<1> QED
  BY <1>5, <1>7, QuietKept
----------------------------------------------------------------------------
(* The other jobs *)

\* A job that fetches one value adds the row with the check.
LEMMA CollectOneQuiet ==
  ASSUME CollectionInv, RunsOK', ChecksInv, NEW r \in Runs, NEW kind, NEW outcomes,
         CollectOne(r, kind, outcomes), kind \in {"btc_dominance", "fear_greed", "liquidations"},
         \A outcome \in outcomes :
           outcome.data \in BOOLEAN /\ (outcome.check = "ok" => outcome.data)
  PROVE  ChecksInv'
<1>1. /\ IsOpen(r) /\ run[r].pc = "fetch" /\ Todo(r).kind = kind
      /\ Todo(r).kind \notin {"prices", "commit", "upsert"}
      /\ clock' = clock /\ met' = met
  BY DEF CollectOne, At, IsOpen, OpenPcs
<1>2. run' = [run EXCEPT ![r] = Advanced(run[r])]
  BY Zenon DEF CollectOne
<1>3. PICK outcome \in outcomes :
        /\ checks' = Recorded(r, outcome)
        /\ rows' = IF outcome.data THEN rows \cup {NewRow(r, kind, Todo(r).of)} ELSE rows
  BY Zenon DEF CollectOne
<1>4. PICK n : /\ n = NewRow(r, kind, Todo(r).of)
               /\ n.table = kind /\ n.key = Todo(r).of /\ n.run = r /\ n.txn = r
  BY NewRowFacts
<1>5. /\ outcome.data => rows' = rows \cup {n}
      /\ ~outcome.data => rows' = rows
  BY <1>3, <1>4, Zenon
<1>6. /\ run'[r] = Advanced(run[r]) /\ Len(run[r].todo) # 1
      /\ Goes(run[r], run'[r]) /\ \A q \in Runs \ {r} : run'[q] = run[q]
      /\ Shows(run'[r], "fetch", Tail(run[r].todo), run[r].since, run[r].got)
      /\ InSession(r)
  <2>1. run'[r] = Advanced(run[r]) /\ \A q \in Runs \ {r} : run'[q] = run[q]
    BY <1>2, RunSet DEF CollectionInv
  <2> QED
    BY <1>1, <2>1, MovesOn
<1>7. run'[r].pc = "fetch" /\ run'[r].todo = Tail(run[r].todo) /\ run'[r].got = run[r].got
  BY <1>6 DEF Shows
<1>8. IsOpen(r)' /\ InSession(r)'
  <2>1. IsOpen(r)'
    BY <1>7 DEF IsOpen, OpenPcs
  <2> QED
    BY <1>1, <1>6, <2>1, GoesOrdered DEF CollectionInv
<1>9. RowOK(n)'
  BY <1>1, <1>4, <1>8, NewRowOK
<1>10. Quiet(r)
  BY <1>1, <1>3, <1>5, <1>6, <1>8, <1>9 DEF Quiet, RowsLast, Same
<1>11. Backs(r)
  BY <1>1, <1>6, <1>7, FetchBacks
<1>12. ASSUME outcome.check = "ok", NEW c, c.target = Todo(r), c.run = r, c.txn = r
       PROVE  Backed(c)'
  <2>1. n \in rows'
    BY <1>3, <1>5, <1>12
  <2>2. Stands(n, c)
    BY <1>1, <1>4, <1>12 DEF Stands
  <2>3. c.target.kind # "prices"
    BY <1>1, <1>12
  <2> QED
    BY <2>1, <2>2, <2>3 DEF Backed
<1>13. MakesCheck
  BY <1>1, <1>3, <1>8, <1>12, Records DEF CollectionInv
<1> QED
  BY <1>10, <1>11, <1>13, QuietKept

\* The flows of an asset are fetched, to be written by the upsert.
LEMMA CollectEtfFlowsQuiet ==
  ASSUME CollectionInv, RunsOK', ChecksInv, NEW r \in Runs, CollectEtfFlows(r)
  PROVE  ChecksInv'
<1>1. /\ IsOpen(r) /\ run[r].pc = "fetch" /\ Todo(r).kind = "etf"
      /\ clock' = clock /\ met' = met /\ rows' = rows
  BY DEF CollectEtfFlows, CollectMany, At, IsOpen, OpenPcs
<1> DEFINE v == Advanced(run[r])
<1>2. PICK outcome \in {EtfFlows(reply) : reply \in Replies} :
        /\ checks' = Recorded(r, outcome)
        /\ run' = [run EXCEPT ![r] =
             Holding(v, IF outcome.data THEN {Todo(r).of} ELSE {})]
  BY Zenon DEF CollectEtfFlows, CollectMany
<1>3. PICK reply \in Replies : outcome = EtfFlows(reply)
  OBVIOUS
<1>4. outcome.data \in BOOLEAN
  BY <1>3 DEF EtfFlows, ParseEtfFlows, Checked, Fetched, Failed, OkNoData
<1>5. PICK g : g = v.got \cup (IF outcome.data THEN {Todo(r).of} ELSE {})
  OBVIOUS
<1>6. run' = [run EXCEPT ![r] = [v EXCEPT !.got = g]]
  BY <1>2, <1>5, Zenon DEF Holding
<1>7. /\ Len(run[r].todo) # 1 /\ InSession(r)
      /\ Shows(v, "fetch", Tail(run[r].todo), run[r].since, run[r].got)
  BY <1>1, MovesOn
<1> HIDE DEF v
<1>8. Shows([v EXCEPT !.got = g], v.pc, v.todo, v.since, g)
  <2>1. RunShape(v)
    BY <1>7, Zenon DEF Shows
  <2> QED
    BY <2>1, RunShows, Zenon
<1>9. /\ run'[r].pc = "fetch" /\ run'[r].todo = Tail(run[r].todo)
      /\ run'[r].since = run[r].since /\ run'[r].got = g
      /\ \A q \in Runs \ {r} : run'[q] = run[q]
  <2> DEFINE w == [v EXCEPT !.got = g]
  <2>1. Shows(w, v.pc, v.todo, v.since, g) /\ run' = [run EXCEPT ![r] = w]
    BY <1>6, <1>8
  <2> HIDE DEF w
  <2>2. run'[r] = w /\ \A q \in Runs \ {r} : run'[q] = run[q]
    BY <2>1, RunSet DEF CollectionInv
  <2> QED
    BY <1>7, <2>1, <2>2 DEF Shows
<1>10. Goes(run[r], run'[r])
  BY <1>7, <1>9 DEF Goes, OpenPcs
<1>11. IsOpen(r)' /\ InSession(r)'
  <2>1. IsOpen(r)'
    BY <1>9 DEF IsOpen, OpenPcs
  <2> QED
    BY <1>1, <1>7, <1>10, <2>1, GoesOrdered DEF CollectionInv
<1>12. Quiet(r)
  BY <1>1, <1>9, <1>10, <1>11 DEF Quiet, RowsLast, Same
<1>13. /\ run[r].got \subseteq run'[r].got
       /\ outcome.data => Todo(r).of \in run'[r].got
  BY <1>5, <1>7, <1>9 DEF Shows
<1>14. Backs(r)
  BY <1>1, <1>7, <1>9, <1>13, FetchBacks
<1>15. HasUpsert(run'[r].todo)
  <2>1. Ordered(run[r].todo)
    BY <1>1, OpenFacts DEF CollectionInv
  <2>2. UpsertsLast(run[r].todo)
    BY <1>1 DEF ChecksInv, TimesOK, PlanOK
  <2> QED
    BY <1>1, <1>7, <1>9, <2>1, <2>2, TailUpserts DEF Todo
<1>16. r # 0
  BY <1>1, OpenFacts DEF CollectionInv
<1>17. ASSUME outcome.data, NEW c, c.target = Todo(r), c.run = r, c.txn = r
       PROVE  Backed(c)'
  <2>1. Coming(c)'
    BY <1>1, <1>13, <1>15, <1>16, <1>17 DEF Coming
  <2> QED
    BY <2>1 DEF Backed
<1>18. MakesCheck
  BY <1>1, <1>2, <1>4, <1>11, <1>17, Records DEF CollectionInv
<1> QED
  BY <1>12, <1>14, <1>18, QuietKept

\* The upsert writes all flows that were fetched, in the place of older ones.
LEMMA UpsertEtfFlowsQuiet ==
  ASSUME CollectionInv, RunsOK', ChecksInv, NEW r \in Runs, UpsertEtfFlows(r)
  PROVE  ChecksInv'
<1>1. /\ IsOpen(r) /\ run[r].pc = "fetch" /\ Todo(r).kind = "upsert"
      /\ clock' = clock /\ met' = met /\ checks' = checks
  BY DEF UpsertEtfFlows, At, IsOpen, OpenPcs
<1>2. run' = [run EXCEPT ![r] = Advanced(run[r])]
  BY Zenon DEF UpsertEtfFlows
<1>3. /\ run'[r] = Advanced(run[r]) /\ Len(run[r].todo) # 1
      /\ Goes(run[r], run'[r]) /\ \A q \in Runs \ {r} : run'[q] = run[q]
      /\ Shows(run'[r], "fetch", Tail(run[r].todo), run[r].since, run[r].got)
      /\ InSession(r)
  BY <1>1, <1>2, RunSet, MovesOn DEF CollectionInv
<1>4. IsOpen(r)' /\ InSession(r)'
  <2>1. IsOpen(r)'
    BY <1>3 DEF Shows, IsOpen, OpenPcs
  <2> QED
    BY <1>1, <1>3, <2>1, GoesOrdered DEF CollectionInv
<1> DEFINE old == {x \in rows : x.table = "etf" /\ x.key \in run[r].got}
           f(x) == [x EXCEPT !.dead = r]
           n(key) == NewRow(r, "etf", key)
<1>5. rows' = (rows \ old) \cup {f(x) : x \in old} \cup {n(key) : key \in run[r].got}
  BY Zenon DEF UpsertEtfFlows
<1>6. \A x \in rows : Becomes(x, f(x), x.txn, r)
  BY RowExcept, Zenon DEF CollectionInv, HeatsOK
<1>7. \A x \in old : x.txn = 0
  BY DEF UpsertEtfFlows
<1>8. \A key : n(key).table = "etf" /\ n(key).key = key /\ n(key).txn = r
  BY NewRowFacts
<1>9. ASSUME NEW key PROVE \A z : z = n(key) => RowOK(z)'
  BY <1>1, <1>4, NewRowOK
<1> HIDE DEF f, n
<1>10. ASSUME NEW z \in rows' PROVE z \in rows \/ RowOK(z)'
  <2>1. CASE \E x \in old : z = f(x)
    <3>1. PICK x \in old : z = f(x)
      BY <2>1
    <3>2. x \in rows /\ x.table = "etf" /\ x.key \in run[r].got /\ x.txn = 0
      BY <1>7
    <3>3. /\ z.table = x.table /\ z.key = x.key /\ z.at = x.at /\ z.run = x.run
          /\ z.txn = 0 /\ z.dead = r
      BY <1>6, <3>1, <3>2 DEF Becomes
    <3>4. x.run \in Runs /\ x.at \in 0..clock
      BY <3>2 DEF ChecksInv, RowsOK, RowOK
    <3>5. \E y \in rows' : y.table = "etf" /\ y.key = x.key /\ y.txn = r
      BY <1>5, <1>8, <3>2
    <3>6. RowOK(z)'
      BY <1>1, <1>4, <3>2, <3>3, <3>4, <3>5 DEF RowOK, Rewritten
    <3> QED
      BY <3>6
  <2>2. CASE \E key \in run[r].got : z = n(key)
    BY <1>9, <2>2
  <2> QED
    BY <1>5, <2>1, <2>2
<1>11. RowsLast
  <2> SUFFICES ASSUME NEW x \in rows PROVE \E z \in rows' : Same(x, z)
    BY DEF RowsLast
  <2>1. CASE x \in old
    BY <1>5, <1>6, <2>1 DEF Same, Becomes
  <2>2. CASE x \notin old
    BY <1>5, <2>2 DEF Same
  <2> QED
    BY <2>1, <2>2
<1>12. Quiet(r)
  BY <1>1, <1>3, <1>4, <1>10, <1>11 DEF Quiet
<1>13. Backs(r)
  <2> SUFFICES ASSUME NEW c, CheckOK(c), c.run = r, Coming(c) PROVE Backed(c)'
    BY DEF Backs
  <2>1. c.target.kind = "etf" /\ c.txn # 0 /\ c.target.of \in run[r].got
    BY <1>1 DEF Coming, Replacing
  <2>2. c.txn = r
    BY <2>1 DEF CheckOK
  <2>3. n(c.target.of) \in rows'
    BY <1>5, <2>1
  <2>4. Stands(n(c.target.of), c)
    BY <1>8, <2>1, <2>2 DEF Stands, Rewritten
  <2> QED
    BY <2>1, <2>3, <2>4 DEF Backed
<1> QED
  BY <1>1, <1>12, <1>13, QuietKept DEF MakesCheck

----------------------------------------------------------------------------
(* The heatmaps *)

\* An ok check of a heatmap comes before its buckets.
LEMMA FetchHeatmapQuiet ==
  ASSUME CollectionInv, RunsOK', ChecksInv, NEW r \in Runs, FetchHeatmap(r)
  PROVE  ChecksInv'
<1>1. /\ IsOpen(r) /\ run[r].pc = "fetch" /\ Todo(r).kind = "heatmap"
      /\ clock' = clock /\ met' = met /\ rows' = rows
  BY DEF FetchHeatmap, At, IsOpen, OpenPcs
<1>2. PICK outcome \in {Heatmap(Keyed, Priced(Todo(r).of[1]), reply) : reply \in Replies} :
        /\ checks' = Recorded(r, outcome)
        /\ run' = [run EXCEPT ![r] = IF outcome.data THEN [@ EXCEPT !.pc = "delete"]
                                                     ELSE Advanced(@)]
  BY Zenon DEF FetchHeatmap
<1>3. outcome.data \in BOOLEAN /\ (outcome.check = "ok" => outcome.data)
  <2>1. outcome = Unchecked \/ outcome = Fetched \/ outcome = Failed
    BY Zenon DEF Heatmap, Checked
  <2>2. /\ Fetched.data = TRUE /\ Failed.data = FALSE /\ Unchecked.data = FALSE
        /\ Failed.check # "ok" /\ Unchecked.check # "ok"
    BY DEF Fetched, Failed, Unchecked
  <2> QED
    BY <2>1, <2>2, Zenon
<1>4. /\ RunShape(run[r]) /\ InSession(r) /\ Len(run[r].todo) # 1
      /\ Shows(Advanced(run[r]), "fetch", Tail(run[r].todo), run[r].since, run[r].got)
  BY <1>1, OpenFacts, MovesOn DEF CollectionInv
<1>5. /\ \A q \in Runs \ {r} : run'[q] = run[q]
      /\ outcome.data => Shows(run'[r], "delete", run[r].todo, run[r].since, run[r].got)
      /\ ~outcome.data => Shows(run'[r], "fetch", Tail(run[r].todo), run[r].since, run[r].got)
  <2>1. CASE outcome.data
    <3> DEFINE w == [run[r] EXCEPT !.pc = "delete"]
    <3>1. run' = [run EXCEPT ![r] = w]
      BY <1>2, <2>1, Zenon
    <3>2. Shows(w, "delete", run[r].todo, run[r].since, run[r].got)
      BY <1>4, RunShows, Zenon
    <3> HIDE DEF w
    <3>3. run'[r] = w /\ \A q \in Runs \ {r} : run'[q] = run[q]
      BY <3>1, RunSet DEF CollectionInv
    <3> QED
      BY <2>1, <3>2, <3>3
  <2>2. CASE ~outcome.data
    <3>1. run' = [run EXCEPT ![r] = Advanced(run[r])]
      BY <1>2, <2>2, Zenon
    <3>2. run'[r] = Advanced(run[r]) /\ \A q \in Runs \ {r} : run'[q] = run[q]
      BY <3>1, RunSet DEF CollectionInv
    <3> QED
      BY <1>4, <2>2, <3>2
  <2> QED
    BY <2>1, <2>2
<1>6. Goes(run[r], run'[r]) /\ IsOpen(r)' /\ run'[r].got = run[r].got
  BY <1>3, <1>4, <1>5 DEF Shows, Goes, IsOpen, OpenPcs
<1>7. InSession(r)'
  BY <1>1, <1>4, <1>6, GoesOrdered DEF CollectionInv
<1>8. Quiet(r)
  BY <1>1, <1>5, <1>6 DEF Quiet, RowsLast, Same
<1>9. Backs(r)
  BY <1>1, <1>3, <1>4, <1>5, <1>6, FetchBacks DEF Shows
<1>10. r # 0
  BY <1>1, OpenFacts DEF CollectionInv
<1>11. ASSUME outcome.data, NEW c, c.target = Todo(r), c.run = r, c.txn = r
       PROVE  Backed(c)'
  <2>1. run'[r].pc = "delete" /\ Todo(r)' = Todo(r)
    BY <1>5, <1>11 DEF Shows, Todo
  <2>2. Coming(c)'
    BY <1>1, <1>10, <1>11, <2>1 DEF Coming, Replacing
  <2> QED
    BY <2>2 DEF Backed
<1>12. MakesCheck
  BY <1>1, <1>2, <1>3, <1>7, <1>11, Records DEF CollectionInv
<1> QED
  BY <1>8, <1>9, <1>12, QuietKept

\* The DELETE leaves a run at its heatmap, and its rows where they are.
LEMMA DeletingQuiet ==
  ASSUME CollectionInv, RunsOK', ChecksInv, NEW r \in Runs,
         run[r].pc \in {"delete", "deleting"}, NEW p \in Replacing, NEW sees,
         run' = [run EXCEPT ![r] = [run[r] EXCEPT !.pc = p, !.sees = sees]],
         clock' = clock, met' = met, checks' = checks,
         RowsLast,
         InSession(r)' => \A z \in rows' : z \in rows \/ RowOK(z)'
  PROVE  ChecksInv'
<1>1. IsOpen(r) /\ InSession(r) /\ RunShape(run[r])
  <2>1. IsOpen(r) /\ run[r].pc \in Replacing
    BY DEF IsOpen, OpenPcs, Replacing
  <2>2. Todo(r).kind = "heatmap"
    BY <2>1 DEF CollectionInv, RunsOK, RunOK
  <2> QED
    BY <2>1, <2>2, OpenFacts, KindOfSession DEF CollectionInv
<1> DEFINE w == [run[r] EXCEPT !.pc = p, !.sees = sees]
<1>2. Shows(w, p, run[r].todo, run[r].since, run[r].got)
  BY <1>1, RunShows, Zenon
<1> HIDE DEF w
<1>3. run'[r] = w /\ \A q \in Runs \ {r} : run'[q] = run[q]
  BY RunSet DEF CollectionInv, w
<1>4. /\ run'[r].pc = p /\ run'[r].todo = run[r].todo /\ run'[r].since = run[r].since
      /\ run'[r].got = run[r].got
  BY <1>2, <1>3 DEF Shows
<1>5. Goes(run[r], run'[r]) /\ IsOpen(r)'
  BY <1>4 DEF Goes, IsOpen, OpenPcs, Replacing
<1>6. InSession(r)'
  BY <1>1, <1>5, GoesOrdered DEF CollectionInv
<1>7. Quiet(r)
  BY <1>1, <1>3, <1>5, <1>6 DEF Quiet
<1>8. Backs(r)
  <2> SUFFICES ASSUME NEW c, CheckOK(c), c.run = r, Coming(c) PROVE Coming(c)'
    BY DEF Backs, Backed
  <2> QED
    BY <1>4 DEF Coming, Todo
<1> QED
  BY <1>7, <1>8, QuietKept DEF MakesCheck

\* The DELETE takes its snapshot.
LEMMA DeleteStartsQuiet ==
  ASSUME CollectionInv, RunsOK', ChecksInv, NEW r \in Runs, DeleteStarts(r)
  PROVE  ChecksInv'
<1>1. /\ run[r].pc = "delete" /\ rows' = rows
      /\ clock' = clock /\ met' = met /\ checks' = checks
  BY DEF DeleteStarts
<1>2. PICK sees : run' = [run EXCEPT ![r] = [run[r] EXCEPT !.pc = "deleting", !.sees = sees]]
  BY Zenon DEF DeleteStarts
<1>3. RowsLast /\ \A z \in rows' : z \in rows
  BY <1>1 DEF RowsLast, Same
<1> QED
  BY <1>1, <1>2, <1>3, DeletingQuiet DEF Replacing

\* It deletes committed buckets only.
LEMMA DeleteEndsQuiet ==
  ASSUME CollectionInv, RunsOK', ChecksInv, NEW r \in Runs, DeleteEnds(r)
  PROVE  ChecksInv'
<1>1. /\ run[r].pc = "deleting"
      /\ clock' = clock /\ met' = met /\ checks' = checks
  BY DEF DeleteEnds
<1>2. run' = [run EXCEPT ![r] = [run[r] EXCEPT !.pc = "insert", !.sees = {}]]
  BY Zenon DEF DeleteEnds
<1> DEFINE f(x) == [x EXCEPT !.dead = r]
<1>3. rows' = (rows \ Seen(r)) \cup {f(x) : x \in Seen(r)}
  BY Zenon DEF DeleteEnds
<1>4. \A x \in rows : Becomes(x, f(x), x.txn, r)
  BY RowExcept, Zenon DEF CollectionInv, HeatsOK
<1> HIDE DEF f
<1>5. \A x \in Seen(r) : x \in rows /\ x.table = "heatmap" /\ x.run \in run[r].sees
  BY DEF Seen
<1>6. ASSUME NEW x \in Seen(r) PROVE x.txn = 0
  <2>1. Ended(x.run)
    BY <1>1, <1>5 DEF CollectionInv, RunsOK, RunOK
  <2>2. x.txn # 0 => x.txn = x.run /\ IsOpen(x.txn)
    BY <1>5 DEF ChecksInv, RowsOK, RowOK
  <2> QED
    BY <2>1, <2>2 DEF Ended, IsOpen, OpenPcs
<1>7. RowsLast
  <2> SUFFICES ASSUME NEW x \in rows PROVE \E z \in rows' : Same(x, z)
    BY DEF RowsLast
  <2>1. CASE x \in Seen(r)
    BY <1>3, <1>4, <2>1 DEF Same, Becomes
  <2>2. CASE x \notin Seen(r)
    BY <1>3, <2>2 DEF Same
  <2> QED
    BY <2>1, <2>2
<1>8. ASSUME InSession(r)', NEW z \in rows', z \notin rows PROVE RowOK(z)'
  <2>1. PICK x \in Seen(r) : z = f(x)
    BY <1>3, <1>8
  <2>2. /\ z.table = "heatmap" /\ z.at = x.at /\ z.run = x.run /\ z.txn = 0 /\ z.dead = r
    BY <1>4, <1>5, <1>6, <2>1 DEF Becomes
  <2>3. x.run \in Runs /\ x.at \in 0..clock
    BY <1>5 DEF ChecksInv, RowsOK, RowOK
  <2> QED
    BY <1>1, <1>8, <2>2, <2>3 DEF RowOK, Rewritten
<1> QED
  BY <1>1, <1>2, <1>7, <1>8, DeletingQuiet DEF Replacing

\* The buckets that a check has promised are inserted.
LEMMA InsertBucketsQuiet ==
  ASSUME CollectionInv, RunsOK', ChecksInv, NEW r \in Runs, InsertBuckets(r)
  PROVE  ChecksInv'
<1>1. /\ run[r].pc = "insert" /\ IsOpen(r) /\ Todo(r).kind = "heatmap"
      /\ clock' = clock /\ met' = met /\ checks' = checks
  BY DEF InsertBuckets, IsOpen, OpenPcs, CollectionInv, RunsOK, RunOK, Replacing
<1>2. run' = [run EXCEPT ![r] = Advanced(run[r])]
  BY Zenon DEF InsertBuckets
<1>3. PICK n : /\ n = NewRow(r, "heatmap", Todo(r).of)
               /\ n.table = "heatmap" /\ n.key = Todo(r).of /\ n.run = r /\ n.txn = r
  BY NewRowFacts
<1>4. rows' = rows \cup {n}
  BY <1>3, Zenon DEF InsertBuckets
<1>5. /\ run'[r] = Advanced(run[r]) /\ Len(run[r].todo) # 1
      /\ Goes(run[r], run'[r]) /\ \A q \in Runs \ {r} : run'[q] = run[q]
      /\ Shows(run'[r], "fetch", Tail(run[r].todo), run[r].since, run[r].got)
  <2>1. run'[r] = Advanced(run[r]) /\ \A q \in Runs \ {r} : run'[q] = run[q]
    BY <1>2, RunSet DEF CollectionInv
  <2> QED
    BY <1>1, <2>1, MovesOn
<1>6. IsOpen(r)'
  BY <1>5 DEF Shows, IsOpen, OpenPcs
<1>7. RowOK(n)'
  BY <1>1, <1>3, <1>6, NewRowOK
<1>8. Quiet(r)
  BY <1>1, <1>4, <1>5, <1>6, <1>7 DEF Quiet, RowsLast, Same
<1>9. Backs(r)
  <2> SUFFICES ASSUME NEW c, CheckOK(c), c.run = r, Coming(c) PROVE Backed(c)'
    BY DEF Backs
  <2>1. CASE c.target.kind = "heatmap" /\ c.txn # 0 /\ Todo(r) = c.target
    <3>1. c.txn = r
      BY <2>1 DEF CheckOK
    <3>2. Stands(n, c) /\ n \in rows'
      BY <1>3, <1>4, <2>1, <3>1 DEF Stands, Rewritten
    <3> QED
      BY <2>1, <3>2 DEF Backed
  <2>2. CASE /\ c.target.kind = "etf" /\ c.txn # 0
             /\ c.target.of \in run[r].got /\ HasUpsert(run[r].todo)
    <3>1. Ordered(run[r].todo)
      BY <1>1, OpenFacts DEF CollectionInv
    <3>2. HasUpsert(Tail(run[r].todo))
      BY <1>1, <1>5, <2>2, <3>1, TailUpserts DEF Todo
    <3>3. Coming(c)'
      BY <1>5, <2>2, <3>2 DEF Coming, Shows
    <3> QED
      BY <3>3 DEF Backed
  <2> QED
    BY <1>1, <2>1, <2>2 DEF Coming
<1> QED
  BY <1>1, <1>8, <1>9, QuietKept DEF MakesCheck

----------------------------------------------------------------------------
(* Commits *)

\* d is what a commit of r makes of the check c.
Marked(r, c, d) ==
  /\ CheckShape(d)
  /\ d.source = c.source /\ d.target = c.target /\ d.ok = c.ok /\ d.data = c.data
  /\ d.at = c.at /\ d.run = c.run /\ d.txn = IF c.txn = r THEN 0 ELSE c.txn

\* r is at a commit.
AtCommit(r) ==
  /\ IsOpen(r)
  /\ \/ run[r].pc = "fetch" /\ Todo(r).kind = "commit"
     \/ /\ run[r].pc = "store" /\ Todo(r).kind = "prices"
        /\ Cardinality(Written(r)) = Len(Assets)

Commits(r) ==
  /\ AtCommit(r) /\ rows' = CommittedRows(r) /\ clock' = clock /\ met' = met
  /\ DOMAIN checks' = DOMAIN checks
  /\ \A i \in DOMAIN checks : Marked(r, checks[i], checks'[i])
  /\ \A q \in Runs \ {r} : run'[q] = run[q]
  /\ Goes(run[r], run'[r])

\* A row that r has not deleted is there after r's commit.
LEMMA RowCommitted ==
  ASSUME CollectionInv, NEW r \in Runs, rows' = CommittedRows(r), NEW x \in rows, x.dead # r
  PROVE  \E z \in rows' : /\ z.table = x.table /\ z.key = x.key /\ z.run = x.run
                          /\ z.txn = IF x.txn = r THEN 0 ELSE x.txn
<1>1. PICK z \in rows' : Becomes(x, z, Settled(r, x), x.dead)
  BY CommittedRowFacts DEF CollectionInv, HeatsOK
<1> QED
  BY <1>1 DEF Becomes, Settled

\* What stands for a check has a successor when it is deleted.
LEMMA StandsCommitted ==
  ASSUME CollectionInv, ChecksInv, NEW r \in Runs, Commits(r),
         NEW c, NEW d, Marked(r, c, d), NEW x \in rows, Stands(x, c)
  PROVE  \E z \in rows' : Stands(z, d)
<1>1. r # 0 /\ run[r].pc # "insert" /\ rows' = CommittedRows(r)
  BY OpenFacts DEF Commits, AtCommit, CollectionInv
<1>2. CASE x.dead # r
  <2>1. PICK z \in rows' : /\ z.table = x.table /\ z.key = x.key /\ z.run = x.run
                           /\ z.txn = IF x.txn = r THEN 0 ELSE x.txn
    BY <1>1, <1>2, RowCommitted
  <2>2. Stands(z, d)
    BY <2>1 DEF Stands, Marked
  <2> QED
    BY <2>2
<1>3. CASE x.dead = r
  <2>1. RowOK(x)
    BY DEF ChecksInv, RowsOK
  <2>2. x.txn = 0 /\ x.table \in Rewritten
    BY <1>1, <1>3, <2>1 DEF RowOK
  <2>3. PICK y \in rows : y.table = x.table /\ y.key = x.key /\ y.txn = r /\ y.dead # r
    <3>1. CASE x.table = "heatmap"
      <4>1. x \in Heat
        BY <3>1 DEF Heat
      <4>2. PICK y \in Heat : y.key = x.key /\ y.txn = r /\ y.dead = 0
        BY <1>1, <1>3, <4>1, Replacement DEF CollectionInv
      <4> QED
        BY <1>1, <3>1, <4>2 DEF Heat
    <3>2. CASE x.table = "etf"
      <4>1. PICK y \in rows : y.table = "etf" /\ y.key = x.key /\ y.txn = r
        BY <1>1, <1>3, <2>1, <3>2 DEF RowOK
      <4>2. y.dead # r
        BY <1>1, <4>1 DEF ChecksInv, RowsOK, RowOK
      <4> QED
        BY <3>2, <4>1, <4>2
    <3> QED
      BY <2>2, <3>1, <3>2 DEF Rewritten
  <2>4. PICK z \in rows' : /\ z.table = y.table /\ z.key = y.key /\ z.run = y.run
                           /\ z.txn = IF y.txn = r THEN 0 ELSE y.txn
    BY <1>1, <2>3, RowCommitted
  <2>5. Stands(z, d)
    BY <1>1, <2>2, <2>3, <2>4 DEF Stands, Marked
  <2> QED
    BY <2>5
<1> QED
  BY <1>2, <1>3

\* A batch is complete when it is committed, and stays complete.
LEMMA CompleteCommitted ==
  ASSUME CollectionInv, ChecksInv, NEW r \in Runs, Commits(r),
         NEW c, CheckOK(c), c.target.kind = "prices", NEW d, Marked(r, c, d),
         Complete(c) \/ (c.run = r /\ run[r].pc = "store" /\ Todo(r) = c.target)
  PROVE  Complete(d)'
<1> SUFFICES ASSUME NEW i \in DOMAIN Assets
             PROVE  \E z \in Committed("prices")' : z.run = d.run /\ z.key = <<d.source, Assets[i]>>
  BY DEF Complete
<1>1. r # 0 /\ rows' = CommittedRows(r)
  BY OpenFacts DEF Commits, AtCommit, CollectionInv
<1>2. PICK x \in rows : /\ x.table = "prices" /\ x.txn \in {0, r}
                        /\ x.run = c.run /\ x.key = <<c.source, Assets[i]>>
  <2>1. CASE Complete(c)
    BY <2>1 DEF Complete, Committed
  <2>2. CASE c.run = r /\ run[r].pc = "store" /\ Todo(r) = c.target
    <3>1. AllPrices(run[r].todo) /\ Cardinality(Written(r)) = Len(Assets)
      BY <2>2, KindOfSession DEF CollectionInv, Commits, AtCommit
    <3>2. Batch(r)
      BY <2>2, <3>1 DEF CollectionInv, PricesOK, BatchOK, Commits, AtCommit
    <3>3. i \in 1..Len(Assets)
      BY AssetsAssumption
    <3>4. PICK x \in Written(r) : x.key = <<Todo(r).of, Assets[i]>>
      BY <3>1, <3>2, <3>3 DEF Batch
    <3>5. x.table = "prices" /\ x.run = r
      BY <3>2 DEF Batch
    <3>6. c.source = Todo(r).of
      BY <2>2 DEF CheckOK, SourceOf
    <3> QED
      BY <2>2, <3>4, <3>5, <3>6 DEF Written
  <2> QED
    BY <2>1, <2>2
<1>3. x.dead # r
  BY <1>1, <1>2 DEF CollectionInv, PricesOK, PriceOK
<1>4. PICK z \in rows' : /\ z.table = x.table /\ z.key = x.key /\ z.run = x.run
                         /\ z.txn = IF x.txn = r THEN 0 ELSE x.txn
  BY <1>1, <1>3, RowCommitted
<1>5. z.table = "prices" /\ z.txn = 0 /\ z.run = d.run /\ z.key = <<d.source, Assets[i]>>
  BY <1>2, <1>4 DEF Marked
<1> QED
  BY <1>5 DEF Committed

\* What a run at its commit has fetched is written.
LEMMA NothingComing ==
  ASSUME CollectionInv, ChecksInv, NEW r \in Runs, AtCommit(r),
         NEW c, CheckOK(c), c.run = r, c.target.kind # "prices"
  PROVE  ~Coming(c)
<1> SUFFICES ASSUME Coming(c) PROVE FALSE
  OBVIOUS
<1>1. IsOpen(r) /\ Ordered(run[r].todo) /\ UpsertsLast(run[r].todo)
  BY OpenFacts DEF CollectionInv, AtCommit, ChecksInv, TimesOK, PlanOK
<1>2. c.txn # 0 /\ HasUpsert(run[r].todo)
  BY DEF AtCommit, Coming, Replacing
<1>3. InSession(r)
  BY <1>2 DEF CheckOK
<1>4. Todo(r).kind = "commit"
  BY <1>1, <1>3, KindOfSession DEF AtCommit, CollectionInv
<1> QED
  BY <1>1, <1>2, <1>4, NoUpsertAtCommit DEF Todo

\* A check stays backed when its transaction is committed.
LEMMA CheckCommitted ==
  ASSUME CollectionInv, ChecksInv, NEW r \in Runs, Commits(r),
         NEW c, CheckOK(c), NEW d, Marked(r, c, d)
  PROVE  CheckOK(d)'
<1>1. /\ c.run \in Runs /\ run[c.run].pc # "unused" /\ IsOpen(r)
      /\ c.txn # 0 => c.txn = c.run /\ InSession(c.txn)
  BY DEF CheckOK, Commits, AtCommit
<1>2. run'[c.run].pc # "unused"
  BY <1>1 DEF Commits, Goes, OpenPcs
<1>3. ASSUME c.run # r PROVE run'[c.run] = run[c.run] /\ d.txn = c.txn
  BY <1>1, <1>3 DEF Commits, Marked
<1>4. d.txn # 0 => d.txn = d.run /\ InSession(d.txn)'
  <2> SUFFICES ASSUME d.txn # 0 PROVE d.txn = d.run /\ InSession(d.txn)'
    OBVIOUS
  <2>1. d.txn = c.txn /\ c.txn # r /\ c.txn # 0 /\ d.run = c.run
    BY DEF Marked
  <2> QED
    BY <1>1, <1>3, <2>1 DEF InSession, IsOpen
<1>5. Coming(c) /\ c.run # r => Coming(d)'
  <2> SUFFICES ASSUME Coming(c), c.run # r PROVE Coming(d)'
    OBVIOUS
  <2>1. run'[d.run] = run[c.run] /\ d.txn = c.txn /\ d.target = c.target
    BY <1>3 DEF Marked
  <2> QED
    BY <2>1 DEF Coming, Todo
<1>6. CASE c.target.kind = "prices"
  <2>1. Backed(c) => Backed(d)'
    <3>1. CASE Coming(c) /\ c.run # r
      BY <1>5, <3>1 DEF Backed
    <3>2. CASE Coming(c) /\ c.run = r
      <4>1. run[r].pc = "store" /\ Todo(r) = c.target
        BY <1>6, <3>2 DEF Coming
      <4>2. Complete(d)'
        BY <1>6, <3>2, <4>1, CompleteCommitted
      <4> QED
        BY <1>6, <4>2 DEF Backed, Marked
    <3>3. CASE Complete(c)
      <4>1. Complete(d)'
        BY <1>6, <3>3, CompleteCommitted
      <4> QED
        BY <1>6, <4>1 DEF Backed, Marked
    <3>4. CASE run[c.run].pc = "aborted"
      <4>1. c.run # r
        BY <1>1, <3>4 DEF IsOpen, OpenPcs
      <4>2. run'[d.run].pc = "aborted" /\ d.target.kind = "prices"
        BY <1>3, <1>6, <3>4, <4>1 DEF Marked
      <4> QED
        BY <4>2 DEF Backed
    <3> QED
      BY <1>6, <3>1, <3>2, <3>3, <3>4 DEF Backed
  <2>2. d.txn = 0
    BY <1>6 DEF CheckOK, Marked
  <2> QED
    BY <1>2, <1>4, <2>1, <2>2, Zenon DEF CheckOK, Marked
<1>7. CASE c.target.kind # "prices"
  <2>1. Backed(c) => Backed(d)'
    <3>1. CASE Coming(c)
      <4>1. c.run # r
        BY <1>7, <3>1, NothingComing DEF Commits
      <4> QED
        BY <1>5, <3>1, <4>1 DEF Backed
    <3>2. CASE \E x \in rows : Stands(x, c)
      <4>1. \E z \in rows' : Stands(z, d)
        BY <3>2, StandsCommitted
      <4>2. d.target.kind # "prices"
        BY <1>7 DEF Marked
      <4> QED
        BY <4>1, <4>2 DEF Backed
    <3> QED
      BY <1>7, <3>1, <3>2 DEF Backed
  <2> QED
    BY <1>2, <1>4, <1>7, <2>1, Zenon DEF CheckOK, Marked
<1> QED
  BY <1>6, <1>7

\* A commit keeps the invariant.
LEMMA CommitsKept ==
  ASSUME CollectionInv, RunsOK', ChecksInv, NEW r \in Runs, Commits(r)
  PROVE  ChecksInv'
<1>1. RunsOK /\ IsOpen(r) /\ r # 0 /\ clock \in Nat /\ clock' = clock
  BY OpenFacts, BoundsAssumption DEF CollectionInv, Commits, AtCommit, ChecksInv, TimesOK
<1>2. TimesOK'
  BY <1>1, TimesKept DEF ChecksInv, Commits
<1>3. PlacesOK'
  BY <1>1, PlacesKept DEF ChecksInv, Commits, Marked
<1>4. ASSUME NEW z \in rows' PROVE RowOK(z)'
  <2>1. PICK y \in rows : y.dead # r /\ Becomes(y, z, Settled(r, y), y.dead)
    BY CommittedRowFacts DEF CollectionInv, HeatsOK, Commits
  <2>2. RowOK(y)
    BY DEF ChecksInv, RowsOK
  <2>3. /\ z.table = y.table /\ z.key = y.key /\ z.at = y.at /\ z.run = y.run
        /\ z.dead = y.dead /\ z.txn = IF y.txn = r THEN 0 ELSE y.txn
    BY <2>1 DEF Becomes, Settled
  <2>4. z.txn # 0 => z.txn = z.run /\ IsOpen(z.txn)'
    BY <2>2, <2>3 DEF RowOK, Commits, IsOpen
  <2>5. ASSUME z.dead # 0
        PROVE  /\ InSession(z.dead)' /\ z.txn = 0 /\ z.table \in Rewritten
               /\ z.table = "etf" =>
                    \E x \in rows' : x.table = "etf" /\ x.key = z.key /\ x.txn = z.dead
    <3>1. /\ y.dead # 0 /\ y.dead # r /\ y.dead \in Runs
          /\ InSession(y.dead) /\ y.txn = 0 /\ y.table \in Rewritten
          /\ y.table = "etf" =>
               \E x \in rows : x.table = "etf" /\ x.key = y.key /\ x.txn = y.dead
      BY <2>1, <2>2, <2>3, <2>5 DEF RowOK
    <3>2. InSession(z.dead)'
      BY <2>3, <3>1 DEF Commits, InSession, IsOpen
    <3>3. ASSUME y.table = "etf"
          PROVE  \E x \in rows' : x.table = "etf" /\ x.key = z.key /\ x.txn = z.dead
      <4>1. PICK x \in rows : x.table = "etf" /\ x.key = y.key /\ x.txn = y.dead
        BY <3>1, <3>3
      <4>2. x.dead # r
        BY <1>1, <3>1, <4>1 DEF ChecksInv, RowsOK, RowOK
      <4>3. PICK w \in rows' : /\ w.table = x.table /\ w.key = x.key /\ w.run = x.run
                               /\ w.txn = IF x.txn = r THEN 0 ELSE x.txn
        BY <4>2, RowCommitted DEF Commits
      <4> QED
        BY <2>3, <3>1, <4>1, <4>3
    <3> QED
      BY <1>1, <2>3, <3>1, <3>2, <3>3
  <2> QED
    BY <1>1, <2>2, <2>3, <2>4, <2>5 DEF RowOK
<1>5. ASSUME NEW d \in Made' PROVE CheckOK(d)'
  <2>1. PICK i \in DOMAIN checks : d = checks'[i]
    BY DEF Made, Commits
  <2>2. PICK c : c = checks[i]
    OBVIOUS
  <2>3. CheckOK(c) /\ Marked(r, c, d)
    BY <2>1, <2>2 DEF ChecksInv, ChecksOK, Made, Commits
  <2> QED
    BY <2>3, CheckCommitted
<1> QED
  BY <1>2, <1>3, <1>4, <1>5 DEF ChecksInv, RowsOK, ChecksOK

\* What EXCEPT makes of a check.
LEMMA CheckMarked ==
  ASSUME NEW r, NEW c, CheckShape(c)
  PROVE  Marked(r, c, [c EXCEPT !.txn = IF @ = r THEN 0 ELSE @])
<1> DEFINE s == c.source t == c.target o == c.ok a == c.data m == c.at q == c.run n == c.txn
           k == IF n = r THEN 0 ELSE n
           y == [source |-> s, target |-> t, ok |-> o, data |-> a, at |-> m, run |-> q, txn |-> n]
           z == [source |-> s, target |-> t, ok |-> o, data |-> a, at |-> m, run |-> q, txn |-> k]
<1>1. c = y
  BY DEF CheckShape
<1>2. [c EXCEPT !.txn = IF @ = r THEN 0 ELSE @] = [c EXCEPT !.txn = k]
  OBVIOUS
<1> HIDE DEF s, t, o, a, m, q, n, k
<1>3. [y EXCEPT !.txn = k] = z
  OBVIOUS
<1>4. CheckShape(z) /\ z.source = s /\ z.target = t /\ z.ok = o /\ z.data = a
      /\ z.at = m /\ z.run = q /\ z.txn = k
  BY DEF CheckShape
<1> HIDE DEF y, z
<1> QED
  BY <1>1, <1>2, <1>3, <1>4 DEF Marked, s, t, o, a, m, q, n, k

\* A commit of a session marks its checks, and finds none of the ingestion's.
LEMMA ChecksMarked ==
  ASSUME ChecksInv, NEW r \in Runs,
         checks' = CommittedChecks(r) \/ (checks' = checks /\ r # 0 /\ ~InSession(r))
  PROVE  /\ DOMAIN checks' = DOMAIN checks
         /\ \A i \in DOMAIN checks : Marked(r, checks[i], checks'[i])
<1>1. \A i \in DOMAIN checks : CheckOK(checks[i])
  BY DEF ChecksInv, ChecksOK, Made
<1>2. CASE checks' = CommittedChecks(r)
  <2> DEFINE f(c) == [c EXCEPT !.txn = IF @ = r THEN 0 ELSE @]
  <2>1. checks' = [i \in DOMAIN checks |-> f(checks[i])]
    BY <1>2, Zenon DEF CommittedChecks
  <2>2. \A i \in DOMAIN checks : Marked(r, checks[i], f(checks[i]))
    BY <1>1, CheckMarked, Zenon DEF CheckOK
  <2> HIDE DEF f
  <2> QED
    BY <2>1, <2>2
<1>3. CASE checks' = checks /\ r # 0 /\ ~InSession(r)
  <2>1. ASSUME NEW i \in DOMAIN checks PROVE Marked(r, checks[i], checks[i])
    <3>1. PICK c : c = checks[i]
      OBVIOUS
    <3>2. CheckShape(c) /\ c.txn # r
      BY <1>1, <1>3, <3>1 DEF CheckOK
    <3> QED
      BY <3>1, <3>2 DEF Marked
  <2> QED
    BY <1>3, <2>1
<1> QED
  BY <1>2, <1>3

\* The ingestion job commits its snapshots.
LEMMA PersistSnapshotsCommits ==
  ASSUME CollectionInv, RunsOK', ChecksInv, NEW r \in Runs, PersistSnapshots(r)
  PROVE  ChecksInv'
<1>1. /\ IsOpen(r) /\ AtCommit(r) /\ Todo(r).kind = "prices" /\ rows' = CommittedRows(r)
      /\ checks' = checks /\ clock' = clock /\ met' = met
  BY DEF PersistSnapshots, AtCommit, At, IsOpen, OpenPcs
<1>2. run' = [run EXCEPT ![r] = Advanced(run[r])]
  BY Zenon DEF PersistSnapshots
<1>3. /\ RunShape(run[r]) /\ r # 0 /\ ~InSession(r)
      /\ run'[r] = Advanced(run[r]) /\ \A q \in Runs \ {r} : run'[q] = run[q]
  BY <1>1, <1>2, OpenFacts, RunSet, KindOfSession DEF CollectionInv
<1>4. Commits(r)
  BY <1>1, <1>3, ChecksMarked, AdvancedGoes DEF Commits
<1> QED
  BY <1>4, CommitsKept

\* The other jobs commit their sessions.
LEMMA CommitSessionCommits ==
  ASSUME CollectionInv, RunsOK', ChecksInv, NEW r \in Runs, CommitSession(r)
  PROVE  ChecksInv'
<1>1. /\ IsOpen(r) /\ AtCommit(r) /\ rows' = CommittedRows(r)
      /\ checks' = CommittedChecks(r) /\ clock' = clock /\ met' = met
  BY DEF CommitSession, AtCommit, At, IsOpen, OpenPcs
<1>2. run' = [run EXCEPT ![r] = Advanced(run[r])]
  BY Zenon DEF CommitSession
<1>3. /\ RunShape(run[r])
      /\ run'[r] = Advanced(run[r]) /\ \A q \in Runs \ {r} : run'[q] = run[q]
  BY <1>1, <1>2, OpenFacts, RunSet DEF CollectionInv
<1>4. Commits(r)
  BY <1>1, <1>3, ChecksMarked, AdvancedGoes DEF Commits
<1> QED
  BY <1>4, CommitsKept

\* Runs that are aborted, and the others.
LEMMA AbortedGoes ==
  ASSUME RunsOK, NEW R \in SUBSET Runs, Aborted(R)
  PROVE  /\ \A q \in Runs \ R : run'[q] = run[q]
         /\ \A r \in R : Goes(run[r], run'[r]) /\ run'[r].pc = "aborted"
<1>1. /\ \A q \in Runs \ R : run'[q] = run[q]
      /\ \A r \in R : run'[r] = Closed(run[r], "aborted")
  BY DEF Aborted
<1>2. \A r \in R : run'[r].since = 0 /\ run'[r].pc = "aborted"
  BY <1>1, ClosedSince
<1> QED
  BY <1>1, <1>2 DEF Goes, OpenPcs

\* A commit that raises is a commit all the same.
LEMMA CommitUnacknowledgedCommits ==
  ASSUME CollectionInv, RunsOK', ChecksInv, NEW r \in Runs, CommitUnacknowledged(r)
  PROVE  ChecksInv'
<1>1. /\ AtCommit(r) /\ rows' = CommittedRows(r) /\ Aborted({r})
      /\ checks' = CommittedChecks(r) /\ clock' = clock /\ met' = met
  BY DEF CommitUnacknowledged, AtCommit, At, IsOpen, OpenPcs
<1>2. Goes(run[r], run'[r]) /\ \A q \in Runs \ {r} : run'[q] = run[q]
  BY <1>1, AbortedGoes DEF CollectionInv
<1>3. Commits(r)
  BY <1>1, <1>2, ChecksMarked DEF Commits
<1> QED
  BY <1>3, CommitsKept

----------------------------------------------------------------------------
(* Rollbacks *)

\* What R inserted, and the checks it made, are gone; what it deleted is back.
LEMMA AbortRolls ==
  ASSUME CollectionInv, RunsOK', ChecksInv, NEW R \in SUBSET Runs, Abort(R)
  PROVE  ChecksInv'
<1>1. /\ \A r \in R : IsOpen(r)
      /\ Aborted(R) /\ RollBack(R) /\ clock' = clock /\ met' = met /\ clock \in Nat
  BY BoundsAssumption DEF Abort, ChecksInv, TimesOK
<1>2. /\ RunsOK /\ 0 \notin R
      /\ \A q \in Runs \ R : run'[q] = run[q]
      /\ \A r \in R : Goes(run[r], run'[r]) /\ run'[r].pc = "aborted"
  BY <1>1, AbortedGoes, OpenFacts DEF CollectionInv
<1>3. TimesOK'
  BY <1>1, <1>2, TimesKept DEF ChecksInv
<1>4. /\ DOMAIN checks' \subseteq DOMAIN checks
      /\ \A i \in DOMAIN checks' : checks'[i] = checks[i] /\ checks[i].txn \notin R
  BY <1>1 DEF RollBack
<1>5. PlacesOK'
  BY <1>1, <1>4, PlacesKept DEF ChecksInv
<1>6. \A q \in Runs \ R : (IsOpen(q) => IsOpen(q)') /\ (InSession(q) => InSession(q)')
  BY <1>2 DEF IsOpen, InSession
<1>7. ASSUME NEW x \in rows, x.txn \notin R
      PROVE  \E z \in rows' : Same(x, z)
  BY <1>1, <1>7, RolledBackRowFacts DEF CollectionInv, HeatsOK, Becomes, Same
<1>8. ASSUME NEW z \in rows' PROVE RowOK(z)'
  <2>1. PICK y \in rows : y.txn \notin R /\ Becomes(y, z, y.txn, Undeleted(R, y))
    BY <1>1, RolledBackRowFacts DEF CollectionInv, HeatsOK
  <2>2. RowOK(y) /\ 0 \in Runs
    BY BoundsAssumption DEF ChecksInv, RowsOK, Runs
  <2>3. /\ z.table = y.table /\ z.key = y.key /\ z.at = y.at /\ z.run = y.run /\ z.txn = y.txn
        /\ z.dead = IF y.dead \in R THEN 0 ELSE y.dead
    BY <2>1 DEF Becomes, Undeleted
  <2>4. z.txn # 0 => z.txn = z.run /\ IsOpen(z.txn)'
    BY <1>6, <2>1, <2>2, <2>3 DEF RowOK
  <2>5. ASSUME z.dead # 0
        PROVE  /\ InSession(z.dead)' /\ z.txn = 0 /\ z.table \in Rewritten
               /\ z.table = "etf" =>
                    \E x \in rows' : x.table = "etf" /\ x.key = z.key /\ x.txn = z.dead
    <3>1. /\ z.dead = y.dead /\ y.dead \notin R /\ y.dead \in Runs
          /\ InSession(y.dead) /\ y.txn = 0 /\ y.table \in Rewritten
          /\ y.table = "etf" =>
               \E x \in rows : x.table = "etf" /\ x.key = y.key /\ x.txn = y.dead
      BY <2>2, <2>3, <2>5 DEF RowOK
    <3>2. ASSUME y.table = "etf"
          PROVE  \E x \in rows' : x.table = "etf" /\ x.key = z.key /\ x.txn = z.dead
      <4>1. PICK x \in rows : x.table = "etf" /\ x.key = y.key /\ x.txn = y.dead
        BY <3>1, <3>2
      <4>2. PICK w \in rows' : Same(x, w)
        BY <1>7, <3>1, <4>1
      <4> QED
        BY <2>3, <3>1, <4>1, <4>2 DEF Same
    <3> QED
      BY <1>6, <2>3, <3>1, <3>2
  <2> QED
    BY <1>1, <2>2, <2>3, <2>4, <2>5 DEF RowOK
<1>9. ASSUME NEW c, CheckOK(c), c.txn \notin R PROVE CheckOK(c)'
  <2>1. /\ c.run \in Runs /\ run[c.run].pc # "unused"
        /\ c.txn # 0 => c.txn = c.run /\ InSession(c.txn)
        /\ c.target.kind = "prices" => c.txn = 0
    BY <1>9 DEF CheckOK
  <2>2. run'[c.run].pc # "unused"
    BY <1>2, <2>1 DEF Goes, OpenPcs
  <2>3. c.txn # 0 => InSession(c.txn)'
    BY <1>6, <1>9, <2>1
  <2>4. CASE c.run \in R
    <3>1. c.txn = 0 /\ run'[c.run].pc = "aborted"
      BY <1>2, <1>9, <2>1, <2>4
    <3>2. Backed(c) => Backed(c)'
      <4>1. CASE c.target.kind = "prices"
        BY <3>1, <4>1 DEF Backed
      <4>2. CASE c.target.kind # "prices"
        <5>1. ~Coming(c)
          BY <3>1, <4>2 DEF Coming
        <5>2. (\E x \in rows : Stands(x, c)) => \E x \in rows' : Stands(x, c)
          BY <1>7, <1>9 DEF Stands, Same
        <5> QED
          BY <4>2, <5>1, <5>2 DEF Backed
      <4> QED
        BY <4>1, <4>2
    <3> QED
      BY <1>9, <2>2, <2>3, <3>2, Zenon DEF CheckOK
  <2>5. CASE c.run \notin R
    <3>1. run'[c.run] = run[c.run]
      BY <1>2, <2>1, <2>5
    <3>2. Coming(c) => Coming(c)'
      BY <3>1 DEF Coming, Todo
    <3>3. Complete(c) => Complete(c)'
      <4> SUFFICES ASSUME Complete(c), NEW i \in DOMAIN Assets
                   PROVE  \E x \in Committed("prices")' : x.run = c.run /\ x.key = <<c.source, Assets[i]>>
        BY DEF Complete
      <4>1. PICK x \in rows :
              x.table = "prices" /\ x.txn = 0 /\ x.run = c.run /\ x.key = <<c.source, Assets[i]>>
        BY DEF Complete, Committed
      <4>2. PICK z \in rows' : Same(x, z)
        BY <1>2, <1>7, <4>1
      <4> QED
        BY <4>1, <4>2 DEF Same, Committed
    <3>4. (\E x \in rows : Stands(x, c)) => \E x \in rows' : Stands(x, c)
      BY <1>7, <1>9 DEF Stands, Same
    <3>5. Backed(c) => Backed(c)'
      BY <3>1, <3>2, <3>3, <3>4, Zenon DEF Backed
    <3> QED
      BY <1>9, <2>2, <2>3, <3>5, Zenon DEF CheckOK
  <2> QED
    BY <2>4, <2>5
<1>10. ASSUME NEW d \in Made' PROVE CheckOK(d)'
  <2>1. PICK i \in DOMAIN checks' : d = checks'[i]
    BY DEF Made
  <2>2. d \in Made /\ d.txn \notin R
    BY <1>4, <2>1 DEF Made
  <2> QED
    BY <1>9, <2>2 DEF ChecksInv, ChecksOK
<1> QED
  BY <1>3, <1>5, <1>8, <1>10 DEF ChecksInv, RowsOK, ChecksOK

----------------------------------------------------------------------------
(* Launches and the clock *)

\* A run that was not in use has neither rows nor checks.
LEMMA LaunchRuns ==
  ASSUME CollectionInv, RunsOK', ChecksInv, NEW r \in Runs, NEW job \in Jobs, Launch(r, job)
  PROVE  ChecksInv'
<1> DEFINE w == [Unused EXCEPT !.job = job, !.pc = "fetch", !.todo = Plan(job), !.since = clock]
<1>1. /\ run[r].pc = "unused" /\ clock' = clock /\ checks' = checks /\ rows' = rows
      /\ clock \in Nat /\ clock \in 0..MaxClock
  BY BoundsAssumption DEF Launch, ChecksInv, TimesOK
<1>2. w.todo = Plan(job) /\ w.since = clock
  <2>1. IsRun(w, job, "fetch", Plan(job))
    BY UnusedShape, RunRestarted, Zenon
  <2>2. w.since = clock
    BY DEF Unused
  <2> QED
    BY <2>1, <2>2, Zenon DEF IsRun
<1>3. run'[r] = w /\ \A q \in Runs \ {r} : run'[q] = run[q]
  <2>1. run' = [run EXCEPT ![r] = w]
    BY DEF Launch
  <2> HIDE DEF w
  <2> QED
    BY <2>1, RunSet DEF CollectionInv
<1> HIDE DEF w
<1>4. met' \subseteq SUBSET Runs
  BY DEF Launch, ChecksInv, TimesOK
<1>5. ASSUME NEW q \in Runs PROVE PlanOK(q)'
  <2>1. CASE q = r
    <3>1. UpsertsLast(Plan(job))
      BY PlanOrdered, JobsAssumption
    <3> QED
      BY <1>1, <1>2, <1>3, <2>1, <3>1 DEF PlanOK
  <2>2. CASE q # r
    <3>1. run'[q] = run[q] /\ PlanOK(q)
      BY <1>3, <2>2 DEF ChecksInv, TimesOK
    <3> QED
      BY <1>1, <3>1 DEF PlanOK, IsOpen
  <2> QED
    BY <2>1, <2>2
<1>6. TimesOK'
  BY <1>1, <1>4, <1>5 DEF TimesOK
<1>7. \A q \in Runs : run[q].pc # "unused" => run'[q] = run[q]
  BY <1>1, <1>3
<1>8. \A q \in Runs : (IsOpen(q) => IsOpen(q)') /\ (InSession(q) => InSession(q)')
  BY <1>7 DEF IsOpen, InSession, OpenPcs
<1>9. RowsOK'
  <2>1. \A x \in rows : (x.txn # 0 => IsOpen(x.txn)') /\ (x.dead # 0 => InSession(x.dead)')
    BY <1>8 DEF ChecksInv, RowsOK, RowOK
  <2> QED
    BY <1>1, <2>1, RowsKept DEF ChecksInv, RowsLast, Same
<1>10. PlacesOK'
  BY <1>1, PlacesKept DEF ChecksInv
<1>11. ASSUME NEW c \in Made PROVE CheckOK(c)'
  <2>1. /\ CheckOK(c) /\ c.run \in Runs /\ run[c.run].pc # "unused"
        /\ c.txn # 0 => c.txn \in Runs
    BY DEF ChecksInv, ChecksOK, CheckOK
  <2>2. run'[c.run] = run[c.run]
    BY <1>7, <2>1
  <2>3. Coming(c)' = Coming(c)
    BY <2>2 DEF Coming, Todo
  <2> QED
    BY <1>1, <1>8, <2>1, <2>2, <2>3, CheckKept DEF RowsLast, Same, Backed
<1>12. Made' = Made
  BY <1>1 DEF Made
<1> QED
  BY <1>6, <1>9, <1>10, <1>11, <1>12 DEF ChecksInv, ChecksOK

\* Time passes.
LEMMA TickRuns ==
  ASSUME CollectionInv, RunsOK', ChecksInv, Tick \/ UNCHANGED vars
  PROVE  ChecksInv'
<1>1. /\ checks' = checks /\ rows' = rows /\ run' = run /\ met' = met
      /\ clock \in Nat /\ clock' \in 0..MaxClock /\ clock <= clock'
  BY BoundsAssumption DEF Tick, vars, ChecksInv, TimesOK
<1>2. TimesOK'
  BY <1>1 DEF ChecksInv, TimesOK, PlanOK, IsOpen
<1>3. \A q \in Runs : (IsOpen(q) => IsOpen(q)') /\ (InSession(q) => InSession(q)')
  BY <1>1 DEF IsOpen, InSession
<1>4. RowsOK'
  <2>1. \A x \in rows : (x.txn # 0 => IsOpen(x.txn)') /\ (x.dead # 0 => InSession(x.dead)')
    BY <1>3 DEF ChecksInv, RowsOK, RowOK
  <2> QED
    BY <1>1, <2>1, RowsKept DEF ChecksInv, RowsLast, Same
<1>5. PlacesOK'
  BY <1>1, PlacesKept DEF ChecksInv
<1>6. ASSUME NEW c \in Made PROVE CheckOK(c)'
  <2>1. CheckOK(c) /\ c.run \in Runs /\ run[c.run].pc # "unused" /\ (c.txn # 0 => c.txn \in Runs)
    BY DEF ChecksInv, ChecksOK, CheckOK
  <2>2. Coming(c)' = Coming(c)
    BY <1>1 DEF Coming, Todo
  <2> QED
    BY <1>1, <1>3, <2>1, <2>2, CheckKept DEF RowsLast, Same, Backed
<1>7. Made' = Made
  BY <1>1 DEF Made
<1> QED
  BY <1>2, <1>4, <1>5, <1>6, <1>7 DEF ChecksInv, ChecksOK

----------------------------------------------------------------------------
(* Every step *)

\* Every step of a run keeps the invariant.
LEMMA StepChecks ==
  ASSUME CollectionInv, RunsOK', ChecksInv, NEW r \in Runs, Step(r)
  PROVE  ChecksInv'
<1>1. CASE TrackFetch(r)
  BY <1>1, TrackFetchQuiet
<1>2. CASE StoreSnapshot(r)
  BY <1>2, StoreSnapshotQuiet
<1>3. CASE PersistSnapshots(r)
  BY <1>3, PersistSnapshotsCommits
<1>4. CASE CollectBtcDominance(r) \/ CollectFearGreed(r) \/ CollectLiquidations(r)
  <2>1. /\ Fetched.data = TRUE /\ Failed.data = FALSE /\ Failed.check = "failed"
        /\ \A succeeded : Checked(succeeded) \in {Fetched, Failed}
    BY DEF Fetched, Failed, Checked
  <2>2. \A succeeded : /\ Checked(succeeded).data \in BOOLEAN
                       /\ Checked(succeeded).check = "ok" => Checked(succeeded).data
    BY <2>1
  <2>3. CASE CollectBtcDominance(r)
    <3>1. \A outcome \in {BtcDominance(reply) : reply \in Replies} :
            outcome.data \in BOOLEAN /\ (outcome.check = "ok" => outcome.data)
      BY <2>2, Zenon DEF BtcDominance
    <3>2. "btc_dominance" \in {"btc_dominance", "fear_greed", "liquidations"}
      OBVIOUS
    <3> QED
      BY <2>3, <3>1, <3>2, CollectOneQuiet, Zenon DEF CollectBtcDominance
  <2>4. CASE CollectFearGreed(r)
    <3>1. \A outcome \in {FearGreed(reply) : reply \in Replies} :
            outcome.data \in BOOLEAN /\ (outcome.check = "ok" => outcome.data)
      BY <2>2, Zenon DEF FearGreed
    <3>2. "fear_greed" \in {"btc_dominance", "fear_greed", "liquidations"}
      OBVIOUS
    <3> QED
      BY <2>4, <3>1, <3>2, CollectOneQuiet, Zenon DEF CollectFearGreed
  <2>5. CASE CollectLiquidations(r)
    <3>1. \A outcome \in {Liquidations(Keyed, reply) : reply \in Replies} :
            outcome.data \in BOOLEAN /\ (outcome.check = "ok" => outcome.data)
      BY <2>2, Zenon DEF Liquidations
    <3>2. "liquidations" \in {"btc_dominance", "fear_greed", "liquidations"}
      OBVIOUS
    <3> QED
      BY <2>5, <3>1, <3>2, CollectOneQuiet, Zenon DEF CollectLiquidations
  <2> QED
    BY <1>4, <2>3, <2>4, <2>5
<1>5. CASE CollectEtfFlows(r)
  BY <1>5, CollectEtfFlowsQuiet
<1>6. CASE UpsertEtfFlows(r)
  BY <1>6, UpsertEtfFlowsQuiet
<1>7. CASE FetchHeatmap(r)
  BY <1>7, FetchHeatmapQuiet
<1>8. CASE DeleteStarts(r)
  BY <1>8, DeleteStartsQuiet
<1>9. CASE DeleteEnds(r)
  BY <1>9, DeleteEndsQuiet
<1>10. CASE InsertBuckets(r)
  BY <1>10, InsertBucketsQuiet
<1>11. CASE CommitSession(r)
  BY <1>11, CommitSessionCommits
<1> QED
  BY <1>1, <1>2, <1>3, <1>4, <1>5, <1>6, <1>7, <1>8, <1>9, <1>10, <1>11 DEF Step

\* Every step keeps it.
LEMMA NextChecks ==
  ASSUME CollectionInv, RunsOK', ChecksInv, [Next]_vars
  PROVE  ChecksInv'
<1>1. ASSUME NEW r \in Runs, NEW job \in Jobs, Launch(r, job) PROVE ChecksInv'
  BY <1>1, LaunchRuns
<1>2. ASSUME NEW r \in Runs, Step(r) PROVE ChecksInv'
  BY <1>2, StepChecks
<1>3. ASSUME NEW r \in Runs, CommitUnacknowledged(r) PROVE ChecksInv'
  BY <1>3, CommitUnacknowledgedCommits
<1>4. ASSUME NEW R \in SUBSET Runs, Abort(R) PROVE ChecksInv'
  BY <1>4, AbortRolls
<1> QED
  BY <1>1, <1>2, <1>3, <1>4, TickRuns DEF Next

\* The checks and rows that earlier runs left belong together.
LEMMA InitChecks ==
  ASSUME Init
  PROVE  ChecksInv
<1> DEFINE e == [Unused EXCEPT !.job = "earlier", !.pc = "done"]
<1>1. 0 \in Runs /\ clock = 0 /\ clock \in Nat /\ 0 \in 0..MaxClock /\ met = {}
  BY BoundsAssumption DEF Init, Runs
<1>2. /\ Unused.pc = "unused" /\ Unused.since = 0
      /\ e.pc = "done" /\ e.since = 0
  BY DEF Unused
<1> HIDE DEF e
<1>3. /\ \A r \in Runs : run[r] = Unused \/ (r = 0 /\ run[r] = e)
      /\ \/ checks = <<>> /\ rows = {}
         \/ checks = EarlierChecks /\ rows = EarlierRows /\ run[0] = e
  <2>1. CASE checks = <<>> /\ rows = {} /\ run = [r \in Runs |-> Unused]
    BY <2>1
  <2>2. CASE /\ checks = EarlierChecks /\ rows = EarlierRows
             /\ run = [[r \in Runs |-> Unused] EXCEPT ![0] = e]
    BY <1>1, <2>2
  <2>3. \/ checks = <<>> /\ rows = {} /\ run = [r \in Runs |-> Unused]
        \/ /\ checks = EarlierChecks /\ rows = EarlierRows
           /\ run = [[r \in Runs |-> Unused] EXCEPT ![0] = e]
    BY Zenon DEF Init, e
  <2> QED
    BY <2>1, <2>2, <2>3
<1>4. TimesOK
  <2>1. \A r \in Runs : run[r].since = 0 /\ run[r].pc \in {"unused", "done"}
    BY <1>2, <1>3
  <2>2. \A r \in Runs : PlanOK(r)
    BY <1>1, <2>1 DEF PlanOK, IsOpen, OpenPcs
  <2> QED
    BY <1>1, <2>2 DEF TimesOK
<1>5. RowsOK
  <2>1. ASSUME NEW x \in rows PROVE x.run = 0 /\ x.at = 0 /\ x.txn = 0 /\ x.dead = 0
    <3>1. x \in EarlierRows
      BY <1>3
    <3>2. PICK k : x = [table |-> k[1], key |-> k[2], at |-> 0, run |-> 0, txn |-> 0, dead |-> 0]
      BY <3>1, Zenon DEF EarlierRows
    <3> QED
      BY <3>2
  <2> QED
    BY <1>1, <2>1 DEF RowsOK, RowOK
<1>6. CASE checks = <<>>
  <2>1. DOMAIN checks = {}
    BY <1>6
  <2>2. DOMAIN checks \subseteq 1..0
    BY <2>1
  <2> QED
    BY <1>4, <1>5, <2>1, <2>2 DEF ChecksInv, PlacesOK, ChecksOK, Made
<1>7. CASE checks = EarlierChecks /\ rows = EarlierRows /\ run[0] = e
  <2> DEFINE P == Plan("ingestion")
  <2>1. /\ DOMAIN P = 1..2
        /\ \A i \in 1..2 : P[i] = Target("prices", <<"binance", "coingecko">>[i])
    <3>1. P = TargetsOf("prices", <<"binance", "coingecko">>)
      BY DEF Plan
    <3>2. P = [j \in 1..2 |-> Target("prices", <<"binance", "coingecko">>[j])]
      BY <3>1 DEF TargetsOf
    <3> QED
      BY <3>2
  <2>2. \A i \in 1..2 : P[i].kind = "prices" /\ P[i] \in Elements(P)
    BY <2>1 DEF Target, Elements
  <2> HIDE DEF P
  <2>3. /\ DOMAIN checks = 1..2
        /\ \A i \in 1..2 : checks[i] =
             [source |-> P[i].of, target |-> P[i], ok |-> TRUE, data |-> TRUE,
              at |-> 0, run |-> 0, txn |-> 0]
    BY <1>7, <2>1 DEF EarlierChecks, P
  <2>4. ASSUME NEW i \in 1..2 PROVE CheckOK(checks[i]) /\ checks[i].at = 0
    <3>1. PICK c : c = checks[i]
      OBVIOUS
    <3>2. PICK t : t = P[i]
      OBVIOUS
    <3>3. c = [source |-> t.of, target |-> t, ok |-> TRUE, data |-> TRUE,
               at |-> 0, run |-> 0, txn |-> 0]
      BY <2>3, <3>1, <3>2
    <3>4. /\ CheckShape(c) /\ c.source = t.of /\ c.target = t /\ c.ok = TRUE /\ c.data = TRUE
          /\ c.at = 0 /\ c.run = 0 /\ c.txn = 0
      BY <3>3 DEF CheckShape
    <3>5. t.kind = "prices" /\ t \in Elements(P)
      BY <2>2, <3>2
    <3>6. Complete(c)
      <4> SUFFICES ASSUME NEW j \in DOMAIN Assets
                   PROVE  \E x \in Committed("prices") : x.run = c.run /\ x.key = <<c.source, Assets[j]>>
        BY DEF Complete
      <4> DEFINE k == <<"prices", <<t.of, Assets[j]>>>>
                 y == [table |-> k[1], key |-> k[2], at |-> 0, run |-> 0, txn |-> 0, dead |-> 0]
      <4>1. Assets[j] \in Elements(Assets)
        BY DEF Elements
      <4>2. k \in EarlierKeys
        BY <3>5, <4>1 DEF EarlierKeys, P
      <4>3. y \in EarlierRows
        BY <4>2, Zenon DEF EarlierRows
      <4>4. y.table = "prices" /\ y.key = <<t.of, Assets[j]>> /\ y.run = 0 /\ y.txn = 0
        OBVIOUS
      <4> HIDE DEF y
      <4> QED
        BY <1>7, <3>4, <4>3, <4>4 DEF Committed
    <3>7. Backed(c)
      BY <3>4, <3>5, <3>6 DEF Backed
    <3>8. run[c.run].pc # "unused" /\ c.source = SourceOf(c.target)
      BY <1>2, <1>7, <3>4, <3>5 DEF SourceOf
    <3> QED
      BY <1>1, <3>1, <3>4, <3>7, <3>8 DEF CheckOK
  <2>5. \A c \in Made : CheckOK(c)
    BY <2>3, <2>4 DEF Made
  <2>6. PlacesOK
    <3>1. \A i \in DOMAIN checks : checks[i].at = 0
      BY <2>3, <2>4
    <3>2. 2 \in Nat /\ DOMAIN checks \subseteq 1..2
      BY <2>3
    <3> QED
      BY <1>1, <3>1, <3>2 DEF PlacesOK
  <2> QED
    BY <1>4, <1>5, <2>5, <2>6 DEF ChecksInv, ChecksOK
<1> QED
  BY <1>3, <1>6, <1>7

----------------------------------------------------------------------------
(* The theorems *)

\* A check that says ok, in the transaction of its run or committed, has its
\* rows in that transaction, or will have them before the transaction commits:
\* what is fetched is written in the order of the plan, and what a transaction
\* deletes it has replaced. Checks are in the order of their times.
THEOREM ChecksInvariant ==
  Spec => [](CollectionInv /\ ChecksInv)
<1>1. Init => CollectionInv /\ ChecksInv
  BY InitKept, InitChecks
<1>2. CollectionInv /\ ChecksInv /\ [Next]_vars => (CollectionInv /\ ChecksInv)'
  <2> SUFFICES ASSUME CollectionInv, ChecksInv, [Next]_vars
               PROVE  CollectionInv' /\ ChecksInv'
    OBVIOUS
  <2>1. CollectionInv'
    BY NextKept DEF CollectionInv, Preserved
  <2> QED
    BY <2>1, NextChecks DEF CollectionInv
<1> QED
  BY <1>1, <1>2, PTL DEF Spec

\* Every variable keeps its type, and no transaction outlives its run.
THEOREM TypeCorrect ==
  Spec => []TypeOK
<1>1. CollectionInv /\ ChecksInv => TypeOK
  <2> SUFFICES ASSUME CollectionInv, ChecksInv PROVE TypeOK
    OBVIOUS
  <2>1. clock \in 0..MaxClock /\ met \subseteq SUBSET Runs /\ MaxClock \in Nat /\ MaxRuns \in Nat
    BY BoundsAssumption DEF ChecksInv, TimesOK
  <2>2. ASSUME NEW x \in rows
        PROVE  /\ x.at \in 0..MaxClock /\ x.run \in Runs
               /\ x.txn \in 0..MaxRuns /\ x.dead \in 0..MaxRuns
               /\ x.txn # 0 => x.txn = x.run /\ IsOpen(x.txn)
               /\ x.dead # 0 => IsOpen(x.dead)
    <3>1. RowOK(x)
      BY DEF ChecksInv, RowsOK
    <3>2. x.run \in Runs /\ x.at \in 0..clock /\ x.dead \in Runs
          /\ (x.txn # 0 => x.txn = x.run /\ IsOpen(x.txn))
          /\ (x.dead # 0 => IsOpen(x.dead))
      BY <3>1 DEF RowOK, InSession
    <3>3. x.txn \in Runs
      BY <2>1, <3>2 DEF Runs
    <3> QED
      BY <2>1, <3>2, <3>3 DEF Runs
  <2>3. ASSUME NEW i \in DOMAIN checks
        PROVE  /\ checks[i].at \in 0..MaxClock /\ checks[i].ok \in BOOLEAN
               /\ checks[i].txn # 0 => IsOpen(checks[i].txn)
    <3>1. CheckOK(checks[i]) /\ checks[i].at \in 0..clock
      BY DEF ChecksInv, ChecksOK, Made, PlacesOK
    <3>2. checks[i].at \in 0..MaxClock
      BY <2>1, <3>1
    <3> QED
      BY <3>1, <3>2 DEF CheckOK, InSession
  <2>4. \A r \in Runs : run[r].pc \in OpenPcs \cup {"unused", "done", "aborted"}
    BY DEF CollectionInv, RunsOK, RunOK
  <2> QED
    BY <2>1, <2>2, <2>3, <2>4 DEF TypeOK
<1> QED
  BY <1>1, ChecksInvariant, PTL

\* A committed check that says ok stands for rows a reader finds, except where
\* the ingestion has not stored them yet or has been aborted, and where the ETF
\* page was not recognised.
THEOREM OkChecksHaveRows ==
  Spec => []OkCheckHasRows
<1>1. CollectionInv /\ ChecksInv => OkCheckHasRows
  <2> SUFFICES ASSUME CollectionInv, ChecksInv, NEW i \in VisibleChecks, NEW c, c = checks[i], c.ok
               PROVE  \/ c.data /\ HasRows(c)
                      \/ ~c.data /\ c.source = "farside"
                      \/ c.target.kind = "prices" /\ run[c.run].pc \in {"store", "aborted"}
    BY DEF OkCheckHasRows
  <2>1. CheckOK(c) /\ c.txn = 0
    BY DEF VisibleChecks, ChecksInv, ChecksOK, Made
  <2>2. CASE ~c.data
    BY <2>1, <2>2 DEF CheckOK, SourceOf
  <2>3. CASE c.data
    <3>1. Backed(c)
      BY <2>1, <2>3 DEF CheckOK
    <3>2. CASE c.target.kind = "prices"
      BY <2>3, <3>1, <3>2 DEF Backed, Coming, Complete, HasRows
    <3>3. CASE c.target.kind # "prices"
      <4>1. PICK x \in rows : Stands(x, c)
        BY <2>1, <3>1, <3>3 DEF Backed, Coming
      <4>2. /\ x \in Committed(c.target.kind) /\ x.key = c.target.of
            /\ c.target.kind \in {"heatmap", "etf"} \/ x.run = c.run
        BY <2>1, <4>1 DEF Stands, Committed, Rewritten
      <4> QED
        BY <2>3, <3>3, <4>2 DEF HasRows
    <3> QED
      BY <3>2, <3>3
  <2> QED
    BY <2>2, <2>3
<1> QED
  BY <1>1, ChecksInvariant, PTL

\* A failure not long ago, with fewer checks after it than list_latest reads, is
\* reported unless a check under the same source name succeeded since: the last
\* check of that name is read too, is no older, and failed.
THEOREM FailuresReported ==
  Spec => []FailureHiddenOnlyByNamesake
<1>1. CollectionInv /\ ChecksInv => FailureHiddenOnlyByNamesake
  <2> SUFFICES ASSUME CollectionInv, ChecksInv, NEW i \in VisibleChecks,
                      ~checks[i].ok, Recent(checks[i].at), Cardinality(NewerChecks(i)) < Limit,
                      \A j \in NewerChecks(i) :
                        checks[j].source = checks[i].source => ~checks[j].ok
               PROVE  <<checks[i].source, "critical">> \in SourceAlerts
    BY DEF FailureHiddenOnlyByNamesake
  <2> DEFINE S == {k \in VisibleChecks : k >= i /\ checks[k].source = checks[i].source}
  <2>1. PICK n \in Nat : DOMAIN checks \subseteq 1..n
    BY DEF ChecksInv, PlacesOK
  <2>2. VisibleChecks \subseteq DOMAIN checks /\ \A k \in VisibleChecks : k \in 1..n
    BY <2>1 DEF VisibleChecks
  <2>3. i \in S /\ S \in SUBSET (1..n)
    BY <2>2
  <2>4. PICK t \in S : \A s \in S : s <= t
    <3> HIDE DEF S
    <3> QED
      BY <2>3, GreatestExists
  <2>5. /\ t \in VisibleChecks /\ t >= i /\ checks[t].source = checks[i].source
        /\ t \in 1..n /\ i \in 1..n
    BY <2>2, <2>4
  <2>6. ~checks[t].ok
    <3>1. CASE t = i
      BY <3>1
    <3>2. CASE t # i
      <4>1. t > i
        BY <2>5, <3>2
      <4>2. t \in NewerChecks(i)
        BY <2>5, <4>1 DEF NewerChecks
      <4> QED
        BY <2>5, <4>2
    <3> QED
      BY <3>1, <3>2
  <2>7. Recent(checks[t].at)
    <3>1. checks[i].at \in 0..clock /\ checks[t].at \in 0..clock
      BY <2>2, <2>5 DEF ChecksInv, PlacesOK
    <3>2. checks[i].at <= checks[t].at
      <4>1. CASE t = i
        BY <3>1, <4>1
      <4>2. CASE t # i
        <5>1. i < t
          BY <2>5, <4>2
        <5> QED
          BY <2>2, <2>5, <5>1 DEF ChecksInv, PlacesOK
      <4> QED
        BY <4>1, <4>2
    <3>3. clock \in Int /\ Fresh \in Nat
      BY BoundsAssumption DEF ChecksInv, TimesOK
    <3> QED
      BY <3>1, <3>2, <3>3 DEF Recent
  <2>8. Cardinality(NewerChecks(t)) < Limit
    <3>1. NewerChecks(t) \subseteq NewerChecks(i) /\ NewerChecks(i) \subseteq 1..n
      <4>1. \A k \in VisibleChecks : k > t => k > i
        BY <2>2, <2>5
      <4> QED
        BY <2>2, <4>1 DEF NewerChecks
    <3>2. Cardinality(NewerChecks(t)) <= Cardinality(NewerChecks(i))
      BY <3>1, FiniteBatch, FS_Subset
    <3>3. Cardinality(NewerChecks(t)) \in Nat /\ Cardinality(NewerChecks(i)) \in Nat /\ Limit \in Nat
      BY <3>1, FiniteBatch, BoundsAssumption
    <3> QED
      BY <3>2, <3>3
  <2>9. \A j \in NewerChecks(t) : checks[j].source # checks[t].source
    <3> SUFFICES ASSUME NEW j \in NewerChecks(t), checks[j].source = checks[t].source PROVE FALSE
      OBVIOUS
    <3>1. j \in VisibleChecks /\ j > t /\ j \in 1..n
      BY <2>2 DEF NewerChecks
    <3>2. j >= i
      BY <2>5, <3>1
    <3>3. j \in S
      BY <2>5, <3>1, <3>2
    <3>4. j <= t
      BY <2>4, <3>3
    <3> QED
      BY <2>5, <3>1, <3>4
  <2>10. t \in LatestBySource
    BY <2>5, <2>8, <2>9 DEF LatestBySource
  <2>11. <<checks[t].source, "critical">> \in
           {<<checks[k].source, "critical">> :
              k \in {j \in LatestBySource : ~checks[j].ok /\ Recent(checks[j].at)}}
    BY <2>6, <2>7, <2>10
  <2> QED
    BY <2>5, <2>10, <2>11 DEF SourceAlerts
<1> QED
  BY <1>1, ChecksInvariant, PTL
==============================================================================
