--------------------- MODULE MarketDataCollectionProofs ---------------------
(***************************************************************************)
(* Proofs about the heatmaps and the prices of MarketDataCollection, for   *)
(* any number of runs, any assets, timeframes and jobs, and any bounds:    *)
(* replace_for never loses a heatmap, and leaves it twice only when runs   *)
(* overlap; a healthy status means that every asset has a fresh price.     *)
(***************************************************************************)
EXTENDS MarketDataCollection, SequenceTheorems, FiniteSetTheorems, TLAPS

----------------------------------------------------------------------------
(* Records *)

\* A row has these six fields, whatever is in them.
RowShape(x) ==
  x = [table |-> x.table, key |-> x.key, at |-> x.at, run |-> x.run,
       txn |-> x.txn, dead |-> x.dead]

\* z is x with these owners of its insertion and deletion.
Becomes(x, z, txn, dead) ==
  /\ RowShape(z)
  /\ z.table = x.table /\ z.key = x.key /\ z.at = x.at /\ z.run = x.run
  /\ z.txn = txn /\ z.dead = dead

\* What EXCEPT makes of a row.
LEMMA RowExcept ==
  ASSUME NEW x, RowShape(x), NEW n
  PROVE  /\ Becomes(x, [x EXCEPT !.txn = n], n, x.dead)
         /\ Becomes(x, [x EXCEPT !.dead = n], x.txn, n)
<1> DEFINE t == x.table k == x.key a == x.at q == x.run m == x.txn d == x.dead
           y == [table |-> t, key |-> k, at |-> a, run |-> q, txn |-> m, dead |-> d]
<1>1. x = y
  BY DEF RowShape
<1> HIDE DEF t, k, a, q, m, d
<1>2. [y EXCEPT !.txn = n] =
        [table |-> t, key |-> k, at |-> a, run |-> q, txn |-> n, dead |-> d]
  OBVIOUS
<1>3. [y EXCEPT !.dead = n] =
        [table |-> t, key |-> k, at |-> a, run |-> q, txn |-> m, dead |-> n]
  OBVIOUS
<1> HIDE DEF y
<1> QED
  BY <1>1, <1>2, <1>3 DEF Becomes, RowShape, t, k, a, q, m, d

\* A new row.
LEMMA NewRowFacts ==
  ASSUME NEW r, NEW table, NEW key
  PROVE  LET x == NewRow(r, table, key)
         IN  /\ RowShape(x) /\ x.table = table /\ x.key = key
             /\ x.run = r /\ x.txn = r /\ x.dead = 0 /\ x.at = run[r].since
<1> QED
  BY DEF NewRow, RowShape

\* A run has these six fields.
RunShape(v) ==
  v = [job |-> v.job, pc |-> v.pc, todo |-> v.todo,
       since |-> v.since, got |-> v.got, sees |-> v.sees]

IsRun(w, job, pc, todo) == RunShape(w) /\ w.job = job /\ w.pc = pc /\ w.todo = todo

\* What EXCEPT makes of a run.
LEMMA RunExcept ==
  ASSUME NEW v, RunShape(v), NEW p, NEW s, NEW g
  PROVE  /\ IsRun([v EXCEPT !.pc = p], v.job, p, v.todo)
         /\ IsRun([v EXCEPT !.pc = p, !.sees = s], v.job, p, v.todo)
         /\ [v EXCEPT !.pc = p, !.sees = s].sees = s
         /\ IsRun([v EXCEPT !.todo = s, !.pc = p], v.job, p, s)
         /\ IsRun([v EXCEPT !.got = g], v.job, v.pc, v.todo)
<1> DEFINE j == v.job c == v.pc t == v.todo n == v.since o == v.got e == v.sees
           y == [job |-> j, pc |-> c, todo |-> t, since |-> n, got |-> o, sees |-> e]
<1>1. v = y
  BY DEF RunShape
<1> HIDE DEF j, c, t, n, o, e
<1>2. [y EXCEPT !.pc = p] =
        [job |-> j, pc |-> p, todo |-> t, since |-> n, got |-> o, sees |-> e]
  OBVIOUS
<1>3. [y EXCEPT !.pc = p, !.sees = s] =
        [job |-> j, pc |-> p, todo |-> t, since |-> n, got |-> o, sees |-> s]
  <2>1. [y EXCEPT !.pc = p, !.sees = s] = [[y EXCEPT !.pc = p] EXCEPT !.sees = s]
    BY DEF y
  <2>2. [[job |-> j, pc |-> p, todo |-> t, since |-> n, got |-> o, sees |-> e]
           EXCEPT !.sees = s] =
          [job |-> j, pc |-> p, todo |-> t, since |-> n, got |-> o, sees |-> s]
    OBVIOUS
  <2> HIDE DEF y
  <2> QED
    BY <1>2, <2>1, <2>2
<1>4. [y EXCEPT !.todo = s, !.pc = p] =
        [job |-> j, pc |-> p, todo |-> s, since |-> n, got |-> o, sees |-> e]
  <2>1. [y EXCEPT !.todo = s, !.pc = p] = [[y EXCEPT !.pc = p] EXCEPT !.todo = s]
    BY DEF y
  <2>2. [[job |-> j, pc |-> p, todo |-> t, since |-> n, got |-> o, sees |-> e]
           EXCEPT !.todo = s] =
          [job |-> j, pc |-> p, todo |-> s, since |-> n, got |-> o, sees |-> e]
    OBVIOUS
  <2> HIDE DEF y
  <2> QED
    BY <1>2, <2>1, <2>2
<1>5. [y EXCEPT !.got = g] =
        [job |-> j, pc |-> c, todo |-> t, since |-> n, got |-> g, sees |-> e]
  OBVIOUS
<1> HIDE DEF y
<1> QED
  BY <1>1, <1>2, <1>3, <1>4, <1>5 DEF IsRun, RunShape, j, c, t, n, o, e

\* What EXCEPT leaves of a run that is launched or moves.
LEMMA RunRestarted ==
  ASSUME NEW v, RunShape(v), NEW job, NEW pc, NEW todo, NEW since
  PROVE  /\ IsRun([v EXCEPT !.job = job, !.pc = pc], job, pc, v.todo)
         /\ IsRun([v EXCEPT !.job = job, !.pc = pc, !.todo = todo, !.since = since],
                  job, pc, todo)
<1> DEFINE j == v.job c == v.pc t == v.todo n == v.since o == v.got e == v.sees
           y == [job |-> j, pc |-> c, todo |-> t, since |-> n, got |-> o, sees |-> e]
           y1 == [job |-> job, pc |-> c, todo |-> t, since |-> n, got |-> o, sees |-> e]
           y2 == [job |-> job, pc |-> pc, todo |-> t, since |-> n, got |-> o, sees |-> e]
           y3 == [job |-> job, pc |-> pc, todo |-> todo, since |-> n, got |-> o, sees |-> e]
           y4 == [job |-> job, pc |-> pc, todo |-> todo, since |-> since, got |-> o, sees |-> e]
<1>1. v = y
  BY DEF RunShape
<1> HIDE DEF j, c, t, n, o, e
<1>2. /\ [y EXCEPT !.job = job] = y1
      /\ [y1 EXCEPT !.pc = pc] = y2
      /\ [y2 EXCEPT !.todo = todo] = y3
      /\ [y3 EXCEPT !.since = since] = y4
  OBVIOUS
<1>3. [y EXCEPT !.job = job, !.pc = pc] = [[y EXCEPT !.job = job] EXCEPT !.pc = pc]
  BY DEF y
<1>4. [y EXCEPT !.job = job, !.pc = pc, !.todo = todo, !.since = since] =
        [[[[y EXCEPT !.job = job] EXCEPT !.pc = pc] EXCEPT !.todo = todo] EXCEPT !.since = since]
  BY DEF y
<1>5. IsRun(y2, job, pc, t) /\ IsRun(y4, job, pc, todo)
  BY DEF IsRun, RunShape
<1> HIDE DEF y, y1, y2, y3, y4
<1> QED
  BY <1>1, <1>2, <1>3, <1>4, <1>5 DEF t

\* A run that was never launched.
LEMMA UnusedShape ==
  RunShape(Unused)
BY DEF Unused, RunShape

\* A run that has ended keeps its job.
LEMMA ClosedFacts ==
  ASSUME NEW v, NEW pc
  PROVE  RunShape(Closed(v, pc)) /\ Closed(v, pc).job = v.job /\ Closed(v, pc).pc = pc
<1>1. IsRun(Closed(v, pc), v.job, pc, Unused.todo)
  BY UnusedShape, RunRestarted, Zenon DEF Closed
<1> QED
  BY <1>1, Zenon DEF IsRun

----------------------------------------------------------------------------
(* What is left to do *)

Kinds == {"prices", "btc_dominance", "fear_greed", "etf", "upsert", "commit",
          "liquidations", "heatmap"}
Ofs == {"binance", "coingecko", "btc", "index", "etf", "session"}
         \cup Elements(Enabled) \cup {HeatmapTargets[i].of : i \in DOMAIN HeatmapTargets}

Targets == [kind : Kinds, of : Ofs]

\* Nothing but heatmaps is left from i on, and the commit after them.
OnlyHeatmapsFrom(todo, i) ==
  /\ todo[Len(todo)].kind = "commit"
  /\ \A j \in i..(Len(todo) - 1) : todo[j].kind = "heatmap"

OnlyHeatmaps(todo) == OnlyHeatmapsFrom(todo, 1)

\* The ingestion commits with each target, the other jobs have a last commit.
AllPrices(todo) == \A i \in 1..Len(todo) : todo[i].kind = "prices"
CommitsLast(todo) ==
  /\ todo[Len(todo)].kind = "commit"
  /\ \A i \in 1..Len(todo) : todo[i].kind # "prices"

\* All heatmaps of a session come last, before the commit.
Ordered(todo) ==
  /\ todo \in Seq(Targets) /\ Len(todo) >= 1
  /\ AllPrices(todo) \/ CommitsLast(todo)
  /\ \A i \in 1..Len(todo) : todo[i].kind = "heatmap" => OnlyHeatmapsFrom(todo, i)

HasHeatmap(todo) == \E i \in 1..Len(todo) : todo[i].kind = "heatmap"

\* The ETF flows of a session are fetched one by one and written together, before
\* its only commit.
UpsertsLast(todo) ==
  \A i \in 1..Len(todo) : todo[i].kind \in {"etf", "upsert"} =>
    /\ i < Len(todo) /\ todo[Len(todo) - 1].kind = "upsert"
    /\ \A j \in 1..(Len(todo) - 1) : todo[j].kind # "commit"

\* Where the targets of two joined parts come from.
LEMMA Joined ==
  ASSUME NEW s \in Seq(Targets), NEW t \in Seq(Targets)
  PROVE  /\ s \o t \in Seq(Targets) /\ Len(s \o t) = Len(s) + Len(t)
         /\ Len(s) \in Nat /\ Len(t) \in Nat
         /\ \A i \in 1..Len(s \o t) :
              \/ i \in 1..Len(s) /\ (s \o t)[i] = s[i]
              \/ /\ i > Len(s) /\ i - Len(s) \in 1..Len(t)
                 /\ (s \o t)[i] = t[i - Len(s)]
<1>1. /\ s \o t \in Seq(Targets) /\ Len(s \o t) = Len(s) + Len(t)
      /\ \A i \in 1..(Len(s) + Len(t)) :
           (s \o t)[i] = IF i <= Len(s) THEN s[i] ELSE t[i - Len(s)]
  BY ConcatProperties
<1>2. Len(s) \in Nat /\ Len(t) \in Nat
  OBVIOUS
<1>3. ASSUME NEW i \in 1..(Len(s) + Len(t))
      PROVE  \/ i \in 1..Len(s) /\ (s \o t)[i] = s[i]
             \/ /\ i > Len(s) /\ i - Len(s) \in 1..Len(t)
                /\ (s \o t)[i] = t[i - Len(s)]
  <2>1. CASE i <= Len(s)
    <3>1. (s \o t)[i] = s[i]
      BY <1>1, <2>1, Zenon
    <3> QED
      BY <1>2, <2>1, <3>1
  <2>2. CASE ~(i <= Len(s))
    <3>1. (s \o t)[i] = t[i - Len(s)]
      BY <1>1, <2>2, Zenon
    <3>2. i > Len(s) /\ i - Len(s) \in 1..Len(t)
      BY <1>2, <2>2
    <3> QED
      BY <3>1, <3>2
  <2> QED
    BY <2>1, <2>2
<1> QED
  BY <1>1, <1>2, <1>3

\* The kinds of two plans joined, and where they end.
LEMMA JoinedKinds ==
  ASSUME NEW s \in Seq(Targets), NEW t \in Seq(Targets), NEW K,
         \A i \in 1..Len(s) : s[i].kind \in K, \A i \in 1..Len(t) : t[i].kind \in K
  PROVE  /\ \A i \in 1..Len(s \o t) : (s \o t)[i].kind \in K
         /\ Len(t) >= 1 => (s \o t)[Len(s \o t)] = t[Len(t)]
<1>1. ASSUME NEW i \in 1..Len(s \o t) PROVE (s \o t)[i].kind \in K
  <2>1. CASE i \in 1..Len(s) /\ (s \o t)[i] = s[i]
    BY <2>1
  <2>2. CASE i - Len(s) \in 1..Len(t) /\ (s \o t)[i] = t[i - Len(s)]
    BY <2>2
  <2> QED
    BY <2>1, <2>2, Joined
<1>2. ASSUME Len(t) >= 1 PROVE (s \o t)[Len(s \o t)] = t[Len(t)]
  <2>1. Len(s \o t) = Len(s) + Len(t) /\ Len(s) \in Nat /\ Len(t) \in Nat
    BY Joined
  <2>2. /\ Len(s \o t) \in 1..Len(s \o t) /\ Len(s \o t) \notin 1..Len(s)
        /\ Len(s \o t) - Len(s) = Len(t)
    BY <1>2, <2>1
  <2>3. (s \o t)[Len(s \o t)] = t[Len(s \o t) - Len(s)]
    BY <2>2, Joined
  <2> QED
    BY <2>2, <2>3
<1> QED
  BY <1>1, <1>2

\* The plans are ordered, and only the CoinGlass job has heatmaps.
LEMMA PlanOrdered ==
  ASSUME NEW job \in AllJobs
  PROVE  /\ Ordered(Plan(job))
         /\ HasHeatmap(Plan(job)) => job = "coinglass"
         /\ UpsertsLast(Plan(job))
<1>1. ASSUME NEW s, s \in Seq(Targets), Len(s) >= 1, ~HasHeatmap(s),
             AllPrices(s) \/ CommitsLast(s)
      PROVE  Ordered(s)
  BY <1>1 DEF Ordered, HasHeatmap
<1>2. Enabled \in Seq(STRING) /\ Len(Enabled) \in Nat /\ DOMAIN Enabled = 1..Len(Enabled)
  BY EnabledAssumption
<1>3. ASSUME NEW kind \in Kinds
      PROVE  LET s == TargetsOf(kind, Enabled)
             IN  /\ s \in Seq(Targets) /\ Len(s) = Len(Enabled)
                 /\ \A i \in 1..Len(s) : s[i].kind = kind
  <2> DEFINE s == TargetsOf(kind, Enabled)
  <2>1. \A i \in 1..Len(Enabled) : Target(kind, Enabled[i]) \in Targets
    BY <1>2 DEF Target, Targets, Ofs, Elements
  <2>2. s = [i \in 1..Len(Enabled) |-> Target(kind, Enabled[i])]
    BY <1>2 DEF TargetsOf
  <2>3. s \in Seq(Targets) /\ Len(s) = Len(Enabled)
    BY <1>2, <2>1, <2>2
  <2> QED
    BY <2>2, <2>3 DEF Target
<1>4. Target("upsert", "etf") \in Targets /\ CommitTarget \in Targets
  BY DEF Target, CommitTarget, Targets, Kinds, Ofs
<1>5. CASE job = "ingestion"
  <2>1. Plan(job) = TargetsOf("prices", <<"binance", "coingecko">>)
    BY <1>5 DEF Plan
  <2>2. Plan(job) = [i \in 1..2 |-> Target("prices", <<"binance", "coingecko">>[i])]
    BY <2>1 DEF TargetsOf
  <2>3. \A i \in 1..2 : Target("prices", <<"binance", "coingecko">>[i]) \in Targets
    BY DEF Target, Targets, Kinds, Ofs
  <2>4. Plan(job) \in Seq(Targets) /\ Len(Plan(job)) = 2
    BY <2>2, <2>3
  <2>5. ~HasHeatmap(Plan(job))
    BY <2>2, <2>4 DEF HasHeatmap, Target
  <2>6. AllPrices(Plan(job))
    BY <2>2, <2>4 DEF AllPrices, Target
  <2>7. UpsertsLast(Plan(job))
    BY <2>6 DEF AllPrices, UpsertsLast
  <2> QED
    BY <1>1, <2>4, <2>5, <2>6, <2>7
<1>6. CASE job \in {"btc_dominance", "fear_greed"}
  <2>1. PICK t \in Targets :
          /\ Plan(job) = <<t, CommitTarget>>
          /\ t.kind \notin {"heatmap", "prices", "etf", "upsert"}
    BY <1>6 DEF Plan, Target, Targets, Kinds, Ofs
  <2>2. Plan(job) \in Seq(Targets) /\ Len(Plan(job)) = 2
    BY <1>4, <2>1
  <2>3. ~HasHeatmap(Plan(job))
    BY <2>1, <2>2 DEF HasHeatmap, CommitTarget, Target
  <2>4. CommitsLast(Plan(job))
    BY <2>1, <2>2 DEF CommitsLast, CommitTarget, Target
  <2>5. UpsertsLast(Plan(job))
    BY <2>1, <2>2 DEF UpsertsLast, CommitTarget, Target
  <2> QED
    BY <1>1, <2>2, <2>3, <2>4, <2>5
<1>7. CASE job = "etf_flows"
  <2> DEFINE s == TargetsOf("etf", Enabled)
             t == <<Target("upsert", "etf"), CommitTarget>>
  <2>1. s \in Seq(Targets) /\ \A i \in 1..Len(s) : s[i].kind = "etf"
    BY <1>3 DEF Kinds
  <2>2. /\ t \in Seq(Targets) /\ Len(t) = 2
        /\ t[1].kind = "upsert" /\ t[2].kind = "commit"
        /\ \A i \in 1..Len(t) : t[i].kind \in {"upsert", "commit"}
        /\ t[Len(t)].kind = "commit"
    BY <1>4 DEF Target, CommitTarget
  <2>3. Plan(job) = s \o t
    BY <1>7 DEF Plan
  <2> HIDE DEF s, t
  <2>4. s \o t \in Seq(Targets) /\ Len(s \o t) >= 1
    BY <2>1, <2>2, Joined
  <2>5. /\ \A i \in 1..Len(s \o t) : (s \o t)[i].kind \in {"etf", "upsert", "commit"}
        /\ (s \o t)[Len(s \o t)].kind = "commit"
    <3> DEFINE K == {"etf", "upsert", "commit"}
    <3>1. (\A i \in 1..Len(s) : s[i].kind \in K) /\ (\A i \in 1..Len(t) : t[i].kind \in K)
      BY <2>1, <2>2
    <3>2. Len(t) >= 1
      BY <2>2
    <3> HIDE DEF K
    <3>3. /\ \A i \in 1..Len(s \o t) : (s \o t)[i].kind \in K
          /\ (s \o t)[Len(s \o t)] = t[Len(t)]
      BY <2>1, <2>2, <3>1, <3>2, JoinedKinds
    <3> QED
      BY <2>2, <3>3 DEF K
  <2>6. ~HasHeatmap(s \o t) /\ CommitsLast(s \o t)
    BY <2>5 DEF HasHeatmap, CommitsLast
  <2>7. UpsertsLast(s \o t)
    <3>1. /\ Len(s) \in Nat /\ Len(s \o t) = Len(s) + 2
          /\ Len(s) + 1 \in 1..Len(s \o t)
      <4>1. Len(s) \in Nat /\ Len(s \o t) = Len(s) + Len(t)
        BY <2>1, <2>2, Joined, Zenon
      <4> QED
        BY <2>2, <4>1
    <3>2. ASSUME NEW i \in 1..(Len(s) + 1)
          PROVE  (s \o t)[i].kind # "commit" /\ (i = Len(s) + 1 => (s \o t)[i].kind = "upsert")
      <4>1. i \in 1..Len(s \o t)
        BY <3>1
      <4>2. CASE i \in 1..Len(s) /\ (s \o t)[i] = s[i]
        BY <2>1, <3>1, <4>2
      <4>3. CASE i > Len(s) /\ (s \o t)[i] = t[i - Len(s)]
        <5>1. i - Len(s) = 1
          BY <3>1, <4>3
        <5> QED
          BY <2>2, <4>3, <5>1
      <4> QED
        BY <2>1, <2>2, <4>1, <4>2, <4>3, Joined
    <3>3. Len(s \o t) - 1 = Len(s) + 1
      BY <3>1
    <3>4. (s \o t)[Len(s \o t) - 1].kind = "upsert"
      BY <3>1, <3>2, <3>3
    <3>5. \A j \in 1..(Len(s \o t) - 1) : (s \o t)[j].kind # "commit"
      BY <3>2, <3>3
    <3>6. \A i \in 1..Len(s \o t) : (s \o t)[i].kind # "commit" => i < Len(s \o t)
      <4>1. \A i \in 1..Len(s \o t) : i < Len(s \o t) \/ i = Len(s \o t)
        BY <3>1
      <4> QED
        BY <2>5, <4>1
    <3> QED
      BY <3>4, <3>5, <3>6 DEF UpsertsLast
  <2> QED
    BY <1>1, <2>3, <2>4, <2>6, <2>7
<1>8. CASE job = "coinglass"
  <2> DEFINE s == TargetsOf("liquidations", Enabled)
             c == <<CommitTarget>>
             h == HeatmapTargets
  <2>1. s \in Seq(Targets) /\ \A i \in 1..Len(s) : s[i].kind = "liquidations"
    BY <1>3 DEF Kinds
  <2>2. c \in Seq(Targets) /\ Len(c) = 1 /\ c[1].kind = "commit"
    BY <1>4 DEF CommitTarget, Target
  <2>3. h \in Seq(Targets) /\ \A i \in 1..Len(h) : h[i].kind = "heatmap"
    <3>1. Len(HeatmapAssets) * Len(Timeframes) \in Nat
      BY EnabledAssumption, TimeframesAssumption
    <3>2. PICK n \in Nat : n = Len(HeatmapAssets) * Len(Timeframes)
      BY <3>1
    <3>3. DOMAIN h = 1..n /\ h = [i \in 1..n |-> h[i]]
      BY <3>2 DEF HeatmapTargets
    <3>4. \A i \in 1..n : h[i].kind = "heatmap" /\ h[i] \in Targets
      <4>1. ASSUME NEW i \in 1..n
            PROVE  h[i].kind = "heatmap" /\ \E o : h[i] = [kind |-> "heatmap", of |-> o]
        BY <3>2 DEF HeatmapTargets, Target
      <4>2. \A i \in 1..n : h[i].of \in Ofs
        BY <3>3 DEF Ofs
      <4>3. "heatmap" \in Kinds
        BY DEF Kinds
      <4> HIDE DEF h
      <4>4. ASSUME NEW i \in 1..n PROVE h[i] \in Targets
        <5>1. PICK o : h[i] = [kind |-> "heatmap", of |-> o]
          BY <4>1
        <5>2. o \in Ofs
          BY <4>2, <5>1
        <5> QED
          BY <4>3, <5>1, <5>2 DEF Targets
      <4> QED
        BY <4>1, <4>4
    <3> HIDE DEF h
    <3>5. h \in Seq(Targets) /\ Len(h) = n
      BY <3>3, <3>4
    <3> QED
      BY <3>4, <3>5
  <2>4. Plan(job) = s \o c \o h \o c
    BY <1>8 DEF Plan
  <2> HIDE DEF s, c, h
  <2> DEFINE p == s \o c
             q == p \o h
             w == q \o c
  <2>5. /\ p \in Seq(Targets) /\ Len(p) \in Nat
        /\ \A i \in 1..Len(p) : p[i].kind # "heatmap"
    <3>1. p \in Seq(Targets) /\ Len(p) \in Nat
      BY <2>1, <2>2, Joined
    <3>2. ASSUME NEW i \in 1..Len(p) PROVE p[i].kind # "heatmap"
      <4>1. CASE i \in 1..Len(s) /\ p[i] = s[i]
        BY <2>1, <4>1
      <4>2. CASE i - Len(s) \in 1..Len(c) /\ p[i] = c[i - Len(s)]
        <5>1. i - Len(s) = 1
          BY <2>2, <4>2
        <5> QED
          BY <2>2, <4>2, <5>1
      <4> QED
        BY <2>1, <2>2, <4>1, <4>2, Joined
    <3> QED
      BY <3>1, <3>2
  <2> HIDE DEF p
  <2>6. /\ q \in Seq(Targets) /\ Len(q) \in Nat
        /\ \A i \in 1..Len(q) : q[i].kind = "heatmap" <=> i > Len(p)
    <3>1. q \in Seq(Targets) /\ Len(q) \in Nat
      BY <2>3, <2>5, Joined
    <3>2. ASSUME NEW i \in 1..Len(q) PROVE q[i].kind = "heatmap" <=> i > Len(p)
      <4>1. CASE i \in 1..Len(p) /\ q[i] = p[i]
        BY <2>5, <4>1
      <4>2. CASE i > Len(p) /\ i - Len(p) \in 1..Len(h) /\ q[i] = h[i - Len(p)]
        BY <2>3, <4>2
      <4> QED
        BY <2>3, <2>5, <4>1, <4>2, Joined
    <3> QED
      BY <3>1, <3>2
  <2> HIDE DEF q
  <2>7. /\ w \in Seq(Targets) /\ Len(w) = Len(q) + 1
        /\ \A i \in 1..Len(w) :
             w[i].kind = "heatmap" <=> i > Len(p) /\ i <= Len(q)
    <3>1. w \in Seq(Targets) /\ Len(w) = Len(q) + 1
      <4>1. w \in Seq(Targets) /\ Len(w) = Len(q) + Len(c)
        BY <2>2, <2>6, Joined, Zenon
      <4> QED
        BY <2>2, <4>1, Zenon
    <3>2. ASSUME NEW i \in 1..Len(w)
          PROVE  w[i].kind = "heatmap" <=> i > Len(p) /\ i <= Len(q)
      <4>1. CASE i \in 1..Len(q) /\ w[i] = q[i]
        BY <2>6, <4>1
      <4>2. CASE i > Len(q) /\ i - Len(q) \in 1..Len(c) /\ w[i] = c[i - Len(q)]
        <5>1. i - Len(q) = 1 /\ ~(i <= Len(q))
          BY <2>2, <2>6, <4>2
        <5>2. w[i].kind = "commit"
          BY <2>2, <4>2, <5>1
        <5> QED
          BY <5>1, <5>2
      <4> QED
        BY <2>2, <2>6, <4>1, <4>2, Joined
    <3> QED
      BY <3>1, <3>2
  <2> HIDE DEF w
  <2>8. Ordered(w) /\ UpsertsLast(w)
    <3>1. w[Len(w)].kind = "commit"
      <4>1. Len(w) \in 1..Len(w) /\ ~(Len(w) \in 1..Len(q))
        BY <2>6, <2>7
      <4>2. w[Len(w)] = c[Len(w) - Len(q)] /\ Len(w) - Len(q) = 1
        BY <2>2, <2>6, <2>7, <4>1, Joined DEF w
      <4> QED
        BY <2>2, <4>2
    <3>2. \A i \in 1..Len(w) : w[i].kind \notin {"prices", "etf", "upsert"}
      <4> DEFINE K == {"liquidations", "commit", "heatmap"}
      <4>1. \A i \in 1..Len(c) : c[i].kind \in K
        <5>1. \A i \in 1..Len(c) : i = 1
          BY <2>2
        <5> QED
          BY <2>2, <5>1
      <4>2. \A i \in 1..Len(p) : p[i].kind \in K
        BY <2>1, <2>2, <4>1, JoinedKinds DEF p
      <4>3. \A i \in 1..Len(q) : q[i].kind \in K
        BY <2>3, <2>5, <4>2, JoinedKinds DEF q
      <4>4. \A i \in 1..Len(w) : w[i].kind \in K
        BY <2>2, <2>6, <4>1, <4>3, JoinedKinds DEF w
      <4> QED
        BY <4>4
    <3>3. CommitsLast(w)
      BY <3>1, <3>2 DEF CommitsLast
    <3>4. UpsertsLast(w)
      BY <3>2 DEF UpsertsLast
    <3> QED
      BY <2>5, <2>6, <2>7, <3>1, <3>3, <3>4 DEF Ordered, OnlyHeatmapsFrom
  <2> QED
    BY <1>8, <2>4, <2>8 DEF p, q, w
<1> QED
  BY <1>5, <1>6, <1>7, <1>8 DEF AllJobs

\* What is left once the first target is done.
LEMMA TailOrdered ==
  ASSUME NEW todo, Ordered(todo)
  PROVE  /\ Head(todo) = todo[1] /\ 1 \in 1..Len(todo)
         /\ Head(todo).kind = "heatmap" => OnlyHeatmaps(todo) /\ Len(todo) # 1
         /\ OnlyHeatmaps(todo) /\ Len(todo) # 1 => Head(todo).kind = "heatmap"
         /\ OnlyHeatmaps(todo) /\ Len(todo) = 1 => Head(todo).kind = "commit"
         /\ AllPrices(todo) <=> Head(todo).kind = "prices"
         /\ Len(todo) = 1 => Head(todo).kind \in {"prices", "commit"}
         /\ Len(todo) # 1 =>
              /\ Ordered(Tail(todo))
              /\ AllPrices(Tail(todo)) => AllPrices(todo)
              /\ HasHeatmap(Tail(todo)) => HasHeatmap(todo)
              /\ OnlyHeatmaps(todo) => OnlyHeatmaps(Tail(todo))
<1>1. /\ todo \in Seq(Targets) /\ Len(todo) \in Nat /\ Len(todo) >= 1
      /\ todo # <<>> /\ 1 \in 1..Len(todo)
  BY DEF Ordered
<1>2. Head(todo) = todo[1]
  BY <1>1
<1>3. Head(todo).kind = "heatmap" => OnlyHeatmaps(todo) /\ Len(todo) # 1
  BY <1>1, <1>2 DEF Ordered, OnlyHeatmaps, OnlyHeatmapsFrom
<1>4. ASSUME OnlyHeatmaps(todo), Len(todo) # 1 PROVE Head(todo).kind = "heatmap"
  <2>1. \A n \in Nat : n >= 1 /\ n # 1 => 1 \in 1..(n - 1)
    OBVIOUS
  <2>2. 1 \in 1..(Len(todo) - 1)
    BY <1>1, <1>4, <2>1, Zenon
  <2> QED
    BY <1>2, <1>4, <2>2, Zenon DEF OnlyHeatmaps, OnlyHeatmapsFrom
<1>6. ASSUME OnlyHeatmaps(todo), Len(todo) = 1 PROVE Head(todo).kind = "commit"
  <2>1. todo[Len(todo)].kind = "commit"
    BY <1>6, Zenon DEF OnlyHeatmaps, OnlyHeatmapsFrom
  <2> QED
    BY <1>2, <1>6, <2>1, Zenon
<1>5. ASSUME Len(todo) # 1
      PROVE  /\ Ordered(Tail(todo))
             /\ AllPrices(Tail(todo)) => AllPrices(todo)
             /\ HasHeatmap(Tail(todo)) => HasHeatmap(todo)
             /\ OnlyHeatmaps(todo) => OnlyHeatmaps(Tail(todo))
  <2> DEFINE t == Tail(todo)
  <2>1. /\ t \in Seq(Targets) /\ Len(t) = Len(todo) - 1
        /\ \A i \in 1..Len(t) : t[i] = todo[i + 1]
    BY <1>1, HeadTailProperties
  <2> HIDE DEF t
  <2>2. Len(t) >= 1 /\ Len(t) \in Nat /\ t[Len(t)] = todo[Len(todo)]
    <3>1. Len(t) >= 1 /\ Len(t) \in Nat /\ Len(t) + 1 = Len(todo)
      BY <1>1, <1>5, <2>1
    <3>2. t[Len(t)] = todo[Len(t) + 1]
      BY <2>1, <3>1
    <3> QED
      BY <3>1, <3>2
  <2>3. ASSUME NEW i \in 1..Len(t), OnlyHeatmapsFrom(todo, i + 1) PROVE OnlyHeatmapsFrom(t, i)
    <3>1. ASSUME NEW j \in i..(Len(t) - 1) PROVE t[j].kind = "heatmap"
      <4>1. j \in 1..Len(t) /\ j + 1 \in (i + 1)..(Len(todo) - 1)
        BY <1>1, <2>1, <2>2
      <4> QED
        BY <2>1, <2>3, <4>1 DEF OnlyHeatmapsFrom
    <3> QED
      BY <2>2, <2>3, <3>1 DEF OnlyHeatmapsFrom
  <2>4. \A i \in 1..Len(t) : i + 1 \in 1..Len(todo)
    BY <1>1, <2>1, <2>2
  <2>8. AllPrices(todo) => AllPrices(t)
    BY <2>1, <2>4 DEF AllPrices
  <2>9. CommitsLast(todo) => CommitsLast(t)
    BY <2>1, <2>2, <2>4 DEF CommitsLast
  <2>10. ~(AllPrices(t) /\ CommitsLast(t))
    <3>1. Len(t) \in 1..Len(t)
      BY <2>2
    <3> QED
      BY <3>1 DEF AllPrices, CommitsLast
  <2>5. Ordered(t)
    BY <2>1, <2>2, <2>3, <2>4, <2>8, <2>9 DEF Ordered
  <2>6. HasHeatmap(t) => HasHeatmap(todo)
    BY <2>1, <2>4 DEF HasHeatmap
  <2>7. OnlyHeatmaps(todo) => OnlyHeatmaps(t)
    <3>1. OnlyHeatmaps(todo) => OnlyHeatmapsFrom(todo, 1 + 1)
      BY <1>1 DEF OnlyHeatmaps, OnlyHeatmapsFrom
    <3>2. 1 \in 1..Len(t)
      BY <2>2
    <3> QED
      BY <2>3, <3>1, <3>2 DEF OnlyHeatmaps
  <2> QED
    BY <2>5, <2>6, <2>7, <2>8, <2>9, <2>10 DEF t, Ordered
<1>7. AllPrices(todo) <=> Head(todo).kind = "prices"
  BY <1>1, <1>2 DEF Ordered, AllPrices, CommitsLast
<1>8. ASSUME Len(todo) = 1 PROVE Head(todo).kind \in {"prices", "commit"}
  <2>1. CASE AllPrices(todo)
    BY <1>7, <2>1
  <2>2. CASE CommitsLast(todo)
    BY <1>2, <1>8, <2>2 DEF CommitsLast
  <2> QED
    BY <2>1, <2>2 DEF Ordered
<1> QED
  BY <1>1, <1>2, <1>3, <1>4, <1>5, <1>6, <1>7, <1>8

----------------------------------------------------------------------------
(* The inductive invariant *)

Heat == {x \in rows : x.table = "heatmap"}
Replacing == {"delete", "deleting", "insert"}

RunOK(r) ==
  /\ RunShape(run[r])
  /\ run[r].pc \in OpenPcs \cup {"unused", "done", "aborted"}
  /\ IsOpen(r) =>
       /\ r # 0
       /\ Ordered(run[r].todo)
       /\ HasHeatmap(run[r].todo) => run[r].job = "coinglass"
  /\ run[r].pc \in Replacing => Todo(r).kind = "heatmap"
  /\ run[r].pc = "deleting" => \A q \in run[r].sees : q \in Runs /\ Ended(q)

\* Runs are used in their order, and those of a job that are open while a later
\* one is used have met it.
MetOK(q, r) ==
  q < r /\ run[r].pc # "unused" =>
    /\ q # 0 => run[q].pc # "unused"
    /\ IsOpen(q) /\ run[q].job = run[r].job => {q, r} \in met

RunsOK ==
  /\ run = [r \in Runs |-> run[r]]
  /\ \A r \in Runs : RunOK(r)
  /\ \A q, r \in Runs : MetOK(q, r)

\* The buckets of a run in progress are not committed, and it has only heatmaps
\* left to do; only committed buckets are deleted.
HeatOK(x) ==
  /\ x.run \in Runs /\ run[x.run].pc # "unused"
  /\ x.txn \in {0, x.run} /\ x.dead \in Runs
  /\ x.txn # 0 => IsOpen(x.txn)
  /\ x.dead # 0 => IsOpen(x.dead) /\ x.txn = 0
  /\ IsOpen(x.run) =>
       /\ x.txn = x.run
       /\ run[x.run].job = "coinglass"
       /\ OnlyHeatmaps(run[x.run].todo)

\* A run that has deleted buckets has inserted theirs, or is about to.
ReplacedOK(x) ==
  x.dead # 0 =>
    \/ run[x.dead].pc = "insert" /\ Todo(x.dead).of = x.key
    \/ \E y \in Heat : y.key = x.key /\ y.run = x.dead

Apart(q, r) == q # r /\ {q, r} \notin met

\* The buckets of a run that did not meet r are seen by r's DELETE, and deleted.
SeenOK(x, r) ==
  run[r].pc \in {"deleting", "insert"} /\ Todo(r).of = x.key /\ Apart(x.run, r) =>
    IF run[r].pc = "insert" THEN x.dead = r ELSE x.run \in run[r].sees

\* One of two runs that did not meet has deleted the buckets of the other.
ApartOK(x, y) ==
  x.key = y.key /\ Apart(x.run, y.run) =>
    \/ y.txn # 0 /\ y.txn = y.run /\ x.dead = y.run
    \/ x.txn # 0 /\ x.txn = x.run /\ y.dead = x.run

HeatsOK ==
  /\ \A x \in rows : RowShape(x)
  /\ \A x \in Heat : HeatOK(x) /\ ReplacedOK(x)
  /\ \A x \in Heat, r \in Runs : SeenOK(x, r)
  /\ \A x, y \in Heat : ApartOK(x, y)

\* The snapshots of the batch that r is storing, each with the time of the run.
Batch(r) ==
  /\ IsFiniteSet(Written(r))
  /\ \A x \in Written(r) : x.table = "prices" /\ x.at = run[r].since /\ x.run = r
  /\ \A i \in 1..Cardinality(Written(r)) :
       \E x \in Written(r) : x.key = <<Todo(r).of, Assets[i]>>

BatchOK(r) ==
  /\ run[r].pc = "store" => Todo(r).kind = "prices"
  /\ IsOpen(r) /\ AllPrices(run[r].todo) =>
       IF run[r].pc = "store" THEN Batch(r) ELSE Written(r) = {}

\* Every asset has a committed snapshot of this time.
CompleteAt(time) ==
  \A i \in DOMAIN Assets : \E x \in Committed("prices") : x.key[2] = Assets[i] /\ x.at = time

\* Snapshots are committed in batches, and never deleted.
PriceOK(x) ==
  /\ x.txn # 0 => x.txn \in Runs /\ IsOpen(x.txn)
  /\ x.table = "prices" =>
       /\ x.dead = 0
       /\ x.txn # 0 => AllPrices(run[x.txn].todo)
       /\ x.txn = 0 => CompleteAt(x.at)

PricesOK ==
  /\ \A x \in rows : PriceOK(x)
  /\ \A r \in Runs : BatchOK(r)

CollectionInv == RunsOK /\ HeatsOK /\ PricesOK

----------------------------------------------------------------------------
(* The runs *)

\* What becomes of a run's record when it takes a step.
Successor(v, w) ==
  /\ RunShape(w) /\ w.job = v.job /\ w.pc \in OpenPcs \cup {"done", "aborted"}
  /\ w.pc \in OpenPcs =>
       /\ Ordered(w.todo)
       /\ AllPrices(w.todo) => AllPrices(v.todo)
       /\ HasHeatmap(w.todo) => HasHeatmap(v.todo)
       /\ OnlyHeatmaps(v.todo) => OnlyHeatmaps(w.todo)
  /\ w.pc \in Replacing => Head(w.todo).kind = "heatmap"

Moved(r) ==
  /\ IsOpen(r)
  /\ Successor(run[r], run'[r])
  /\ run'[r].pc = "deleting" => \A q \in run'[r].sees : q \in Runs /\ Ended(q)

\* Some runs take a step, the others do not.
RunsMove ==
  /\ run' = [r \in Runs |-> run'[r]]
  /\ \A r \in Runs : run'[r] = run[r] \/ Moved(r)
  /\ met' = met

\* Runs that move along their plans keep to them.
LEMMA RunsMoved ==
  ASSUME RunsOK, RunsMove
  PROVE  RunsOK'
<1>1. \A r \in Runs : Ended(r) => Ended(r)'
  <2> SUFFICES ASSUME NEW r \in Runs, Ended(r) PROVE Ended(r)'
    OBVIOUS
  <2>1. ~IsOpen(r)
    BY DEF Ended, IsOpen, OpenPcs
  <2>2. run'[r] = run[r]
    BY <2>1 DEF RunsMove, Moved
  <2> QED
    BY <2>2 DEF Ended
<1>2. \A r \in Runs : IsOpen(r)' => IsOpen(r)
  BY DEF RunsMove, Moved, IsOpen
<1>3. \A r \in Runs :
        /\ run'[r].job = run[r].job
        /\ run'[r].pc = "unused" <=> run[r].pc = "unused"
  <2> SUFFICES ASSUME NEW r \in Runs, Moved(r)
               PROVE  /\ run'[r].job = run[r].job
                      /\ run'[r].pc = "unused" <=> run[r].pc = "unused"
    BY Zenon DEF RunsMove
  <2> QED
    BY DEF Moved, Successor, IsOpen, OpenPcs
<1>4. ASSUME NEW r \in Runs PROVE RunOK(r)'
  <2>1. RunOK(r)
    BY DEF RunsOK
  <2>2. CASE run'[r] = run[r]
    <3>1. ASSUME run'[r].pc = "deleting"
          PROVE  \A q \in run'[r].sees : q \in Runs /\ Ended(q)'
      BY <1>1, <2>1, <2>2, <3>1 DEF RunOK
    <3> QED
      BY <2>1, <2>2, <3>1 DEF RunOK, IsOpen, Todo
  <2>3. CASE Moved(r)
    <3>1. ASSUME run'[r].pc = "deleting"
          PROVE  \A q \in run'[r].sees : q \in Runs /\ Ended(q)'
      BY <1>1, <2>3, <3>1 DEF Moved
    <3>2. RunShape(run'[r]) /\ run'[r].pc \in OpenPcs \cup {"unused", "done", "aborted"}
      BY <2>3 DEF Moved, Successor
    <3>3. ASSUME IsOpen(r)'
          PROVE  /\ r # 0
                 /\ Ordered(run'[r].todo)
                 /\ HasHeatmap(run'[r].todo) => run'[r].job = "coinglass"
      BY <2>1, <2>3, <3>3 DEF Moved, Successor, IsOpen, RunOK
    <3>4. run'[r].pc \in Replacing => Todo(r)'.kind = "heatmap"
      BY <2>3 DEF Moved, Successor, Todo
    <3> QED
      BY <3>1, <3>2, <3>3, <3>4, Zenon DEF RunOK
  <2> QED
    BY <2>2, <2>3 DEF RunsMove
<1>5. ASSUME NEW q \in Runs, NEW r \in Runs PROVE MetOK(q, r)'
  <2> SUFFICES ASSUME q < r, run'[r].pc # "unused"
               PROVE  /\ q # 0 => run'[q].pc # "unused"
                      /\ IsOpen(q)' /\ run'[q].job = run'[r].job => {q, r} \in met'
    BY DEF MetOK
  <2>1. /\ run[r].pc # "unused"
        /\ run'[q].job = run[q].job /\ run'[r].job = run[r].job
        /\ run'[q].pc = "unused" <=> run[q].pc = "unused"
    BY <1>3, Zenon
  <2>4. /\ q # 0 => run[q].pc # "unused"
        /\ IsOpen(q) /\ run[q].job = run[r].job => {q, r} \in met
    <3>1. MetOK(q, r)
      BY DEF RunsOK
    <3> QED
      BY <2>1, <3>1, Zenon DEF MetOK
  <2>2. q # 0 => run'[q].pc # "unused"
    BY <2>1, <2>4, Zenon
  <2>3. ASSUME IsOpen(q)', run'[q].job = run'[r].job PROVE {q, r} \in met'
    <3>1. IsOpen(q) /\ run[q].job = run[r].job
      BY <1>2, <2>1, <2>3
    <3>2. {q, r} \in met
      BY <2>4, <3>1, Zenon
    <3> QED
      BY <3>2 DEF RunsMove
  <2> QED
    BY <2>2, <2>3
<1> QED
  BY <1>4, <1>5, Zenon DEF RunsOK, RunsMove

\* Two runs of a job that are in progress together have met.
LEMMA OpenHaveMet ==
  ASSUME RunsOK, NEW q \in Runs, NEW r \in Runs, q # r,
         IsOpen(q), IsOpen(r), run[q].job = run[r].job
  PROVE  {q, r} \in met
<1>1. run[q].pc # "unused" /\ run[r].pc # "unused"
  BY DEF IsOpen, OpenPcs
<1>2. q < r \/ r < q
  BY BoundsAssumption DEF Runs
<1>3. {q, r} = {r, q}
  OBVIOUS
<1>4. MetOK(q, r) /\ MetOK(r, q)
  BY DEF RunsOK
<1> QED
  BY <1>1, <1>2, <1>3, <1>4, Zenon DEF MetOK

\* A run that is launched has a plan.
LEMMA RunsLaunched ==
  ASSUME RunsOK, NEW r \in Runs, NEW job \in Jobs, Launch(r, job)
  PROVE  RunsOK'
<1> DEFINE w == [Unused EXCEPT !.job = job, !.pc = "fetch", !.todo = Plan(job), !.since = clock]
<1>1. /\ RunShape(w) /\ w.job = job /\ w.pc = "fetch" /\ w.todo = Plan(job)
  <2>1. IsRun(w, job, "fetch", Plan(job))
    BY UnusedShape, RunRestarted, Zenon
  <2> QED
    BY <2>1, Zenon DEF IsRun
<1> HIDE DEF w
<1>2. /\ run' = [q \in Runs |-> run'[q]]
      /\ run'[r] = w
      /\ \A q \in Runs \ {r} : run'[q] = run[q]
  <2>1. run' = [run EXCEPT ![r] = w] /\ run = [q \in Runs |-> run[q]]
    BY DEF Launch, RunsOK, w
  <2> QED
    BY <2>1
<1>3. /\ run[r].pc = "unused" /\ r # 0
      /\ \A q \in 1..(r - 1) : run[q].pc # "unused"
      /\ \A q \in Runs : IsOpen(q) /\ run[q].job = job => {q, r} \in met'
      /\ \A m \in met : m \in met'
  BY DEF Launch
<1>4. ~Ended(r) /\ ~IsOpen(r)
  BY <1>3 DEF Ended, IsOpen, OpenPcs
<1>5. ASSUME NEW q \in Runs PROVE RunOK(q)'
  <2>1. CASE q = r
    <3>1. Ordered(Plan(job)) /\ (HasHeatmap(Plan(job)) => job = "coinglass")
      BY PlanOrdered, JobsAssumption
    <3>2. w.pc \notin Replacing /\ w.pc # "deleting" /\ w.pc \in OpenPcs
      BY <1>1 DEF Replacing, OpenPcs
    <3> QED
      BY <1>1, <1>2, <1>3, <2>1, <3>1, <3>2, Zenon DEF RunOK
  <2>2. CASE q # r
    <3>1. run'[q] = run[q] /\ RunOK(q)
      BY <1>2, <2>2 DEF RunsOK
    <3>2. ASSUME run'[q].pc = "deleting"
          PROVE  \A p \in run'[q].sees : p \in Runs /\ Ended(p)'
      <4>1. \A p \in run[q].sees : p \in Runs /\ Ended(p)
        BY <3>1, <3>2 DEF RunOK
      <4>2. \A p \in Runs : Ended(p) => Ended(p)'
        BY <1>2, <1>4 DEF Ended
      <4> QED
        BY <3>1, <4>1, <4>2
    <3> QED
      BY <3>1, <3>2 DEF RunOK, IsOpen, Todo
  <2> QED
    BY <2>1, <2>2
<1>6. ASSUME NEW q \in Runs, NEW p \in Runs PROVE MetOK(q, p)'
  <2> SUFFICES ASSUME q < p, run'[p].pc # "unused"
               PROVE  /\ q # 0 => run'[q].pc # "unused"
                      /\ IsOpen(q)' /\ run'[q].job = run'[p].job => {q, p} \in met'
    BY DEF MetOK
  <2>1. q # p
    BY BoundsAssumption DEF Runs
  <2>2. MetOK(q, p)
    BY DEF RunsOK
  <2>3. CASE p = r
    <3>1. run'[q] = run[q]
      BY <1>2, <2>1, <2>3
    <3>2. q # 0 => q \in 1..(r - 1)
      BY <2>3, BoundsAssumption DEF Runs
    <3> QED
      BY <1>1, <1>2, <1>3, <2>3, <3>1, <3>2, Zenon DEF IsOpen
  <2>4. CASE q = r
    <3>1. run'[p] = run[p]
      BY <1>2, <2>1, <2>4
    <3>2. run[q].pc # "unused"
      BY <1>3, <2>2, <2>4, <3>1, Zenon DEF MetOK
    <3> QED
      BY <1>3, <2>4, <3>2
  <2>5. CASE p # r /\ q # r
    <3>1. run'[p] = run[p] /\ run'[q] = run[q]
      BY <1>2, <2>5
    <3> QED
      BY <1>3, <2>2, <3>1, Zenon DEF MetOK, IsOpen
  <2> QED
    BY <2>3, <2>4, <2>5
<1> QED
  BY <1>2, <1>5, <1>6, Zenon DEF RunsOK

----------------------------------------------------------------------------
(* The heatmaps, when their rows stay as they are *)

NoHeat(r) == \A x \in Heat : x.run # r /\ x.dead # r

\* A run that took a step was in progress, and still has only heatmaps to do.
LEMMA MovedFacts ==
  ASSUME RunsMove, NEW r \in Runs
  PROVE  /\ run'[r] # run[r] => IsOpen(r) /\ Moved(r)
         /\ IsOpen(r)' => IsOpen(r)
         /\ run[r].pc # "unused" => run'[r].pc # "unused"
         /\ run'[r].job = run[r].job
         /\ IsOpen(r)' /\ OnlyHeatmaps(run[r].todo) => OnlyHeatmaps(run'[r].todo)
<1>1. CASE run'[r] = run[r]
  BY <1>1 DEF IsOpen
<1>2. CASE Moved(r)
  BY <1>2 DEF Moved, Successor, IsOpen, OpenPcs
<1> QED
  BY <1>1, <1>2, Zenon DEF RunsMove

\* The run of a row keeps what HeatOK says of it.
LEMMA HeatOKMoved ==
  ASSUME RunsMove, NEW x, HeatOK(x), NEW z,
         z.run = x.run, z.txn \in {0, x.run}, z.dead \in Runs,
         z.txn # 0 => IsOpen(z.txn)',
         z.dead # 0 => IsOpen(z.dead)' /\ z.txn = 0,
         IsOpen(x.run)' => z.txn = x.run
  PROVE  HeatOK(z)'
<1>1. x.run \in Runs /\ run[x.run].pc # "unused"
  BY DEF HeatOK
<1>2. /\ IsOpen(x.run)' => IsOpen(x.run)
      /\ run'[x.run].pc # "unused"
      /\ run'[x.run].job = run[x.run].job
      /\ IsOpen(x.run)' /\ OnlyHeatmaps(run[x.run].todo) => OnlyHeatmaps(run'[x.run].todo)
  BY <1>1, MovedFacts, Zenon
<1>3. ASSUME IsOpen(x.run)'
      PROVE  run'[x.run].job = "coinglass" /\ OnlyHeatmaps(run'[x.run].todo)
  <2>1. run[x.run].job = "coinglass" /\ OnlyHeatmaps(run[x.run].todo)
    BY <1>2, <1>3, Zenon DEF HeatOK
  <2> QED
    BY <1>2, <1>3, <2>1, Zenon
<1> QED
  BY <1>1, <1>2, <1>3, Zenon DEF HeatOK

\* Heatmaps stay sound when their rows do not change.
LEMMA HeatKept ==
  ASSUME RunsOK, HeatsOK, RunsMove, Heat' = Heat, \A x \in rows' : RowShape(x),
         \A r \in Runs : run'[r] # run[r] =>
           /\ run[r].pc # "insert"
           /\ IsOpen(r)' \/ NoHeat(r)
           /\ \A x \in Heat : SeenOK(x, r)'
  PROVE  HeatsOK'
<1>1. ASSUME NEW x \in Heat, NEW r \in Runs, IsOpen(r), x.run = r \/ x.dead = r
      PROVE  IsOpen(r)'
  <2>1. CASE run'[r] = run[r]
    BY <1>1, <2>1 DEF IsOpen
  <2>2. CASE run'[r] # run[r]
    BY <1>1, <2>2, Zenon DEF NoHeat
  <2> QED
    BY <2>1, <2>2
<1>2. ASSUME NEW x \in Heat PROVE HeatOK(x)' /\ ReplacedOK(x)'
  <2>1. HeatOK(x) /\ ReplacedOK(x)
    BY DEF HeatsOK
  <2>2. /\ x.run \in Runs /\ x.txn \in {0, x.run} /\ x.dead \in Runs
        /\ x.txn # 0 => IsOpen(x.txn)
        /\ x.dead # 0 => IsOpen(x.dead) /\ x.txn = 0
        /\ IsOpen(x.run) => x.txn = x.run
    BY <2>1 DEF HeatOK
  <2>3. x.txn # 0 => IsOpen(x.txn)'
    BY <1>1, <2>2
  <2>4. x.dead # 0 => IsOpen(x.dead)' /\ x.txn = 0
    BY <1>1, <2>2
  <2>5. IsOpen(x.run)' => x.txn = x.run
    BY <2>2, MovedFacts, Zenon
  <2>6. HeatOK(x)'
    BY <2>1, <2>2, <2>3, <2>4, <2>5, HeatOKMoved, Zenon
  <2>7. ASSUME x.dead # 0, run[x.dead].pc = "insert" /\ Todo(x.dead).of = x.key
        PROVE  run'[x.dead].pc = "insert" /\ Todo(x.dead)'.of = x.key
    <3>1. run'[x.dead] = run[x.dead]
      BY <2>2, <2>7, Zenon
    <3> QED
      BY <2>7, <3>1 DEF Todo
  <2>8. ReplacedOK(x)'
    BY <2>1, <2>7, Zenon DEF ReplacedOK
  <2> QED
    BY <2>6, <2>8
<1>3. ASSUME NEW x \in Heat, NEW r \in Runs PROVE SeenOK(x, r)'
  <2>1. SeenOK(x, r)
    BY DEF HeatsOK
  <2>2. CASE run'[r] = run[r]
    <3>1. /\ Todo(r)' = Todo(r)
          /\ Apart(x.run, r)' = Apart(x.run, r)
      BY <2>2 DEF Todo, Apart, RunsMove
    <3> QED
      BY <2>1, <2>2, <3>1, Zenon DEF SeenOK
  <2>3. CASE run'[r] # run[r]
    BY <2>3
  <2> QED
    BY <2>2, <2>3
<1>4. ASSUME NEW x \in Heat, NEW y \in Heat PROVE ApartOK(x, y)'
  <2>1. ApartOK(x, y)
    BY DEF HeatsOK
  <2>2. Apart(x.run, y.run)' = Apart(x.run, y.run)
    BY DEF Apart, RunsMove
  <2> QED
    BY <2>1, <2>2, Zenon DEF ApartOK
<1> QED
  BY <1>2, <1>3, <1>4, Zenon DEF HeatsOK

\* A launch concerns one run.
LEMMA LaunchedRun ==
  ASSUME RunsOK, NEW r \in Runs, NEW job, Launch(r, job)
  PROVE  run'[r].pc = "fetch" /\ \A q \in Runs \ {r} : run'[q] = run[q]
<1>1. run' = [run EXCEPT ![r] = [Unused EXCEPT !.job = job, !.pc = "fetch",
                                     !.todo = Plan(job), !.since = clock]]
  BY DEF Launch
<1>2. IsRun([Unused EXCEPT !.job = job, !.pc = "fetch", !.todo = Plan(job), !.since = clock],
            job, "fetch", Plan(job))
  BY UnusedShape, RunRestarted, Zenon
<1>3. run = [q \in Runs |-> run[q]]
  BY DEF RunsOK
<1> HIDE DEF Unused
<1>4. run'[r] = [Unused EXCEPT !.job = job, !.pc = "fetch", !.todo = Plan(job), !.since = clock]
  BY <1>1, <1>3, Zenon
<1>5. \A q \in Runs \ {r} : run'[q] = run[q]
  BY <1>1, <1>3, Zenon
<1> QED
  BY <1>2, <1>4, <1>5 DEF IsRun

\* A launched run has no rows, and meets the runs in progress.
LEMMA HeatLaunched ==
  ASSUME RunsOK, HeatsOK, NEW r \in Runs, NEW job \in Jobs, Launch(r, job)
  PROVE  HeatsOK'
<1>1. /\ rows' = rows /\ run[r].pc = "unused" /\ run'[r].pc = "fetch"
      /\ \A q \in Runs \ {r} : run'[q] = run[q]
  BY LaunchedRun DEF Launch
<1>2. Heat' = Heat
  BY <1>1 DEF Heat
<1>3. \A m \in met : m \in met'
  BY DEF Launch
<1>4. ~IsOpen(r)
  BY <1>1 DEF IsOpen, OpenPcs
<1>5. ASSUME NEW x \in Heat PROVE HeatOK(x)' /\ ReplacedOK(x)'
  <2>1. HeatOK(x) /\ ReplacedOK(x)
    BY DEF HeatsOK
  <2>2. /\ x.run \in Runs /\ run[x.run].pc # "unused"
        /\ x.txn # 0 => IsOpen(x.txn) /\ x.txn = x.run
        /\ x.dead # 0 => IsOpen(x.dead) /\ x.dead \in Runs
    BY <2>1 DEF HeatOK
  <2>3. /\ run'[x.run] = run[x.run]
        /\ x.txn # 0 => run'[x.txn] = run[x.txn]
        /\ x.dead # 0 => run'[x.dead] = run[x.dead]
    BY <1>1, <1>4, <2>2
  <2>4. HeatOK(x)'
    BY <2>1, <2>3 DEF HeatOK, IsOpen
  <2>5. ReplacedOK(x)'
    BY <1>2, <2>1, <2>3, Zenon DEF ReplacedOK, Todo
  <2> QED
    BY <2>4, <2>5
<1>6. ASSUME NEW x \in Heat, NEW q \in Runs PROVE SeenOK(x, q)'
  <2>1. SeenOK(x, q)
    BY DEF HeatsOK
  <2>2. CASE q = r
    BY <1>1, <2>2 DEF SeenOK
  <2>3. CASE q # r
    <3>1. run'[q] = run[q] /\ (Apart(x.run, q)' => Apart(x.run, q))
      BY <1>1, <1>3, <2>3 DEF Apart
    <3> QED
      BY <2>1, <3>1, Zenon DEF SeenOK, Todo
  <2> QED
    BY <2>2, <2>3
<1>7. ASSUME NEW x \in Heat, NEW y \in Heat PROVE ApartOK(x, y)'
  <2>1. ApartOK(x, y)
    BY DEF HeatsOK
  <2>2. Apart(x.run, y.run)' => Apart(x.run, y.run)
    BY <1>3 DEF Apart
  <2> QED
    BY <2>1, <2>2, Zenon DEF ApartOK
<1>8. \A x \in rows' : RowShape(x)
  BY <1>1 DEF HeatsOK
<1> QED
  BY <1>2, <1>5, <1>6, <1>7, <1>8, Zenon DEF HeatsOK

----------------------------------------------------------------------------
(* The heatmaps, when a transaction ends *)

\* Every heatmap of before is still there, if committed.
NoneLost(key) ==
  (\E x \in Heat : x.key = key /\ x.txn = 0) => \E z \in Heat' : z.key = key /\ z.txn = 0

\* What a transaction has deleted is there again, and committed no earlier than
\* the transaction, when it comes to its end.
LEMMA Replacement ==
  ASSUME RunsOK, HeatsOK, NEW x \in Heat, x.dead # 0, run[x.dead].pc # "insert"
  PROVE  \E y \in Heat : y.key = x.key /\ y.run = x.dead /\ y.txn = x.dead /\ y.dead = 0
<1>1. HeatOK(x) /\ ReplacedOK(x)
  BY DEF HeatsOK
<1>2. PICK y \in Heat : y.key = x.key /\ y.run = x.dead
  BY <1>1, Zenon DEF ReplacedOK
<1>3. IsOpen(y.run)
  BY <1>1, <1>2, Zenon DEF HeatOK
<1>4. HeatOK(y)
  BY DEF HeatsOK
<1>5. y.txn = x.dead
  BY <1>2, <1>3, <1>4, Zenon DEF HeatOK
<1>6. y.dead = 0
  BY <1>4, <1>5, Zenon DEF HeatOK
<1> QED
  BY <1>2, <1>5, <1>6, Zenon

Settled(r, y) == IF y.txn = r THEN 0 ELSE y.txn

\* What becomes of each row in a commit.
LEMMA CommittedRowFacts ==
  ASSUME \A x \in rows : RowShape(x), NEW r, rows' = CommittedRows(r)
  PROVE  /\ \A z \in rows' : \E y \in rows :
              y.dead # r /\ Becomes(y, z, Settled(r, y), y.dead)
         /\ \A y \in rows : y.dead # r =>
              \E z \in rows' : Becomes(y, z, Settled(r, y), y.dead)
<1>1. \A y \in rows : [y EXCEPT !.txn = IF @ = r THEN 0 ELSE @] =
                       [y EXCEPT !.txn = Settled(r, y)]
  BY DEF Settled
<1>2. \A y \in rows : Becomes(y, [y EXCEPT !.txn = Settled(r, y)], Settled(r, y), y.dead)
  BY RowExcept, Zenon
<1> DEFINE f(y) == [y EXCEPT !.txn = IF @ = r THEN 0 ELSE @]
<1>3. rows' = {f(y) : y \in {x \in rows : x.dead # r}}
  BY Zenon DEF CommittedRows
<1>4. \A y \in rows : Becomes(y, f(y), Settled(r, y), y.dead)
  BY <1>1, <1>2, Zenon
<1> HIDE DEF f
<1> QED
  BY <1>3, <1>4

\* A commit keeps the heatmaps sound and loses none.
LEMMA HeatCommitted ==
  ASSUME RunsOK, HeatsOK, RunsMove, NEW r \in Runs, IsOpen(r), rows' = CommittedRows(r),
         \A q \in Runs \ {r} : run'[q] = run[q],
         run[r].pc # "insert", run'[r].pc \notin {"deleting", "insert"},
         ~IsOpen(r)' \/ NoHeat(r)
  PROVE  HeatsOK' /\ \A key : NoneLost(key)
<1>1. ASSUME NEW z \in Heat'
      PROVE  \E y \in Heat : y.dead # r /\ Becomes(y, z, Settled(r, y), y.dead)
  BY CommittedRowFacts DEF Heat, HeatsOK, Becomes
<1>2. ASSUME NEW y \in Heat, y.dead # r
      PROVE  \E z \in Heat' : Becomes(y, z, Settled(r, y), y.dead)
  BY <1>2, CommittedRowFacts DEF Heat, HeatsOK, Becomes
<1>3. r # 0
  BY DEF RunsOK, RunOK
<1>4. ASSUME NEW q \in Runs, q # r PROVE run'[q] = run[q] /\ (IsOpen(q) => IsOpen(q)')
  BY <1>4 DEF IsOpen
<1>5. ASSUME NEW z \in Heat' PROVE HeatOK(z)' /\ ReplacedOK(z)'
  <2>1. PICK y \in Heat : y.dead # r /\ Becomes(y, z, Settled(r, y), y.dead)
    BY <1>1
  <2>2. HeatOK(y) /\ ReplacedOK(y)
    BY DEF HeatsOK
  <2>3. /\ z.key = y.key /\ z.run = y.run /\ z.dead = y.dead
        /\ z.txn = Settled(r, y) /\ z.dead # r
    BY <2>1 DEF Becomes
  <2>4. /\ y.run \in Runs /\ y.txn \in {0, y.run} /\ y.dead \in Runs
        /\ y.txn # 0 => IsOpen(y.txn)
        /\ y.dead # 0 => IsOpen(y.dead) /\ y.txn = 0
        /\ IsOpen(y.run) => y.txn = y.run
    BY <2>2 DEF HeatOK
  <2>5. z.txn \in {0, y.run} /\ z.txn # r /\ (z.txn # 0 => z.txn = y.txn)
    BY <1>3, <2>3, <2>4 DEF Settled
  <2>6. z.txn # 0 => IsOpen(z.txn)'
    BY <1>4, <2>4, <2>5
  <2>7. z.dead # 0 => IsOpen(z.dead)' /\ z.txn = 0
    <3>1. ASSUME z.dead # 0 PROVE y.txn = 0 /\ IsOpen(y.dead)
      BY <2>3, <2>4, <3>1
    <3> QED
      BY <1>4, <2>3, <2>4, <2>5, <3>1
  <2>8. IsOpen(y.run)' => z.txn = y.run
    <3>1. ASSUME IsOpen(y.run)' PROVE y.run # r
      BY <3>1, Zenon DEF NoHeat
    <3>2. ASSUME IsOpen(y.run)' PROVE y.txn = y.run
      BY <2>4, <3>2, MovedFacts, Zenon
    <3> QED
      BY <2>3, <3>1, <3>2 DEF Settled
  <2>9. HeatOK(z)'
    BY <2>2, <2>3, <2>4, <2>5, <2>6, <2>7, <2>8, HeatOKMoved, Zenon
  <2>10. ASSUME z.dead # 0, ~(run'[z.dead].pc = "insert" /\ Todo(z.dead)'.of = z.key)
         PROVE  \E x \in Heat' : x.key = z.key /\ x.run = z.dead
    <3>1. run'[y.dead] = run[y.dead] /\ y.dead # 0
      BY <1>4, <2>3, <2>4, <2>10
    <3>2. PICK x \in Heat : x.key = y.key /\ x.run = y.dead
      BY <2>2, <2>3, <2>10, <3>1, Zenon DEF ReplacedOK, Todo
    <3>3. HeatOK(x) /\ IsOpen(x.run)
      BY <2>4, <3>1, <3>2, Zenon DEF HeatsOK
    <3>4. x.txn # 0
      BY <3>1, <3>2, <3>3, Zenon DEF HeatOK
    <3>5. x.dead # r
      BY <1>3, <3>3, <3>4, Zenon DEF HeatOK
    <3>6. PICK w \in Heat' : Becomes(x, w, Settled(r, x), x.dead)
      BY <1>2, <3>5
    <3> QED
      BY <2>3, <3>2, <3>6, Zenon DEF Becomes
  <2>11. ReplacedOK(z)'
    BY <2>10, Zenon DEF ReplacedOK
  <2> QED
    BY <2>9, <2>11
<1>6. ASSUME NEW z \in Heat', NEW q \in Runs PROVE SeenOK(z, q)'
  <2>1. PICK y \in Heat : y.dead # r /\ Becomes(y, z, Settled(r, y), y.dead)
    BY <1>1
  <2>2. z.key = y.key /\ z.run = y.run /\ z.dead = y.dead /\ SeenOK(y, q)
    BY <2>1 DEF Becomes, HeatsOK
  <2>3. CASE q = r
    BY <2>3 DEF SeenOK
  <2>4. CASE q # r
    <3>1. run'[q] = run[q] /\ Apart(z.run, q)' = Apart(y.run, q)
      BY <1>4, <2>2, <2>4 DEF Apart, RunsMove
    <3> QED
      BY <2>2, <3>1, Zenon DEF SeenOK, Todo
  <2> QED
    BY <2>3, <2>4
<1>7. ASSUME NEW z1 \in Heat', NEW z2 \in Heat' PROVE ApartOK(z1, z2)'
  <2>1. PICK y1 \in Heat : y1.dead # r /\ Becomes(y1, z1, Settled(r, y1), y1.dead)
    BY <1>1
  <2>2. PICK y2 \in Heat : y2.dead # r /\ Becomes(y2, z2, Settled(r, y2), y2.dead)
    BY <1>1
  <2>3. /\ ApartOK(y1, y2)
        /\ z1.key = y1.key /\ z1.run = y1.run /\ z1.dead = y1.dead /\ z1.txn = Settled(r, y1)
        /\ z2.key = y2.key /\ z2.run = y2.run /\ z2.dead = y2.dead /\ z2.txn = Settled(r, y2)
    BY <2>1, <2>2 DEF HeatsOK, Becomes
  <2>4. Apart(z1.run, z2.run)' = Apart(y1.run, y2.run)
    BY <2>3 DEF Apart, RunsMove
  <2>5. ASSUME y2.txn # 0, y2.txn = y2.run, y1.dead = y2.run
        PROVE  z2.txn # 0 /\ z2.txn = z2.run /\ z1.dead = z2.run
    BY <2>1, <2>3, <2>5 DEF Settled
  <2>6. ASSUME y1.txn # 0, y1.txn = y1.run, y2.dead = y1.run
        PROVE  z1.txn # 0 /\ z1.txn = z1.run /\ z2.dead = z1.run
    BY <2>2, <2>3, <2>6 DEF Settled
  <2>7. ASSUME y1.key = y2.key, Apart(y1.run, y2.run)
        PROVE  \/ z2.txn # 0 /\ z2.txn = z2.run /\ z1.dead = z2.run
               \/ z1.txn # 0 /\ z1.txn = z1.run /\ z2.dead = z1.run
    BY <2>3, <2>5, <2>6, <2>7, Zenon DEF ApartOK
  <2> QED
    BY <2>3, <2>4, <2>7, Zenon DEF ApartOK
<1>8. \A z \in rows' : RowShape(z)
  BY CommittedRowFacts DEF HeatsOK, Becomes
<1>9. ASSUME NEW key PROVE NoneLost(key)
  <2> SUFFICES ASSUME NEW x \in Heat, x.key = key, x.txn = 0
               PROVE  \E z \in Heat' : z.key = key /\ z.txn = 0
    BY DEF NoneLost
  <2>1. CASE x.dead # r
    <3>1. PICK z \in Heat' : Becomes(x, z, Settled(r, x), x.dead)
      BY <1>2, <2>1
    <3> QED
      BY <3>1 DEF Becomes, Settled
  <2>2. CASE x.dead = r
    <3>1. PICK y \in Heat : y.key = key /\ y.txn = r /\ y.dead = 0
      BY <1>3, <2>2, Replacement, Zenon
    <3>2. PICK z \in Heat' : Becomes(y, z, Settled(r, y), y.dead)
      BY <1>2, <1>3, <3>1
    <3> QED
      BY <3>1, <3>2 DEF Becomes, Settled
  <2> QED
    BY <2>1, <2>2
<1> QED
  BY <1>5, <1>6, <1>7, <1>8, <1>9, Zenon DEF HeatsOK

Undeleted(R, y) == IF y.dead \in R THEN 0 ELSE y.dead

\* What becomes of each row in a rollback.
LEMMA RolledBackRowFacts ==
  ASSUME \A x \in rows : RowShape(x), NEW R, RollBack(R)
  PROVE  /\ \A z \in rows' : \E y \in rows :
              y.txn \notin R /\ Becomes(y, z, y.txn, Undeleted(R, y))
         /\ \A y \in rows : y.txn \notin R =>
              \E z \in rows' : Becomes(y, z, y.txn, Undeleted(R, y))
<1>1. \A y \in rows : [y EXCEPT !.dead = IF @ \in R THEN 0 ELSE @] =
                       [y EXCEPT !.dead = Undeleted(R, y)]
  BY DEF Undeleted
<1>2. \A y \in rows : Becomes(y, [y EXCEPT !.dead = Undeleted(R, y)], y.txn, Undeleted(R, y))
  BY RowExcept, Zenon
<1> DEFINE f(y) == [y EXCEPT !.dead = IF @ \in R THEN 0 ELSE @]
<1>3. rows' = {f(y) : y \in {x \in rows : x.txn \notin R}}
  BY Zenon DEF RollBack
<1>4. \A y \in rows : Becomes(y, f(y), y.txn, Undeleted(R, y))
  BY <1>1, <1>2, Zenon
<1> HIDE DEF f
<1> QED
  BY <1>3, <1>4

\* A rollback keeps the heatmaps sound and loses none.
LEMMA HeatRolledBack ==
  ASSUME RunsOK, HeatsOK, RunsMove, NEW R \in SUBSET Runs, \A r \in R : IsOpen(r),
         RollBack(R),
         \A q \in Runs \ R : run'[q] = run[q],
         \A r \in R : run'[r].pc = "aborted"
  PROVE  HeatsOK' /\ \A key : NoneLost(key)
<1>1. ASSUME NEW z \in Heat'
      PROVE  \E y \in Heat : y.txn \notin R /\ Becomes(y, z, y.txn, Undeleted(R, y))
  BY RolledBackRowFacts DEF Heat, HeatsOK, Becomes
<1>2. ASSUME NEW y \in Heat, y.txn \notin R
      PROVE  \E z \in Heat' : Becomes(y, z, y.txn, Undeleted(R, y))
  BY <1>2, RolledBackRowFacts DEF Heat, HeatsOK, Becomes
<1>3. 0 \notin R
  BY DEF RunsOK, RunOK
<1>4. ASSUME NEW q \in Runs, q \notin R PROVE run'[q] = run[q] /\ (IsOpen(q) => IsOpen(q)')
  BY <1>4 DEF IsOpen
<1>5. \A r \in R : ~IsOpen(r)' /\ run'[r].pc \notin {"deleting", "insert"}
  BY DEF IsOpen, OpenPcs
<1>6. ASSUME NEW z \in Heat' PROVE HeatOK(z)' /\ ReplacedOK(z)'
  <2>1. PICK y \in Heat : y.txn \notin R /\ Becomes(y, z, y.txn, Undeleted(R, y))
    BY <1>1
  <2>2. HeatOK(y) /\ ReplacedOK(y)
    BY DEF HeatsOK
  <2>3. /\ z.key = y.key /\ z.run = y.run /\ z.txn = y.txn
        /\ z.dead = Undeleted(R, y)
    BY <2>1 DEF Becomes
  <2>4. /\ y.run \in Runs /\ y.txn \in {0, y.run} /\ y.dead \in Runs
        /\ y.txn # 0 => IsOpen(y.txn)
        /\ y.dead # 0 => IsOpen(y.dead) /\ y.txn = 0
        /\ IsOpen(y.run) => y.txn = y.run
    BY <2>2 DEF HeatOK
  <2>5. z.dead \in Runs /\ z.dead \notin R /\ (z.dead # 0 => z.dead = y.dead)
    BY <1>3, <2>3, <2>4, BoundsAssumption DEF Undeleted, Runs
  <2>6. z.txn # 0 => IsOpen(z.txn)'
    BY <1>4, <2>1, <2>3, <2>4
  <2>7. z.dead # 0 => IsOpen(z.dead)' /\ z.txn = 0
    BY <1>4, <2>3, <2>4, <2>5
  <2>8. IsOpen(y.run)' => z.txn = y.run
    BY <2>3, <2>4, MovedFacts, Zenon
  <2>9. HeatOK(z)'
    BY <2>2, <2>3, <2>4, <2>5, <2>6, <2>7, <2>8, HeatOKMoved, Zenon
  <2>10. ASSUME z.dead # 0, ~(run'[z.dead].pc = "insert" /\ Todo(z.dead)'.of = z.key)
         PROVE  \E x \in Heat' : x.key = z.key /\ x.run = z.dead
    <3>1. run'[y.dead] = run[y.dead] /\ z.dead = y.dead /\ y.dead # 0 /\ y.dead \notin R
      BY <1>4, <2>5, <2>10
    <3>2. PICK x \in Heat : x.key = y.key /\ x.run = y.dead
      BY <2>2, <2>3, <2>10, <3>1, Zenon DEF ReplacedOK, Todo
    <3>3. HeatOK(x) /\ IsOpen(x.run)
      BY <2>4, <3>1, <3>2, Zenon DEF HeatsOK
    <3>4. x.txn \notin R
      BY <3>1, <3>2, <3>3, Zenon DEF HeatOK
    <3>5. PICK w \in Heat' : Becomes(x, w, x.txn, Undeleted(R, x))
      BY <1>2, <3>4
    <3> QED
      BY <2>3, <3>1, <3>2, <3>5, Zenon DEF Becomes
  <2>11. ReplacedOK(z)'
    BY <2>10, Zenon DEF ReplacedOK
  <2> QED
    BY <2>9, <2>11
<1>7. ASSUME NEW z \in Heat', NEW q \in Runs PROVE SeenOK(z, q)'
  <2>1. PICK y \in Heat : y.txn \notin R /\ Becomes(y, z, y.txn, Undeleted(R, y))
    BY <1>1
  <2>2. z.key = y.key /\ z.run = y.run /\ z.dead = Undeleted(R, y) /\ SeenOK(y, q)
    BY <2>1 DEF Becomes, HeatsOK
  <2>3. CASE q \in R
    BY <1>5, <2>3 DEF SeenOK
  <2>4. CASE q \notin R
    <3>1. run'[q] = run[q] /\ Apart(z.run, q)' = Apart(y.run, q)
      BY <1>4, <2>2, <2>4 DEF Apart, RunsMove
    <3>2. y.dead = q => z.dead = q
      BY <2>2, <2>4 DEF Undeleted
    <3> QED
      BY <2>2, <3>1, <3>2, Zenon DEF SeenOK, Todo
  <2> QED
    BY <2>3, <2>4
<1>8. ASSUME NEW z1 \in Heat', NEW z2 \in Heat' PROVE ApartOK(z1, z2)'
  <2>1. PICK y1 \in Heat : y1.txn \notin R /\ Becomes(y1, z1, y1.txn, Undeleted(R, y1))
    BY <1>1
  <2>2. PICK y2 \in Heat : y2.txn \notin R /\ Becomes(y2, z2, y2.txn, Undeleted(R, y2))
    BY <1>1
  <2>3. /\ ApartOK(y1, y2)
        /\ z1.key = y1.key /\ z1.run = y1.run /\ z1.dead = Undeleted(R, y1) /\ z1.txn = y1.txn
        /\ z2.key = y2.key /\ z2.run = y2.run /\ z2.dead = Undeleted(R, y2) /\ z2.txn = y2.txn
    BY <2>1, <2>2 DEF HeatsOK, Becomes
  <2>4. Apart(z1.run, z2.run)' = Apart(y1.run, y2.run)
    BY <2>3 DEF Apart, RunsMove
  <2>5. ASSUME y2.txn # 0, y2.txn = y2.run, y1.dead = y2.run
        PROVE  z2.txn # 0 /\ z2.txn = z2.run /\ z1.dead = z2.run
    BY <2>2, <2>3, <2>5 DEF Undeleted
  <2>6. ASSUME y1.txn # 0, y1.txn = y1.run, y2.dead = y1.run
        PROVE  z1.txn # 0 /\ z1.txn = z1.run /\ z2.dead = z1.run
    BY <2>1, <2>3, <2>6 DEF Undeleted
  <2>7. ASSUME y1.key = y2.key, Apart(y1.run, y2.run)
        PROVE  \/ z2.txn # 0 /\ z2.txn = z2.run /\ z1.dead = z2.run
               \/ z1.txn # 0 /\ z1.txn = z1.run /\ z2.dead = z1.run
    BY <2>3, <2>5, <2>6, <2>7, Zenon DEF ApartOK
  <2> QED
    BY <2>3, <2>4, <2>7, Zenon DEF ApartOK
<1>9. \A z \in rows' : RowShape(z)
  BY RolledBackRowFacts DEF HeatsOK, Becomes
<1>10. ASSUME NEW key PROVE NoneLost(key)
  <2> SUFFICES ASSUME NEW x \in Heat, x.key = key, x.txn = 0
               PROVE  \E z \in Heat' : z.key = key /\ z.txn = 0
    BY DEF NoneLost
  <2>1. PICK z \in Heat' : Becomes(x, z, x.txn, Undeleted(R, x))
    BY <1>2, <1>3
  <2> QED
    BY <2>1 DEF Becomes
<1> QED
  BY <1>6, <1>7, <1>8, <1>9, <1>10, Zenon DEF HeatsOK

----------------------------------------------------------------------------
(* The heatmaps, when one is replaced *)

\* Of the rows of before, r touches no price and no row of another transaction.
OnlyOtherRows(r) ==
  /\ \A z \in rows' : z \in rows \/ (z.table # "prices" /\ z.txn \in {0, r})
  /\ \A x \in rows : x \in rows' \/ (x.table # "prices" /\ x.txn \in {0, r})

\* A step of r between the DELETE and the INSERT.
Replaces(r) ==
  /\ RunsMove /\ IsOpen(r) /\ IsOpen(r)'
  /\ \A q \in Runs \ {r} : run'[q] = run[q]
  /\ Todo(r).kind = "heatmap" /\ run'[r].pc # "store"
  /\ OnlyOtherRows(r)

\* The record of r is w now, and nothing else has moved.
LEMMA RunBecomes ==
  ASSUME RunsOK, NEW r \in Runs, NEW w, run' = [run EXCEPT ![r] = w], met' = met,
         IsOpen(r), Successor(run[r], w),
         w.pc = "deleting" => \A q \in w.sees : q \in Runs /\ Ended(q)
  PROVE  /\ RunsMove /\ run'[r] = w
         /\ \A q \in Runs \ {r} : run'[q] = run[q]
<1>1. run = [q \in Runs |-> run[q]]
  BY DEF RunsOK
<1>2. run'[r] = w /\ \A q \in Runs \ {r} : run'[q] = run[q]
  BY <1>1
<1>3. run' = [q \in Runs |-> run'[q]]
  BY <1>1
<1> QED
  BY <1>2, <1>3 DEF RunsMove, Moved

\* z is what r's DELETE makes of y.
Found(r, y, z) == IF y \in Seen(r) THEN Becomes(y, z, y.txn, r) ELSE z = y

\* The DELETE hides buckets in its own transaction only.
LEMMA HeatDeleted ==
  ASSUME RunsOK, HeatsOK, NEW r \in Runs, DeleteEnds(r)
  PROVE  RunsOK' /\ HeatsOK' /\ Replaces(r) /\ \A key : NoneLost(key)
<1> DEFINE w == [run[r] EXCEPT !.pc = "insert", !.sees = {}]
           of == Todo(r).of
           sees == run[r].sees
<1>1. RunOK(r) /\ run[r].pc = "deleting" /\ IsOpen(r) /\ r # 0
  BY DEF RunsOK, DeleteEnds, IsOpen, OpenPcs, RunOK
<1>2. /\ RunShape(w) /\ w.pc = "insert" /\ w.job = run[r].job
      /\ w.todo = run[r].todo
  <2>1. IsRun(w, run[r].job, "insert", run[r].todo)
    BY <1>1, RunExcept, Zenon DEF RunOK
  <2> QED
    BY <2>1, Zenon DEF IsRun
<1>3. run' = [run EXCEPT ![r] = w] /\ met' = met
  BY Zenon DEF DeleteEnds
<1> HIDE DEF w
<1>4. Successor(run[r], w)
  BY <1>1, <1>2 DEF Successor, RunOK, OpenPcs, Replacing, Todo
<1>5. /\ RunsMove /\ run'[r] = w
      /\ \A q \in Runs \ {r} : run'[q] = run[q]
  BY <1>1, <1>2, <1>3, <1>4, RunBecomes
<1>6. RunsOK'
  BY <1>5, RunsMoved
<1>7. \A q \in Runs : IsOpen(q) => IsOpen(q)'
  BY <1>2, <1>5 DEF IsOpen, OpenPcs
<1> DEFINE f(x) == [x EXCEPT !.dead = r]
<1>8. rows' = (rows \ Seen(r)) \cup {f(x) : x \in Seen(r)}
  BY Zenon DEF DeleteEnds
<1>9. \A x \in rows : Becomes(x, f(x), x.txn, r)
  BY RowExcept, Zenon DEF HeatsOK
<1> HIDE DEF f
<1>10. /\ Seen(r) = {x \in Heat : x.key = of /\ x.run \in sees}
       /\ \A x \in Seen(r) : x.dead = 0
  BY DEF Seen, Heat, DeleteEnds
<1> HIDE DEF of, sees
\* The rows are those of before, but for those that the statement has found.
<1>11. ASSUME NEW z \in Heat'
       PROVE  \E y \in Heat : Found(r, y, z)
  BY <1>8, <1>9, <1>10 DEF Heat, Becomes, Found
<1>12. ASSUME NEW y \in Heat
       PROVE  \E z \in Heat' : Found(r, y, z)
  BY <1>8, <1>9, <1>10 DEF Heat, Becomes, Found
<1>13. \A x \in Seen(r) : x.txn = 0
  <2> SUFFICES ASSUME NEW x \in Seen(r) PROVE x.txn = 0
    OBVIOUS
  <2>1. x \in Heat /\ x.run \in sees
    BY <1>10
  <2>2. HeatOK(x) /\ Ended(x.run)
    BY <1>1, <2>1 DEF HeatsOK, RunOK, sees
  <2>3. ~IsOpen(x.run)
    BY <2>2 DEF Ended, IsOpen, OpenPcs
  <2> QED
    BY <2>2, <2>3, Zenon DEF HeatOK
<1>14. Todo(r)'.of = of
  BY <1>2, <1>5 DEF Todo, of
<1>15. ASSUME NEW z \in Heat' PROVE HeatOK(z)' /\ ReplacedOK(z)'
  <2>1. PICK y \in Heat : Found(r, y, z)
    BY <1>11
  <2>2. HeatOK(y) /\ ReplacedOK(y)
    BY DEF HeatsOK
  <2>3. /\ z.key = y.key /\ z.run = y.run /\ z.txn = y.txn
        /\ \/ z.dead = y.dead
           \/ z.dead = r /\ y.txn = 0 /\ z.key = of
    BY <1>10, <1>13, <2>1 DEF Becomes, Found
  <2>4. /\ y.run \in Runs /\ y.txn \in {0, y.run} /\ y.dead \in Runs
        /\ y.txn # 0 => IsOpen(y.txn)
        /\ y.dead # 0 => IsOpen(y.dead) /\ y.txn = 0
        /\ IsOpen(y.run) => y.txn = y.run
    BY <2>2 DEF HeatOK
  <2>5. z.dead \in Runs
    BY <2>3, <2>4
  <2>6. z.txn # 0 => IsOpen(z.txn)'
    BY <1>7, <2>3, <2>4
  <2>7. z.dead # 0 => IsOpen(z.dead)' /\ z.txn = 0
    BY <1>1, <1>7, <2>3, <2>4
  <2>8. IsOpen(y.run)' => z.txn = y.run
    BY <1>5, <2>3, <2>4, MovedFacts, Zenon
  <2>9. HeatOK(z)'
    BY <1>5, <2>2, <2>3, <2>4, <2>5, <2>6, <2>7, <2>8, HeatOKMoved, Zenon
  <2>10. ReplacedOK(z)'
    <3>1. CASE z.dead = r /\ z.key = of
      BY <1>2, <1>5, <1>14, <3>1, Zenon DEF ReplacedOK
    <3>2. CASE z.dead = y.dead /\ z.dead # 0 /\ run'[z.dead].pc = "insert" /\ Todo(z.dead)'.of = z.key
      BY <3>2, Zenon DEF ReplacedOK
    <3>3. CASE /\ z.dead = y.dead /\ z.dead # 0
               /\ ~(run'[z.dead].pc = "insert" /\ Todo(z.dead)'.of = z.key)
               /\ ~(z.dead = r /\ z.key = of)
      <4>1. ~(run[y.dead].pc = "insert" /\ Todo(y.dead).of = y.key)
        <5>1. CASE y.dead = r
          BY <1>1, <5>1
        <5>2. CASE y.dead # r
          <6>1. run'[y.dead] = run[y.dead]
            BY <1>5, <2>4, <5>2
          <6> QED
            BY <2>3, <3>3, <6>1, Zenon DEF Todo
        <5> QED
          BY <5>1, <5>2
      <4>2. PICK x \in Heat : x.key = y.key /\ x.run = y.dead
        BY <2>2, <3>3, <4>1, Zenon DEF ReplacedOK
      <4>3. PICK v \in Heat' : Found(r, x, v)
        BY <1>12
      <4>4. v.key = x.key /\ v.run = x.run
        BY <4>3 DEF Found, Becomes
      <4> QED
        BY <2>3, <3>3, <4>2, <4>4, Zenon DEF ReplacedOK
    <3>4. CASE z.dead = 0
      BY <3>4 DEF ReplacedOK
    <3> QED
      BY <2>3, <3>1, <3>2, <3>3, <3>4, Zenon
  <2> QED
    BY <2>9, <2>10
<1>16. ASSUME NEW z \in Heat', NEW q \in Runs PROVE SeenOK(z, q)'
  <2>1. PICK y \in Heat : Found(r, y, z)
    BY <1>11
  <2>2. /\ z.key = y.key /\ z.run = y.run /\ SeenOK(y, q)
        /\ z.dead = IF y \in Seen(r) THEN r ELSE y.dead
        /\ Apart(z.run, q)' = Apart(y.run, q)
    BY <1>3, <2>1 DEF Becomes, Found, HeatsOK, Apart
  <2>3. CASE q = r
    <3>1. ASSUME z.key = of, Apart(y.run, r) PROVE z.dead = r
      <4>1. y.run \in sees
        BY <1>1, <2>2, <2>3, <3>1 DEF SeenOK, of, sees
      <4> QED
        BY <1>10, <2>2, <3>1, <4>1
    <3> QED
      BY <1>2, <1>5, <1>14, <2>2, <2>3, <3>1, Zenon DEF SeenOK
  <2>4. CASE q # r
    <3>1. run'[q] = run[q]
      BY <1>5, <2>4
    <3>2. y.dead = q => z.dead = q \/ run[q].pc # "insert"
      <4>1. y \in Seen(r) /\ y.dead = q => ~IsOpen(q)
        BY <1>10 DEF RunsOK, RunOK
      <4> QED
        BY <2>2, <4>1 DEF IsOpen, OpenPcs
    <3> QED
      BY <2>2, <3>1, <3>2, Zenon DEF SeenOK, Todo
  <2> QED
    BY <2>3, <2>4
<1>17. ASSUME NEW z1 \in Heat', NEW z2 \in Heat' PROVE ApartOK(z1, z2)'
  <2>1. PICK y1 \in Heat : Found(r, y1, z1)
    BY <1>11
  <2>2. PICK y2 \in Heat : Found(r, y2, z2)
    BY <1>11
  <2>3. /\ ApartOK(y1, y2)
        /\ z1.key = y1.key /\ z1.run = y1.run /\ z1.txn = y1.txn
        /\ z2.key = y2.key /\ z2.run = y2.run /\ z2.txn = y2.txn
        /\ y1.dead # 0 => z1.dead = y1.dead
        /\ y2.dead # 0 => z2.dead = y2.dead
    BY <1>10, <2>1, <2>2 DEF HeatsOK, Becomes, Found
  <2>4. Apart(z1.run, z2.run)' = Apart(y1.run, y2.run)
    BY <1>3, <2>3 DEF Apart
  <2>5. ASSUME y1.key = y2.key, Apart(y1.run, y2.run)
        PROVE  \/ z2.txn # 0 /\ z2.txn = z2.run /\ z1.dead = z2.run
               \/ z1.txn # 0 /\ z1.txn = z1.run /\ z2.dead = z1.run
    BY <2>3, <2>5, Zenon DEF ApartOK
  <2> QED
    BY <2>3, <2>4, <2>5, Zenon DEF ApartOK
<1>18. \A z \in rows' : RowShape(z)
  BY <1>8, <1>9, <1>10 DEF HeatsOK, Becomes, Seen
<1>19. \A key : NoneLost(key)
  BY <1>12 DEF NoneLost, Becomes, Found
<1>20. Replaces(r)
  <2>1. OnlyOtherRows(r)
    BY <1>8, <1>9, <1>10, <1>13 DEF OnlyOtherRows, Becomes, Heat
  <2>2. Todo(r).kind = "heatmap"
    BY <1>1 DEF RunOK, Replacing
  <2> QED
    BY <1>1, <1>2, <1>5, <1>7, <2>1, <2>2 DEF Replaces
<1> QED
  BY <1>6, <1>15, <1>16, <1>17, <1>18, <1>19, <1>20, Zenon DEF HeatsOK

\* A run that moves on.
LEMMA AdvancedFacts ==
  ASSUME NEW v, RunShape(v), Ordered(v.todo)
  PROVE  /\ Successor(v, Advanced(v))
         /\ Len(v.todo) = 1 => Advanced(v).pc = "done"
         /\ Len(v.todo) # 1 => Advanced(v).pc = "fetch" /\ Advanced(v).todo = Tail(v.todo)
<1>1. CASE Len(v.todo) = 1
  <2>1. Advanced(v) = Closed(v, "done")
    BY <1>1, Zenon DEF Advanced
  <2>2. /\ RunShape(Advanced(v)) /\ Advanced(v).job = v.job
        /\ Advanced(v).pc = "done"
    BY <2>1, ClosedFacts
  <2> QED
    BY <1>1, <2>2 DEF Successor, OpenPcs, Replacing
<1>2. CASE Len(v.todo) # 1
  <2> DEFINE w == [v EXCEPT !.todo = Tail(v.todo), !.pc = "fetch"]
  <2>1. Advanced(v) = w
    BY <1>2, Zenon DEF Advanced
  <2>2. IsRun(w, v.job, "fetch", Tail(v.todo))
    BY RunExcept, Zenon
  <2> HIDE DEF w
  <2>3. /\ RunShape(w) /\ w.job = v.job /\ w.pc = "fetch" /\ w.todo = Tail(v.todo)
    BY <2>2 DEF IsRun
  <2>4. /\ Ordered(Tail(v.todo))
        /\ AllPrices(Tail(v.todo)) => AllPrices(v.todo)
        /\ HasHeatmap(Tail(v.todo)) => HasHeatmap(v.todo)
        /\ OnlyHeatmaps(v.todo) => OnlyHeatmaps(Tail(v.todo))
    BY <1>2, TailOrdered
  <2>5. "fetch" \in OpenPcs /\ "fetch" \notin Replacing
    BY DEF OpenPcs, Replacing
  <2>6. Successor(v, w)
    BY <2>3, <2>4, <2>5 DEF Successor
  <2> QED
    BY <1>2, <2>1, <2>3, <2>6
<1> QED
  BY <1>1, <1>2

\* A run that replaces a heatmap has only heatmaps left.
LEMMA ReplacingFacts ==
  ASSUME RunsOK, NEW r \in Runs, run[r].pc \in Replacing
  PROVE  /\ IsOpen(r) /\ run[r].job = "coinglass" /\ Len(run[r].todo) # 1
         /\ OnlyHeatmaps(run[r].todo)
<1>1. RunOK(r) /\ IsOpen(r)
  BY DEF RunsOK, Replacing, OpenPcs, IsOpen
<1>2. Ordered(run[r].todo) /\ Head(run[r].todo).kind = "heatmap"
  BY <1>1 DEF RunOK, Todo
<1>3. /\ OnlyHeatmaps(run[r].todo) /\ Len(run[r].todo) # 1
      /\ 1 \in 1..Len(run[r].todo) /\ run[r].todo[1].kind = "heatmap"
  BY <1>2, TailOrdered
<1>4. HasHeatmap(run[r].todo)
  BY <1>3 DEF HasHeatmap
<1> QED
  BY <1>1, <1>3, <1>4, Zenon DEF RunOK

\* Two runs that work on heatmaps have met.
LEMMA HeatmapRunsMet ==
  ASSUME RunsOK, NEW q \in Runs, NEW r \in Runs, IsOpen(q), run[q].job = "coinglass",
         run[r].pc \in Replacing
  PROVE  ~Apart(q, r)
BY ReplacingFacts, OpenHaveMet DEF Apart

\* The buckets are inserted in the place of those deleted.
LEMMA HeatInserted ==
  ASSUME RunsOK, HeatsOK, NEW r \in Runs, InsertBuckets(r)
  PROVE  RunsOK' /\ HeatsOK' /\ Replaces(r) /\ \A key : NoneLost(key)
<1> DEFINE w == Advanced(run[r])
           of == Todo(r).of
<1>1. /\ run[r].pc = "insert" /\ run[r].pc \in Replacing /\ RunOK(r)
      /\ rows' = rows \cup {NewRow(r, "heatmap", of)} /\ met' = met
  BY DEF InsertBuckets, Replacing, RunsOK
<1>2. /\ IsOpen(r) /\ run[r].job = "coinglass" /\ Len(run[r].todo) # 1
      /\ OnlyHeatmaps(run[r].todo)
  BY <1>1, ReplacingFacts
<1>3. r # 0 /\ Ordered(run[r].todo) /\ RunShape(run[r])
  BY <1>1, <1>2 DEF RunOK
<1>4. Successor(run[r], w) /\ w.pc = "fetch"
  BY <1>2, <1>3, AdvancedFacts
<1>5. run' = [run EXCEPT ![r] = w]
  BY Zenon DEF InsertBuckets
<1>6. PICK n :
        /\ n = NewRow(r, "heatmap", of)
        /\ RowShape(n) /\ n.table = "heatmap" /\ n.key = of
        /\ n.run = r /\ n.txn = r /\ n.dead = 0
  BY NewRowFacts
<1> HIDE DEF w
<1>7. /\ RunsMove /\ run'[r] = w
      /\ \A q \in Runs \ {r} : run'[q] = run[q]
  BY <1>1, <1>2, <1>4, <1>5, RunBecomes
<1>8. RunsOK'
  BY <1>7, RunsMoved
<1>9. IsOpen(r)' /\ \A q \in Runs : IsOpen(q) => IsOpen(q)'
  BY <1>4, <1>7 DEF IsOpen, OpenPcs
<1>10. Heat' = Heat \cup {n}
  BY <1>1, <1>6 DEF Heat
<1>11. ASSUME NEW x \in Heat PROVE HeatOK(x)' /\ ReplacedOK(x)'
  <2>1. HeatOK(x) /\ ReplacedOK(x)
    BY DEF HeatsOK
  <2>2. /\ x.run \in Runs /\ x.txn \in {0, x.run} /\ x.dead \in Runs
        /\ x.txn # 0 => IsOpen(x.txn)
        /\ x.dead # 0 => IsOpen(x.dead) /\ x.txn = 0
        /\ IsOpen(x.run) => x.txn = x.run
    BY <2>1 DEF HeatOK
  <2>3. x.txn # 0 => IsOpen(x.txn)'
    BY <1>9, <2>2
  <2>4. x.dead # 0 => IsOpen(x.dead)' /\ x.txn = 0
    BY <1>9, <2>2
  <2>5. IsOpen(x.run)' => x.txn = x.run
    BY <1>7, <2>2, MovedFacts, Zenon
  <2>6. HeatOK(x)'
    BY <1>7, <2>1, <2>2, <2>3, <2>4, <2>5, HeatOKMoved, Zenon
  <2>7. ReplacedOK(x)'
    <3>1. CASE x.dead = r /\ x.key = of
      BY <1>6, <1>10, <3>1 DEF ReplacedOK
    <3>2. CASE \E y \in Heat : y.key = x.key /\ y.run = x.dead
      BY <1>10, <3>2 DEF ReplacedOK
    <3>3. CASE x.dead # 0 /\ x.dead # r /\ run[x.dead].pc = "insert" /\ Todo(x.dead).of = x.key
      <4>1. run'[x.dead] = run[x.dead]
        BY <1>7, <2>2, <3>3
      <4> QED
        BY <3>3, <4>1, Zenon DEF ReplacedOK, Todo
    <3>4. CASE x.dead = 0
      BY <3>4 DEF ReplacedOK
    <3> QED
      BY <2>1, <3>1, <3>2, <3>3, <3>4, Zenon DEF ReplacedOK, of
  <2> QED
    BY <2>6, <2>7
<1>12. HeatOK(n)' /\ ReplacedOK(n)'
  <2>1. /\ run'[r].pc # "unused" /\ run'[r].job = "coinglass"
        /\ OnlyHeatmaps(run'[r].todo)
    BY <1>2, <1>4, <1>7 DEF Successor, OpenPcs
  <2>2. 0 \in Runs
    BY BoundsAssumption DEF Runs
  <2>3. HeatOK(n)'
    BY <1>3, <1>6, <1>9, <2>1, <2>2 DEF HeatOK
  <2> QED
    BY <1>6, <2>3 DEF ReplacedOK
<1>13. ASSUME NEW x \in Heat', NEW q \in Runs PROVE SeenOK(x, q)'
  <2>1. CASE q = r
    BY <1>4, <1>7, <2>1 DEF SeenOK
  <2>2. CASE q # r /\ x \in Heat
    <3>1. run'[q] = run[q] /\ Apart(x.run, q)' = Apart(x.run, q) /\ SeenOK(x, q)
      BY <1>1, <1>7, <2>2 DEF Apart, HeatsOK
    <3> QED
      BY <3>1, Zenon DEF SeenOK, Todo
  <2>3. CASE q # r /\ x = n
    <3>1. run'[q] = run[q] /\ Apart(r, q)' = Apart(r, q)
      BY <1>1, <1>7, <2>3 DEF Apart
    <3>2. run[q].pc \in {"deleting", "insert"} => ~Apart(r, q)
      BY <1>2, HeatmapRunsMet DEF Replacing
    <3> QED
      BY <1>6, <2>3, <3>1, <3>2, Zenon DEF SeenOK
  <2> QED
    BY <1>10, <2>1, <2>2, <2>3
<1>14. ASSUME NEW x \in Heat, x.key = n.key, Apart(x.run, r)
       PROVE  n.txn # 0 /\ n.txn = n.run /\ x.dead = n.run
  <2>1. SeenOK(x, r)
    BY DEF HeatsOK
  <2>2. x.dead = r
    BY <1>1, <1>6, <1>14, <2>1 DEF SeenOK, of
  <2> QED
    BY <1>3, <1>6, <2>2
<1>15. ASSUME NEW x \in Heat', NEW y \in Heat' PROVE ApartOK(x, y)'
  <2>1. CASE x \in Heat /\ y \in Heat
    <3>1. ApartOK(x, y) /\ Apart(x.run, y.run)' = Apart(x.run, y.run)
      BY <1>1, <2>1 DEF HeatsOK, Apart
    <3> QED
      BY <3>1, Zenon DEF ApartOK
  <2>2. CASE x \in Heat /\ y = n
    <3>1. Apart(x.run, n.run)' = Apart(x.run, r)
      BY <1>1, <1>6 DEF Apart
    <3> QED
      BY <1>14, <2>2, <3>1, Zenon DEF ApartOK
  <2>3. CASE x = n /\ y \in Heat
    <3>1. {y.run, r} = {r, y.run}
      OBVIOUS
    <3>2. Apart(n.run, y.run)' = Apart(y.run, r)
      BY <1>1, <1>6, <3>1 DEF Apart
    <3> QED
      BY <1>14, <2>3, <3>2, Zenon DEF ApartOK
  <2>4. CASE x = n /\ y = n
    BY <2>4 DEF ApartOK, Apart
  <2> QED
    BY <1>10, <2>1, <2>2, <2>3, <2>4
<1>16. \A x \in rows' : RowShape(x)
  BY <1>1, <1>6 DEF HeatsOK
<1>17. \A key : NoneLost(key)
  BY <1>10 DEF NoneLost
<1>18. Replaces(r)
  <2>1. OnlyOtherRows(r)
    BY <1>1, <1>6 DEF OnlyOtherRows
  <2>2. Todo(r).kind = "heatmap"
    BY <1>1 DEF RunOK
  <2> QED
    BY <1>2, <1>4, <1>7, <1>9, <2>1, <2>2 DEF Replaces
<1>19. HeatsOK'
  BY <1>10, <1>11, <1>12, <1>13, <1>15, <1>16 DEF HeatsOK
<1> QED
  BY <1>8, <1>17, <1>18, <1>19

----------------------------------------------------------------------------
(* The prices *)

\* A run whose transaction is not disturbed keeps its batch.
LEMMA BatchUndisturbed ==
  ASSUME NEW q \in Runs, BatchOK(q), run'[q] = run[q],
         IsOpen(q) /\ AllPrices(run[q].todo) => Written(q)' = Written(q)
  PROVE  BatchOK(q)'
<1>1. Todo(q)' = Todo(q) /\ IsOpen(q)' = IsOpen(q)
  BY DEF Todo, IsOpen
<1>2. Written(q)' = Written(q) => Batch(q)' = Batch(q)
  BY <1>1 DEF Batch
<1> QED
  BY <1>1, <1>2, Zenon DEF BatchOK

\* The batch of an ingestion consists of prices not yet committed.
LEMMA WrittenArePrices ==
  ASSUME PricesOK, NEW q \in Runs, IsOpen(q), AllPrices(run[q].todo)
  PROVE  \A x \in Written(q) : x \in rows /\ x.txn = q /\ x.table = "prices" /\ x.dead = 0
<1> SUFFICES ASSUME NEW x \in Written(q) PROVE x.table = "prices" /\ x.dead = 0
  BY DEF Written
<1>1. x \in rows /\ PriceOK(x) /\ BatchOK(q)
  BY DEF Written, PricesOK
<1>2. x.table = "prices"
  BY <1>1 DEF BatchOK, Batch
<1> QED
  BY <1>1, <1>2 DEF PriceOK

\* Prices stay sound in the steps of a run that stores none.
LEMMA PricesKept ==
  ASSUME RunsOK, PricesOK, RunsMove, NEW r \in Runs, IsOpen(r),
         \A q \in Runs \ {r} : run'[q] = run[q],
         OnlyOtherRows(r),
         AllPrices(run[r].todo) => run[r].pc # "store" /\ rows' = rows,
         IsOpen(r)' \/ AllPrices(run[r].todo),
         run'[r].pc = "store" => Todo(r)'.kind = "prices"
  PROVE  PricesOK'
<1>1. AllPrices(run[r].todo) => Written(r) = {} /\ Written(r)' = {}
  BY DEF PricesOK, BatchOK, Written
<1>2. r # 0 /\ \A q \in Runs : IsOpen(q) => q # 0
  BY DEF RunsOK, RunOK
<1>3. Committed("prices")' = Committed("prices")
  BY DEF Committed, OnlyOtherRows
<1>4. ASSUME NEW z \in rows' PROVE PriceOK(z)'
  <2>1. ASSUME z.txn # 0 PROVE z.txn \in Runs /\ IsOpen(z.txn)'
    <3>1. CASE z.txn = r
      <4>1. z \in Written(r)'
        BY <3>1 DEF Written
      <4> QED
        BY <1>1, <3>1, <4>1
    <3>2. CASE z.txn # r
      <4>1. z \in rows
        BY <2>1, <3>2 DEF OnlyOtherRows
      <4>2. z.txn \in Runs /\ IsOpen(z.txn)
        BY <2>1, <4>1 DEF PricesOK, PriceOK
      <4> QED
        BY <3>2, <4>2 DEF IsOpen
    <3> QED
      BY <3>1, <3>2
  <2>2. ASSUME z.table = "prices" PROVE z \in rows /\ PriceOK(z)
    BY <2>2 DEF OnlyOtherRows, PricesOK
  <2>3. ASSUME z.table = "prices", z.txn # 0 PROVE AllPrices(run'[z.txn].todo)
    <3>1. z.txn \in Runs /\ AllPrices(run[z.txn].todo) /\ z \in Written(z.txn)
      BY <2>2, <2>3 DEF PriceOK, Written
    <3>2. z.txn # r
      BY <1>1, <3>1
    <3> QED
      BY <3>1, <3>2
  <2>4. ASSUME z.table = "prices", z.txn = 0 PROVE CompleteAt(z.at)'
    BY <1>3, <2>2, <2>4 DEF PriceOK, CompleteAt
  <2> QED
    BY <2>1, <2>2, <2>3, <2>4 DEF PriceOK
<1>5. ASSUME NEW q \in Runs PROVE BatchOK(q)'
  <2>1. CASE q = r
    <3>1. IsOpen(r)' /\ AllPrices(run'[r].todo) => AllPrices(run[r].todo)
      BY DEF RunsMove, Moved, Successor, IsOpen
    <3>2. Written(r)' = {} => Batch(r)'
      <4>1. IsFiniteSet({}) /\ Cardinality({}) = 0
        BY FS_EmptySet
      <4> QED
        BY <4>1 DEF Batch
    <3> QED
      BY <1>1, <2>1, <3>1, <3>2 DEF BatchOK
  <2>2. CASE q # r
    <3>1. ASSUME IsOpen(q) PROVE Written(q)' = Written(q)
      BY <1>2, <2>2, <3>1 DEF Written, OnlyOtherRows
    <3>2. BatchOK(q) /\ run'[q] = run[q]
      BY <2>2 DEF PricesOK
    <3> QED
      BY <3>1, <3>2, BatchUndisturbed
  <2> QED
    BY <2>1, <2>2
<1> QED
  BY <1>4, <1>5 DEF PricesOK

\* Replacing a heatmap concerns no prices.
LEMMA PricesKeptByHeatmaps ==
  ASSUME RunsOK, PricesOK, NEW r \in Runs, Replaces(r)
  PROVE  PricesOK'
<1>1. Ordered(run[r].todo)
  BY DEF RunsOK, RunOK, Replaces
<1>2. ~AllPrices(run[r].todo)
  BY <1>1, TailOrdered DEF Replaces, Todo
<1> QED
  BY <1>2, PricesKept DEF Replaces

\* Neither does a launch.
LEMMA PricesLaunched ==
  ASSUME RunsOK, PricesOK, NEW r \in Runs, rows' = rows, run[r].pc = "unused",
         run'[r].pc = "fetch", r # 0,
         \A q \in Runs \ {r} : run'[q] = run[q]
  PROVE  PricesOK'
<1>1. ~IsOpen(r)
  BY DEF IsOpen, OpenPcs
<1>2. Written(r) = {}
  BY <1>1 DEF Written, PricesOK, PriceOK
<1>3. ASSUME NEW z \in rows' PROVE PriceOK(z)'
  <2>1. PriceOK(z)
    BY DEF PricesOK
  <2>2. z.txn # 0 => z.txn \in Runs /\ IsOpen(z.txn) /\ z.txn # r
    BY <1>1, <2>1 DEF PriceOK
  <2>3. z.txn # 0 => run'[z.txn] = run[z.txn]
    BY <2>2
  <2>4. CompleteAt(z.at)' = CompleteAt(z.at)
    BY DEF CompleteAt, Committed
  <2> QED
    BY <2>1, <2>3, <2>4 DEF PriceOK, IsOpen
<1>4. ASSUME NEW q \in Runs PROVE BatchOK(q)'
  <2>1. CASE q = r
    BY <1>2, <2>1 DEF BatchOK, Written
  <2>2. CASE q # r
    <3>1. Written(q)' = Written(q) /\ BatchOK(q) /\ run'[q] = run[q]
      BY <2>2 DEF Written, PricesOK
    <3> QED
      BY <3>1, BatchUndisturbed
  <2> QED
    BY <2>1, <2>2
<1> QED
  BY <1>3, <1>4 DEF PricesOK

\* A commit of prices is one of all assets.
LEMMA PricesCommitted ==
  ASSUME RunsOK, HeatsOK, PricesOK, NEW r \in Runs, IsOpen(r), rows' = CommittedRows(r),
         \A q \in Runs \ {r} : run'[q] = run[q],
         run'[r].pc # "store",
         AllPrices(run[r].todo) =>
           run[r].pc = "store" /\ Cardinality(Written(r)) = Len(Assets)
  PROVE  PricesOK'
<1>1. r # 0 /\ \A q \in Runs : IsOpen(q) => q # 0
  BY DEF RunsOK, RunOK
<1>2. ASSUME NEW z \in rows'
      PROVE  \E y \in rows : y.dead # r /\ Becomes(y, z, Settled(r, y), y.dead)
  BY CommittedRowFacts DEF HeatsOK
<1>3. ASSUME NEW y \in rows, y.dead # r
      PROVE  \E z \in rows' : Becomes(y, z, Settled(r, y), y.dead)
  BY <1>3, CommittedRowFacts DEF HeatsOK
<1>4. ASSUME NEW y \in rows, y.table = "prices", y.txn \in {0, r}
      PROVE  \E z \in Committed("prices")' : z.key = y.key /\ z.at = y.at
  <2>1. y.dead # r
    BY <1>1, <1>4 DEF PricesOK, PriceOK
  <2>2. PICK z \in rows' : Becomes(y, z, Settled(r, y), y.dead)
    BY <1>3, <2>1
  <2>3. z.table = "prices" /\ z.key = y.key /\ z.at = y.at /\ z.txn = 0
    BY <1>4, <2>2 DEF Becomes, Settled
  <2> QED
    BY <2>3 DEF Committed
<1>5. ASSUME NEW z \in rows' PROVE PriceOK(z)' /\ z.txn # r
  <2>1. PICK y \in rows : y.dead # r /\ Becomes(y, z, Settled(r, y), y.dead)
    BY <1>2
  <2>2. PriceOK(y)
    BY DEF PricesOK
  <2>3. /\ z.table = y.table /\ z.at = y.at /\ z.dead = y.dead
        /\ z.txn # r /\ (z.txn # 0 => z.txn = y.txn)
        /\ z.txn = 0 => y.txn \in {0, r}
    BY <1>1, <2>1 DEF Becomes, Settled
  <2>4. ASSUME z.txn # 0 PROVE z.txn \in Runs /\ IsOpen(z.txn)' /\ run'[z.txn] = run[y.txn]
    <3>1. y.txn \in Runs /\ IsOpen(y.txn) /\ z.txn = y.txn /\ y.txn # r
      BY <2>2, <2>3, <2>4 DEF PriceOK
    <3>2. run'[y.txn] = run[y.txn]
      BY <3>1
    <3> QED
      BY <3>1, <3>2 DEF IsOpen
  <2>5. ASSUME z.table = "prices", z.txn = 0, NEW i \in DOMAIN Assets
        PROVE  \E x \in Committed("prices")' : x.key[2] = Assets[i] /\ x.at = z.at
    <3>1. PICK x \in rows :
            x.table = "prices" /\ x.txn \in {0, r} /\ x.key[2] = Assets[i] /\ x.at = y.at
      <4>1. CASE y.txn = 0
        BY <2>2, <2>3, <2>5, <4>1 DEF PriceOK, CompleteAt, Committed
      <4>2. CASE y.txn = r
        <5>1. AllPrices(run[r].todo) /\ y \in Written(r)
          BY <1>1, <2>2, <2>3, <2>5, <4>2 DEF PriceOK, Written
        <5>2. Batch(r) /\ Cardinality(Written(r)) = Len(Assets)
          BY <5>1 DEF PricesOK, BatchOK
        <5>3. i \in 1..Len(Assets)
          BY AssetsAssumption
        <5>4. PICK x \in Written(r) : x.key[2] = Assets[i]
          <6>1. PICK x \in Written(r) : x.key = <<Todo(r).of, Assets[i]>>
            BY <5>2, <5>3 DEF Batch
          <6>2. x.key[2] = Assets[i]
            BY <6>1
          <6> QED
            BY <6>2
        <5>5. x.table = "prices" /\ x.at = y.at
          BY <5>1, <5>2, <5>4 DEF Batch
        <5> QED
          BY <5>4, <5>5 DEF Written
      <4> QED
        BY <2>3, <2>5, <4>1, <4>2
    <3> QED
      BY <1>4, <2>3, <3>1
  <2>6. z.table = "prices" /\ z.txn = 0 => CompleteAt(z.at)'
    BY <2>5 DEF CompleteAt
  <2> QED
    BY <2>2, <2>3, <2>4, <2>6 DEF PriceOK
<1>6. ASSUME NEW q \in Runs PROVE BatchOK(q)'
  <2>1. CASE q = r
    BY <1>5, <2>1 DEF BatchOK, Written
  <2>2. CASE q # r
    <3>1. ASSUME IsOpen(q), AllPrices(run[q].todo) PROVE Written(q)' = Written(q)
      <4>1. ASSUME NEW y \in rows, NEW z, Becomes(y, z, Settled(r, y), y.dead),
                   z.txn = q \/ y.txn = q
            PROVE  z = y
        <5>1. Settled(r, y) = y.txn
          BY <1>1, <2>2, <3>1, <4>1 DEF Becomes, Settled
        <5>2. RowShape(y)
          BY DEF HeatsOK
        <5> QED
          BY <4>1, <5>1, <5>2 DEF Becomes, RowShape
      <4>2. \A x \in Written(q) : x \in rows /\ x.txn = q /\ x.dead # r
        BY <1>1, <3>1, WrittenArePrices
      <4>3. ASSUME NEW z \in Written(q)' PROVE z \in Written(q)
        <5>1. PICK y \in rows : y.dead # r /\ Becomes(y, z, Settled(r, y), y.dead)
          BY <1>2 DEF Written
        <5>2. z = y
          BY <4>1, <5>1 DEF Written
        <5> QED
          BY <4>3, <5>1, <5>2 DEF Written
      <4>4. ASSUME NEW y \in Written(q) PROVE y \in Written(q)'
        <5>1. PICK z \in rows' : Becomes(y, z, Settled(r, y), y.dead)
          BY <1>3, <4>2
        <5>2. z = y
          BY <4>1, <4>2, <5>1
        <5> QED
          BY <4>2, <5>1, <5>2 DEF Written
      <4> QED
        BY <4>3, <4>4
    <3>2. BatchOK(q) /\ run'[q] = run[q]
      BY <2>2 DEF PricesOK
    <3> QED
      BY <3>1, <3>2, BatchUndisturbed
  <2> QED
    BY <2>1, <2>2
<1> QED
  BY <1>5, <1>6 DEF PricesOK

\* A rollback takes whole batches.
LEMMA PricesRolledBack ==
  ASSUME RunsOK, HeatsOK, PricesOK, NEW R \in SUBSET Runs, \A r \in R : IsOpen(r),
         RollBack(R),
         \A q \in Runs \ R : run'[q] = run[q],
         \A r \in R : run'[r].pc = "aborted"
  PROVE  PricesOK'
<1>1. 0 \notin R
  BY DEF RunsOK, RunOK
<1>2. ASSUME NEW z \in rows'
      PROVE  \E y \in rows : y.txn \notin R /\ Becomes(y, z, y.txn, Undeleted(R, y))
  BY RolledBackRowFacts DEF HeatsOK
<1>3. ASSUME NEW y \in rows, y.txn \notin R
      PROVE  \E z \in rows' : Becomes(y, z, y.txn, Undeleted(R, y))
  BY <1>3, RolledBackRowFacts DEF HeatsOK
<1>4. ASSUME NEW time, CompleteAt(time) PROVE CompleteAt(time)'
  <2> SUFFICES ASSUME NEW i \in DOMAIN Assets
               PROVE  \E z \in Committed("prices")' : z.key[2] = Assets[i] /\ z.at = time
    BY DEF CompleteAt
  <2>1. PICK y \in rows : /\ y.table = "prices" /\ y.txn = 0
                         /\ y.key[2] = Assets[i] /\ y.at = time
    BY <1>4 DEF CompleteAt, Committed
  <2>2. PICK z \in rows' : Becomes(y, z, y.txn, Undeleted(R, y))
    BY <1>1, <1>3, <2>1
  <2>3. z.table = "prices" /\ z.txn = 0 /\ z.key[2] = Assets[i] /\ z.at = time
    BY <2>1, <2>2 DEF Becomes
  <2> QED
    BY <2>3 DEF Committed
<1>5. ASSUME NEW z \in rows' PROVE PriceOK(z)'
  <2>1. PICK y \in rows : y.txn \notin R /\ Becomes(y, z, y.txn, Undeleted(R, y))
    BY <1>2
  <2>2. PriceOK(y)
    BY DEF PricesOK
  <2>3. /\ z.table = y.table /\ z.at = y.at /\ z.txn = y.txn
        /\ y.dead = 0 => z.dead = 0
    BY <2>1 DEF Becomes, Undeleted
  <2>4. ASSUME z.txn # 0 PROVE z.txn \in Runs /\ IsOpen(z.txn)' /\ run'[z.txn] = run[y.txn]
    <3>1. y.txn \in Runs /\ IsOpen(y.txn) /\ z.txn = y.txn /\ y.txn \notin R
      BY <2>1, <2>2, <2>3, <2>4 DEF PriceOK
    <3>2. run'[y.txn] = run[y.txn]
      BY <3>1
    <3> QED
      BY <3>1, <3>2 DEF IsOpen
  <2>5. z.table = "prices" /\ z.txn = 0 => CompleteAt(z.at)'
    BY <1>4, <2>2, <2>3 DEF PriceOK
  <2> QED
    BY <2>2, <2>3, <2>4, <2>5 DEF PriceOK
<1>6. ASSUME NEW q \in Runs PROVE BatchOK(q)'
  <2>1. CASE q \in R
    BY <2>1 DEF BatchOK, IsOpen, OpenPcs
  <2>2. CASE q \notin R
    <3>1. ASSUME IsOpen(q), AllPrices(run[q].todo) PROVE Written(q)' = Written(q)
      <4>1. ASSUME NEW y \in rows, NEW z, Becomes(y, z, y.txn, Undeleted(R, y)), y.dead = 0
            PROVE  z = y
        <5>1. Undeleted(R, y) = y.dead
          BY <4>1 DEF Undeleted
        <5>2. RowShape(y)
          BY DEF HeatsOK
        <5> QED
          BY <4>1, <5>1, <5>2 DEF Becomes, RowShape
      <4>2. \A x \in Written(q) : x \in rows /\ x.txn \notin R /\ x.dead = 0
        BY <2>2, <3>1, WrittenArePrices
      <4>3. ASSUME NEW z \in Written(q)' PROVE z \in Written(q)
        <5>1. PICK y \in rows : y.txn \notin R /\ Becomes(y, z, y.txn, Undeleted(R, y))
          BY <1>2 DEF Written
        <5>2. y \in Written(q)
          BY <5>1 DEF Written, Becomes
        <5> QED
          BY <4>1, <4>2, <5>1, <5>2
      <4>4. ASSUME NEW y \in Written(q) PROVE y \in Written(q)'
        <5>1. PICK z \in rows' : Becomes(y, z, y.txn, Undeleted(R, y))
          BY <1>3, <4>2
        <5>2. z = y
          BY <4>1, <4>2, <5>1
        <5> QED
          BY <5>1, <5>2 DEF Written
      <4> QED
        BY <4>3, <4>4
    <3>2. BatchOK(q) /\ run'[q] = run[q]
      BY <2>2 DEF PricesOK
    <3> QED
      BY <3>1, <3>2, BatchUndisturbed
  <2> QED
    BY <2>1, <2>2
<1> QED
  BY <1>5, <1>6 DEF PricesOK

----------------------------------------------------------------------------
(* The steps *)

Preserved == RunsOK' /\ HeatsOK' /\ PricesOK' /\ \A key : NoneLost(key)

\* A run that has rows has only heatmaps left.
LEMMA RowsOfHeatmapRuns ==
  ASSUME RunsOK, HeatsOK, PricesOK, NEW r \in Runs, IsOpen(r), run[r].pc # "insert"
  PROVE  NoHeat(r) \/ OnlyHeatmaps(run[r].todo)
<1> SUFFICES ASSUME NEW x \in Heat, x.run = r \/ x.dead = r
             PROVE  OnlyHeatmaps(run[r].todo)
  BY DEF NoHeat
<1>1. r # 0
  BY DEF RunsOK, RunOK
<1>2. PICK y \in Heat : y.run = r
  BY <1>1, Replacement
<1> QED
  BY <1>2 DEF HeatsOK, HeatOK

\* A step that leaves the heatmap rows as they are, and is no commit.
LEMMA QuietStep ==
  ASSUME RunsOK, HeatsOK, PricesOK, NEW r \in Runs, IsOpen(r), run[r].pc # "insert",
         Todo(r).kind # "commit",
         NEW w, run' = [run EXCEPT ![r] = w], met' = met,
         Successor(run[r], w), w.pc \notin {"deleting", "insert"},
         w.pc \in OpenPcs \/ Len(run[r].todo) = 1,
         Heat' = Heat, \A x \in rows' : RowShape(x),
         OnlyOtherRows(r),
         Todo(r).kind = "prices" => run[r].pc # "store" /\ rows' = rows,
         w.pc = "store" => Head(w.todo).kind = "prices"
  PROVE  Preserved
<1>1. /\ RunsMove /\ run'[r] = w
      /\ \A q \in Runs \ {r} : run'[q] = run[q]
  BY RunBecomes
<1>2. RunsOK'
  BY <1>1, RunsMoved
<1>3. IsOpen(r)' \/ NoHeat(r)
  <2>1. ASSUME OnlyHeatmaps(run[r].todo) PROVE Len(run[r].todo) # 1
    <3>1. Ordered(run[r].todo)
      BY DEF RunsOK, RunOK
    <3> QED
      BY <2>1, <3>1, TailOrdered, Zenon DEF Todo
  <2> QED
    BY <1>1, <2>1, RowsOfHeatmapRuns, Zenon DEF IsOpen
<1>4. \A x \in Heat : SeenOK(x, r)'
  BY <1>1 DEF SeenOK
<1>5. HeatsOK'
  BY <1>1, <1>3, <1>4, HeatKept
<1>6. PricesOK'
  <2>1. Ordered(run[r].todo)
    BY DEF RunsOK, RunOK
  <2>2. /\ AllPrices(run[r].todo) <=> Todo(r).kind = "prices"
        /\ Len(run[r].todo) = 1 => Todo(r).kind = "prices"
    BY <2>1, TailOrdered DEF Todo
  <2>3. IsOpen(r)' \/ AllPrices(run[r].todo)
    BY <1>1, <2>2 DEF IsOpen
  <2>4. run'[r].pc = "store" => Todo(r)'.kind = "prices"
    BY <1>1 DEF Todo
  <2> QED
    BY <1>1, <2>2, <2>3, <2>4, PricesKept
<1> QED
  BY <1>2, <1>5, <1>6 DEF Preserved, NoneLost

\* A step that leaves the runs and the heatmap rows as they are.
LEMMA StillStep ==
  ASSUME RunsOK, HeatsOK, PricesOK', run' = run, met' = met,
         Heat' = Heat, \A x \in rows' : RowShape(x)
  PROVE  Preserved
<1>1. RunsMove
  BY DEF RunsMove, RunsOK
<1>2. RunsOK' /\ HeatsOK'
  BY <1>1, RunsMoved, HeatKept
<1> QED
  BY <1>2 DEF Preserved, NoneLost

\* A step that changes no row.
LEMMA SameRows ==
  ASSUME HeatsOK, NEW r, rows' = rows
  PROVE  Heat' = Heat /\ (\A x \in rows' : RowShape(x)) /\ OnlyOtherRows(r)
BY DEF Heat, HeatsOK, OnlyOtherRows

\* A step that adds a row of another table.
LEMMA OtherRowAdded ==
  ASSUME HeatsOK, NEW r, NEW table, NEW key, table # "heatmap",
         rows' = rows \cup {NewRow(r, table, key)}
  PROVE  /\ Heat' = Heat /\ \A x \in rows' : RowShape(x)
         /\ table # "prices" => OnlyOtherRows(r)
BY NewRowFacts DEF Heat, HeatsOK, OnlyOtherRows

\* What a step of r may use of r.
LEMMA OpenFacts ==
  ASSUME RunsOK, NEW r \in Runs, IsOpen(r)
  PROVE  /\ RunShape(run[r]) /\ Ordered(run[r].todo) /\ r # 0
         /\ Successor(run[r], Advanced(run[r]))
         /\ Advanced(run[r]).pc \notin {"deleting", "insert", "store"}
         /\ Advanced(run[r]).pc \in OpenPcs \/ Len(run[r].todo) = 1
<1>1. RunShape(run[r]) /\ Ordered(run[r].todo) /\ r # 0
  BY DEF RunsOK, RunOK
<1> QED
  BY <1>1, AdvancedFacts DEF OpenPcs

\* A run that stays at its target.
LEMMA StaysFacts ==
  ASSUME RunsOK, NEW r \in Runs, IsOpen(r), NEW p \in OpenPcs,
         p \in Replacing => Todo(r).kind = "heatmap"
  PROVE  LET w == [run[r] EXCEPT !.pc = p]
         IN  Successor(run[r], w) /\ w.pc = p /\ w.todo = run[r].todo
<1> DEFINE w == [run[r] EXCEPT !.pc = p]
<1>1. RunShape(run[r]) /\ Ordered(run[r].todo)
  BY OpenFacts
<1>2. IsRun(w, run[r].job, p, run[r].todo)
  BY <1>1, RunExcept, Zenon
<1> HIDE DEF w
<1>3. Successor(run[r], w) /\ w.pc = p /\ w.todo = run[r].todo
  BY <1>1, <1>2 DEF IsRun, Successor, Todo
<1> QED
  BY <1>3 DEF w

\* A health check is committed on its own.
LEMMA TrackFetchKept ==
  ASSUME RunsOK, HeatsOK, PricesOK, NEW r \in Runs, TrackFetch(r)
  PROVE  Preserved
<1>1. /\ IsOpen(r) /\ run[r].pc = "fetch" /\ Todo(r).kind = "prices"
      /\ met' = met /\ rows' = rows
  BY DEF TrackFetch, At, IsOpen, OpenPcs
<1>2. PICK data : run' = [run EXCEPT ![r] = IF data THEN [@ EXCEPT !.pc = "store"]
                                                    ELSE Advanced(@)]
  BY Zenon DEF TrackFetch
<1>3. Heat' = Heat /\ (\A x \in rows' : RowShape(x)) /\ OnlyOtherRows(r)
  BY <1>1, SameRows
<1>4. CASE data
  <2> DEFINE w == [run[r] EXCEPT !.pc = "store"]
  <2>1. run' = [run EXCEPT ![r] = w]
    BY <1>2, <1>4, Zenon
  <2>2. "store" \in OpenPcs /\ "store" \notin Replacing
    BY DEF OpenPcs, Replacing
  <2>3. Successor(run[r], w) /\ w.pc = "store" /\ w.todo = run[r].todo
    BY <1>1, <2>2, StaysFacts, Zenon
  <2> HIDE DEF w
  <2> QED
    BY <1>1, <1>3, <2>1, <2>2, <2>3, QuietStep DEF Todo
<1>5. CASE ~data
  <2>1. run' = [run EXCEPT ![r] = Advanced(run[r])]
    BY <1>2, <1>5, Zenon
  <2> QED
    BY <1>1, <1>3, <2>1, OpenFacts, QuietStep
<1> QED
  BY <1>4, <1>5

\* A price joins its batch.
LEMMA StoreSnapshotKept ==
  ASSUME RunsOK, HeatsOK, PricesOK, NEW r \in Runs, StoreSnapshot(r)
  PROVE  Preserved
<1>1. run' = run /\ met' = met
  BY DEF StoreSnapshot
<1> DEFINE key == <<Todo(r).of, NextAsset(r)>>
           c == Cardinality(Written(r))
<1>2. /\ rows' = rows \cup {NewRow(r, "prices", key)} /\ key = <<Todo(r).of, Assets[c + 1]>>
      /\ run[r].pc = "store" /\ Todo(r).kind = "prices"
  BY DEF StoreSnapshot, At, NextAsset
<1> HIDE DEF key
<1>3. PICK n : /\ n = NewRow(r, "prices", key)
               /\ RowShape(n) /\ n.table = "prices" /\ n.key = key
               /\ n.run = r /\ n.txn = r /\ n.dead = 0 /\ n.at = run[r].since
  BY NewRowFacts
<1>4. Heat' = Heat /\ \A x \in rows' : RowShape(x)
  BY <1>2, <1>3 DEF Heat, HeatsOK
<1>5. r # 0 /\ IsOpen(r) /\ AllPrices(run[r].todo)
  <2>1. IsOpen(r)
    BY <1>2 DEF IsOpen, OpenPcs
  <2> QED
    BY <1>2, <2>1, OpenFacts, TailOrdered DEF Todo
<1>6. Batch(r)
  BY <1>2, <1>5 DEF PricesOK, BatchOK
<1>7. Written(r)' = Written(r) \cup {n}
  BY <1>2, <1>3 DEF Written
<1>8. Batch(r)'
  <2>1. IsFiniteSet(Written(r)) /\ c \in Nat
    BY <1>6, FS_CardinalityType DEF Batch
  <2>2. /\ IsFiniteSet(Written(r)')
        /\ Cardinality(Written(r)') = IF n \in Written(r) THEN c ELSE c + 1
    <3>1. /\ IsFiniteSet(Written(r) \cup {n})
          /\ Cardinality(Written(r) \cup {n}) =
               IF n \in Written(r) THEN Cardinality(Written(r)) ELSE Cardinality(Written(r)) + 1
      BY <2>1, FS_AddElement, Zenon
    <3> QED
      BY <1>7, <3>1
  <2>3. \A i \in 1..Cardinality(Written(r)') : i \in 1..c \/ i = c + 1
    BY <2>1, <2>2
  <2>4. \A x \in Written(r)' : x.table = "prices" /\ x.at = run'[r].since /\ x.run = r
    BY <1>1, <1>3, <1>6, <1>7 DEF Batch
  <2>5. ASSUME NEW i \in 1..Cardinality(Written(r)')
        PROVE  \E x \in Written(r)' : x.key = <<Todo(r)'.of, Assets[i]>>
    <3>0. Todo(r)' = Todo(r)
      BY <1>1 DEF Todo
    <3>1. CASE i \in 1..c
      BY <1>6, <1>7, <3>0, <3>1 DEF Batch
    <3>2. CASE i = c + 1
      BY <1>2, <1>3, <1>7, <3>0, <3>2
    <3> QED
      BY <2>3, <3>1, <3>2
  <2> QED
    BY <2>2, <2>4, <2>5 DEF Batch
<1>9. ASSUME NEW q \in Runs PROVE BatchOK(q)'
  <2>1. CASE q = r
    BY <1>1, <1>2, <1>8, <2>1 DEF BatchOK, Todo
  <2>2. CASE q # r
    <3>1. Written(q)' = Written(q) /\ run'[q] = run[q] /\ BatchOK(q)
      BY <1>1, <1>2, <1>3, <2>2 DEF Written, PricesOK
    <3> QED
      BY <3>1, BatchUndisturbed
  <2> QED
    BY <2>1, <2>2
<1>10. ASSUME NEW x \in rows' PROVE PriceOK(x)'
  <2>1. CASE x \in rows
    <3>1. PriceOK(x)
      BY <2>1 DEF PricesOK
    <3>2. CompleteAt(x.at)' = CompleteAt(x.at)
      BY <1>2, <1>3, <1>5 DEF CompleteAt, Committed
    <3> QED
      BY <1>1, <3>1, <3>2 DEF PriceOK, IsOpen
  <2>2. CASE x = n
    BY <1>1, <1>3, <1>5, <2>2 DEF PriceOK, IsOpen
  <2> QED
    BY <1>2, <1>3, <2>1, <2>2
<1>11. PricesOK'
  BY <1>9, <1>10 DEF PricesOK
<1> QED
  BY <1>1, <1>4, <1>11, StillStep

\* A job that fetches one value.
LEMMA CollectOneKept ==
  ASSUME RunsOK, HeatsOK, PricesOK, NEW r \in Runs, NEW kind, NEW outcomes, CollectOne(r, kind, outcomes),
         kind \notin {"heatmap", "commit", "prices"}
  PROVE  Preserved
<1>1. /\ IsOpen(r) /\ run[r].pc # "insert" /\ Todo(r).kind \notin {"commit", "prices"}
      /\ met' = met
  BY DEF CollectOne, At, IsOpen, OpenPcs
<1>2. run' = [run EXCEPT ![r] = Advanced(run[r])]
  BY Zenon DEF CollectOne
<1>3. Heat' = Heat /\ (\A x \in rows' : RowShape(x)) /\ OnlyOtherRows(r)
  <2>1. CASE rows' = rows
    BY <2>1, SameRows
  <2>2. CASE rows' = rows \cup {NewRow(r, kind, Todo(r).of)}
    BY <2>2, OtherRowAdded
  <2> QED
    BY <2>1, <2>2, Zenon DEF CollectOne
<1> QED
  BY <1>1, <1>2, <1>3, OpenFacts, QuietStep

\* The ETF job fetches.
LEMMA CollectEtfFlowsKept ==
  ASSUME RunsOK, HeatsOK, PricesOK, NEW r \in Runs, CollectEtfFlows(r)
  PROVE  Preserved
<1>1. /\ IsOpen(r) /\ run[r].pc # "insert" /\ Todo(r).kind \notin {"commit", "prices"}
      /\ met' = met /\ rows' = rows
  BY DEF CollectEtfFlows, CollectMany, At, IsOpen, OpenPcs
<1> DEFINE v == Advanced(run[r])
<1>2. PICK g : run' = [run EXCEPT ![r] = [v EXCEPT !.got = g]]
  BY Zenon DEF CollectEtfFlows, CollectMany, Holding
<1> DEFINE w == [v EXCEPT !.got = g]
<1>3. /\ Successor(run[r], v) /\ v.pc \notin {"deleting", "insert", "store"}
      /\ v.pc \in OpenPcs \/ Len(run[r].todo) = 1
  BY <1>1, OpenFacts
<1> HIDE DEF v
<1>4. IsRun(w, v.job, v.pc, v.todo)
  BY <1>3, RunExcept, Zenon DEF Successor
<1> HIDE DEF w
<1>5. Successor(run[r], w) /\ w.pc = v.pc
  BY <1>3, <1>4 DEF IsRun, Successor
<1>6. Heat' = Heat /\ (\A x \in rows' : RowShape(x)) /\ OnlyOtherRows(r)
  BY <1>1, SameRows
<1>7. run' = [run EXCEPT ![r] = w]
  BY <1>2 DEF w
<1> QED
  BY <1>1, <1>3, <1>5, <1>6, <1>7, QuietStep

\* The ETF job writes.
LEMMA UpsertEtfFlowsKept ==
  ASSUME RunsOK, HeatsOK, PricesOK, NEW r \in Runs, UpsertEtfFlows(r)
  PROVE  Preserved
<1>1. /\ IsOpen(r) /\ run[r].pc # "insert" /\ Todo(r).kind # "commit"
      /\ met' = met /\ Todo(r).kind # "prices"
  BY DEF UpsertEtfFlows, At, IsOpen, OpenPcs
<1>2. run' = [run EXCEPT ![r] = Advanced(run[r])]
  BY Zenon DEF UpsertEtfFlows
<1> DEFINE old == {x \in rows : x.table = "etf" /\ x.key \in run[r].got}
           f(x) == [x EXCEPT !.dead = r]
           n(key) == NewRow(r, "etf", key)
<1>3. rows' = (rows \ old) \cup {f(x) : x \in old} \cup {n(key) : key \in run[r].got}
  BY Zenon DEF UpsertEtfFlows
<1>4. \A x \in rows : Becomes(x, f(x), x.txn, r)
  BY RowExcept, Zenon DEF HeatsOK
<1>5. \A key : RowShape(n(key)) /\ n(key).table = "etf" /\ n(key).txn = r
  BY NewRowFacts
<1>8. \A x \in old : x.txn = 0
  BY DEF UpsertEtfFlows
<1> HIDE DEF f, n
<1>6. Heat' = Heat
  BY <1>3, <1>4, <1>5 DEF Heat, Becomes
<1>7. \A x \in rows' : RowShape(x)
  BY <1>3, <1>4, <1>5 DEF HeatsOK, Becomes
<1>9. OnlyOtherRows(r)
  BY <1>3, <1>4, <1>5, <1>8 DEF OnlyOtherRows, Becomes
<1> QED
  BY <1>1, <1>2, <1>6, <1>7, <1>9, OpenFacts, QuietStep

\* A heatmap is fetched, or is not.
LEMMA FetchHeatmapKept ==
  ASSUME RunsOK, HeatsOK, PricesOK, NEW r \in Runs, FetchHeatmap(r)
  PROVE  Preserved
<1>1. /\ IsOpen(r) /\ run[r].pc # "insert" /\ Todo(r).kind = "heatmap"
      /\ met' = met /\ rows' = rows
  BY DEF FetchHeatmap, At, IsOpen, OpenPcs
<1>2. PICK data : run' = [run EXCEPT ![r] = IF data THEN [@ EXCEPT !.pc = "delete"]
                                                    ELSE Advanced(@)]
  BY Zenon DEF FetchHeatmap
<1>3. Heat' = Heat /\ (\A x \in rows' : RowShape(x)) /\ OnlyOtherRows(r)
  BY <1>1, SameRows
<1>4. CASE data
  <2> DEFINE w == [run[r] EXCEPT !.pc = "delete"]
  <2>1. run' = [run EXCEPT ![r] = w]
    BY <1>2, <1>4, Zenon
  <2>2. "delete" \in OpenPcs
    BY DEF OpenPcs
  <2>3. Successor(run[r], w) /\ w.pc = "delete"
    BY <1>1, <2>2, StaysFacts, Zenon
  <2> HIDE DEF w
  <2> QED
    BY <1>1, <1>3, <2>1, <2>2, <2>3, QuietStep
<1>5. CASE ~data
  <2>1. run' = [run EXCEPT ![r] = Advanced(run[r])]
    BY <1>2, <1>5, Zenon
  <2> QED
    BY <1>1, <1>3, <2>1, OpenFacts, QuietStep
<1> QED
  BY <1>4, <1>5

\* The DELETE takes its snapshot.
LEMMA DeleteStartsKept ==
  ASSUME RunsOK, HeatsOK, PricesOK, NEW r \in Runs, DeleteStarts(r)
  PROVE  Preserved
<1> DEFINE sees == {x.run : x \in {y \in Committed("heatmap") : y.key = Todo(r).of}}
           w == [run[r] EXCEPT !.pc = "deleting", !.sees = sees]
<1>1. /\ run[r].pc = "delete" /\ run[r].pc \in Replacing /\ IsOpen(r)
      /\ Todo(r).kind = "heatmap" /\ met' = met /\ rows' = rows
  BY DEF DeleteStarts, Replacing, IsOpen, OpenPcs, RunsOK, RunOK
<1>2. run' = [run EXCEPT ![r] = w]
  BY Zenon DEF DeleteStarts
<1>3. IsRun(w, run[r].job, "deleting", run[r].todo) /\ w.sees = sees
  <2>1. RunShape(run[r])
    BY <1>1, OpenFacts
  <2> HIDE DEF sees
  <2>2. /\ IsRun([run[r] EXCEPT !.pc = "deleting", !.sees = sees],
                 run[r].job, "deleting", run[r].todo)
        /\ [run[r] EXCEPT !.pc = "deleting", !.sees = sees].sees = sees
    BY <2>1, RunExcept, Zenon
  <2> QED
    BY <2>2, Zenon
<1>4. sees = {x.run : x \in {y \in Heat : y.txn = 0 /\ y.key = Todo(r).of}}
  BY DEF Committed, Heat
<1> HIDE DEF w, sees
<1>5. Successor(run[r], w) /\ w.pc = "deleting" /\ w.todo = run[r].todo
  <2>1. "deleting" \in OpenPcs
    BY DEF OpenPcs
  <2> QED
    BY <1>1, <1>3, <2>1, OpenFacts DEF IsRun, Successor, Todo
<1>6. \A q \in sees : q \in Runs /\ Ended(q)
  <2> SUFFICES ASSUME NEW x \in Heat, x.txn = 0 PROVE x.run \in Runs /\ Ended(x.run)
    BY <1>4
  <2>1. HeatOK(x)
    BY DEF HeatsOK
  <2>2. x.run \in Runs /\ RunOK(x.run) /\ run[x.run].pc # "unused"
    BY <2>1 DEF HeatOK, RunsOK
  <2>3. ~IsOpen(x.run)
    BY <2>1, <2>2, Zenon DEF HeatOK, RunOK
  <2> QED
    BY <2>2, <2>3 DEF RunOK, IsOpen, Ended
<1>7. /\ RunsMove /\ run'[r] = w
      /\ \A q \in Runs \ {r} : run'[q] = run[q]
  BY <1>1, <1>2, <1>3, <1>5, <1>6, RunBecomes
<1>8. ASSUME NEW x \in Heat PROVE SeenOK(x, r)'
  <2>1. HeatOK(x)
    BY DEF HeatsOK
  <2>2. Apart(x.run, r)' = Apart(x.run, r) /\ Todo(r)' = Todo(r)
    BY <1>1, <1>5, <1>7 DEF Apart, Todo
  <2>3. ASSUME Todo(r).of = x.key, Apart(x.run, r) PROVE x.run \in run'[r].sees
    <3>1. CASE x.txn = 0
      BY <1>3, <1>4, <1>7, <2>3, <3>1
    <3>2. CASE x.txn # 0
      <4>1. x.run \in Runs /\ IsOpen(x.run) /\ run[x.run].job = "coinglass"
        BY <2>1, <3>2 DEF HeatOK
      <4> QED
        BY <1>1, <2>3, <4>1, HeatmapRunsMet, Zenon
    <3> QED
      BY <3>1, <3>2
  <2> QED
    BY <1>5, <1>7, <2>2, <2>3 DEF SeenOK
<1>9. Heat' = Heat /\ (\A x \in rows' : RowShape(x)) /\ OnlyOtherRows(r)
  BY <1>1, SameRows
<1>10. IsOpen(r)'
  BY <1>5, <1>7 DEF IsOpen, OpenPcs
<1>11. RunsOK' /\ HeatsOK'
  BY <1>1, <1>7, <1>8, <1>9, <1>10, RunsMoved, HeatKept
<1>12. Replaces(r)
  BY <1>1, <1>5, <1>7, <1>9, <1>10 DEF Replaces
<1>13. PricesOK'
  BY <1>12, PricesKeptByHeatmaps
<1> QED
  BY <1>9, <1>11, <1>13 DEF Preserved, NoneLost

\* A commit ends a run that has rows.
LEMMA CommitKept ==
  ASSUME RunsOK, HeatsOK, PricesOK, NEW r \in Runs, IsOpen(r), run[r].pc # "insert",
         rows' = CommittedRows(r), met' = met, run' = [run EXCEPT ![r] = Advanced(run[r])],
         Todo(r).kind # "heatmap",
         Todo(r).kind = "prices" =>
           run[r].pc = "store" /\ Cardinality(Written(r)) = Len(Assets)
  PROVE  Preserved
<1>1. /\ RunsMove /\ run'[r] = Advanced(run[r])
      /\ \A q \in Runs \ {r} : run'[q] = run[q]
  BY OpenFacts, RunBecomes
<1>2. run'[r].pc \notin {"deleting", "insert"}
  BY <1>1, OpenFacts
<1>3. ASSUME OnlyHeatmaps(run[r].todo) PROVE ~IsOpen(r)'
  <2>1. Len(run[r].todo) = 1
    BY <1>3, OpenFacts, TailOrdered, Zenon DEF Todo
  <2>2. run'[r].pc = "done"
    BY <1>1, <2>1, OpenFacts, AdvancedFacts
  <2> QED
    BY <2>2 DEF IsOpen, OpenPcs
<1>4. ~IsOpen(r)' \/ NoHeat(r)
  BY <1>3, RowsOfHeatmapRuns
<1>5. AllPrices(run[r].todo) => Todo(r).kind = "prices"
  BY OpenFacts, TailOrdered, Zenon DEF Todo
<1>6. run'[r].pc # "store"
  BY <1>1, OpenFacts
<1>7. PricesOK'
  BY <1>1, <1>5, <1>6, PricesCommitted
<1> QED
  BY <1>1, <1>2, <1>4, <1>7, RunsMoved, HeatCommitted DEF Preserved

\* Runs that are aborted, and the others.
LEMMA AbortedMove ==
  ASSUME RunsOK, NEW R \in SUBSET Runs, \A r \in R : IsOpen(r), Aborted(R), met' = met
  PROVE  /\ RunsMove
         /\ \A q \in Runs \ R : run'[q] = run[q]
         /\ \A r \in R : run'[r].pc = "aborted"
<1>1. /\ run' = [r \in Runs |-> run'[r]]
      /\ \A q \in Runs \ R : run'[q] = run[q]
      /\ \A r \in R : run'[r] = Closed(run[r], "aborted")
  BY DEF Aborted
<1>2. \A r \in R : Moved(r) /\ run'[r].pc = "aborted"
  <2> SUFFICES ASSUME NEW r \in R PROVE Moved(r) /\ run'[r].pc = "aborted"
    OBVIOUS
  <2> DEFINE w == Closed(run[r], "aborted")
  <2>1. RunShape(w) /\ w.job = run[r].job /\ w.pc = "aborted"
    BY ClosedFacts
  <2> HIDE DEF w
  <2>2. run'[r] = w
    BY <1>1 DEF w
  <2> QED
    BY <2>1, <2>2 DEF Moved, Successor, OpenPcs, Replacing
<1> QED
  BY <1>1, <1>2 DEF RunsMove

\* A commit that raises.
LEMMA CommitUnacknowledgedKept ==
  ASSUME RunsOK, HeatsOK, PricesOK, NEW r \in Runs, CommitUnacknowledged(r)
  PROVE  Preserved
<1>1. /\ IsOpen(r) /\ run[r].pc # "insert"
      /\ rows' = CommittedRows(r) /\ met' = met /\ Aborted({r})
      /\ Todo(r).kind = "prices" =>
           run[r].pc = "store" /\ Cardinality(Written(r)) = Len(Assets)
  BY DEF CommitUnacknowledged, At, IsOpen, OpenPcs
<1>2. /\ RunsMove /\ run'[r].pc = "aborted"
      /\ \A q \in Runs \ {r} : run'[q] = run[q]
  BY <1>1, AbortedMove
<1>3. ~IsOpen(r)' /\ run'[r].pc \notin {"deleting", "insert", "store"}
  BY <1>2 DEF IsOpen, OpenPcs
<1>4. AllPrices(run[r].todo) => Todo(r).kind = "prices"
  BY <1>1, OpenFacts, TailOrdered, Zenon DEF Todo
<1>5. PricesOK'
  BY <1>1, <1>2, <1>3, <1>4, PricesCommitted
<1> QED
  BY <1>1, <1>2, <1>3, <1>5, RunsMoved, HeatCommitted DEF Preserved

\* Runs that raise or die.
LEMMA AbortKept ==
  ASSUME RunsOK, HeatsOK, PricesOK, NEW R \in SUBSET Runs, Abort(R)
  PROVE  Preserved
<1>1. (\A r \in R : IsOpen(r)) /\ Aborted(R) /\ RollBack(R) /\ met' = met
  BY DEF Abort
<1>2. /\ RunsMove
      /\ \A q \in Runs \ R : run'[q] = run[q]
      /\ \A r \in R : run'[r].pc = "aborted"
  BY <1>1, AbortedMove
<1> QED
  BY <1>1, <1>2, RunsMoved, HeatRolledBack, PricesRolledBack DEF Preserved

\* Every step of a run keeps the invariant.
LEMMA StepKept ==
  ASSUME RunsOK, HeatsOK, PricesOK, NEW r \in Runs, Step(r)
  PROVE  Preserved
<1>1. CASE TrackFetch(r)
  BY <1>1, TrackFetchKept
<1>2. CASE StoreSnapshot(r)
  BY <1>2, StoreSnapshotKept
<1>3. CASE PersistSnapshots(r)
  <2>1. /\ IsOpen(r) /\ run[r].pc = "store" /\ Todo(r).kind = "prices"
        /\ Cardinality(Written(r)) = Len(Assets)
        /\ rows' = CommittedRows(r) /\ met' = met
    BY <1>3 DEF PersistSnapshots, At, IsOpen, OpenPcs
  <2>2. run' = [run EXCEPT ![r] = Advanced(run[r])]
    BY <1>3, Zenon DEF PersistSnapshots
  <2> QED
    BY <2>1, <2>2, CommitKept
<1>4. CASE CollectBtcDominance(r) \/ CollectFearGreed(r) \/ CollectLiquidations(r)
  <2>1. CASE CollectBtcDominance(r)
    BY <2>1, CollectOneKept DEF CollectBtcDominance
  <2>2. CASE CollectFearGreed(r)
    BY <2>2, CollectOneKept DEF CollectFearGreed
  <2>3. CASE CollectLiquidations(r)
    BY <2>3, CollectOneKept DEF CollectLiquidations
  <2> QED
    BY <1>4, <2>1, <2>2, <2>3
<1>5. CASE CollectEtfFlows(r)
  BY <1>5, CollectEtfFlowsKept
<1>6. CASE UpsertEtfFlows(r)
  BY <1>6, UpsertEtfFlowsKept
<1>7. CASE FetchHeatmap(r)
  BY <1>7, FetchHeatmapKept
<1>8. CASE DeleteStarts(r)
  BY <1>8, DeleteStartsKept
<1>9. CASE DeleteEnds(r)
  BY <1>9, HeatDeleted, PricesKeptByHeatmaps DEF Preserved
<1>10. CASE InsertBuckets(r)
  BY <1>10, HeatInserted, PricesKeptByHeatmaps DEF Preserved
<1>11. CASE CommitSession(r)
  <2>1. /\ IsOpen(r) /\ run[r].pc # "insert" /\ Todo(r).kind = "commit"
        /\ rows' = CommittedRows(r) /\ met' = met
    BY <1>11 DEF CommitSession, At, IsOpen, OpenPcs
  <2>2. run' = [run EXCEPT ![r] = Advanced(run[r])]
    BY <1>11, Zenon DEF CommitSession
  <2> QED
    BY <2>1, <2>2, CommitKept
<1> QED
  BY <1>1, <1>2, <1>3, <1>4, <1>5, <1>6, <1>7, <1>8, <1>9, <1>10, <1>11 DEF Step

\* Every step keeps it.
LEMMA NextKept ==
  ASSUME RunsOK, HeatsOK, PricesOK, [Next]_vars
  PROVE  Preserved
<1>1. CASE Tick \/ UNCHANGED vars
  <2>1. run' = run /\ met' = met /\ rows' = rows
    BY <1>1 DEF Tick, vars
  <2>2. Heat' = Heat /\ \A x \in rows' : RowShape(x)
    BY <2>1 DEF Heat, HeatsOK
  <2>3. PricesOK'
    <3>1. \A q \in Runs : BatchOK(q)'
      BY <2>1, BatchUndisturbed DEF PricesOK, Written
    <3>2. \A x \in rows' : PriceOK(x)'
      BY <2>1 DEF PricesOK, PriceOK, CompleteAt, Committed, IsOpen
    <3> QED
      BY <3>1, <3>2 DEF PricesOK
  <2> QED
    BY <2>1, <2>2, <2>3, StillStep
<1>2. ASSUME NEW r \in Runs, NEW job \in Jobs, Launch(r, job) PROVE Preserved
  <2>1. RunsOK' /\ HeatsOK'
    BY <1>2, RunsLaunched, HeatLaunched
  <2>2. rows' = rows /\ run[r].pc = "unused" /\ r # 0
    BY <1>2 DEF Launch
  <2>3. run'[r].pc = "fetch" /\ \A q \in Runs \ {r} : run'[q] = run[q]
    BY <1>2, LaunchedRun
  <2>4. PricesOK'
    BY <2>2, <2>3, PricesLaunched
  <2> QED
    BY <2>1, <2>2, <2>4 DEF Preserved, NoneLost, Heat
<1>3. ASSUME NEW r \in Runs, Step(r) PROVE Preserved
  BY <1>3, StepKept
<1>4. ASSUME NEW r \in Runs, CommitUnacknowledged(r) PROVE Preserved
  BY <1>4, CommitUnacknowledgedKept
<1>5. ASSUME NEW R \in SUBSET Runs, Abort(R) PROVE Preserved
  BY <1>5, AbortKept
<1> QED
  BY <1>1, <1>2, <1>3, <1>4, <1>5 DEF Next

\* It holds at first.
LEMMA InitKept ==
  ASSUME Init
  PROVE  CollectionInv
<1>1. 0 \in Runs
  BY BoundsAssumption DEF Runs
<1>2. /\ RunShape(Unused) /\ Unused.pc = "unused"
      /\ RunShape([Unused EXCEPT !.job = "earlier", !.pc = "done"])
      /\ [Unused EXCEPT !.job = "earlier", !.pc = "done"].pc = "done"
  <2>1. IsRun([Unused EXCEPT !.job = "earlier", !.pc = "done"], "earlier", "done", Unused.todo)
    BY UnusedShape, RunRestarted, Zenon
  <2> QED
    BY <2>1, UnusedShape, Zenon DEF IsRun, Unused
<1> DEFINE e == [Unused EXCEPT !.job = "earlier", !.pc = "done"]
<1> HIDE DEF e
<1>3. \/ rows = {} /\ run = [r \in Runs |-> Unused]
      \/ rows = EarlierRows /\ run = [[r \in Runs |-> Unused] EXCEPT ![0] = e]
  BY Zenon DEF Init, e
<1>4. /\ run = [r \in Runs |-> run[r]]
      /\ \A r \in Runs : run[r] = Unused \/ (r = 0 /\ run[r] = e)
      /\ rows = {} \/ (rows = EarlierRows /\ run[0] = e)
  <2>1. CASE rows = {} /\ run = [r \in Runs |-> Unused]
    BY <2>1
  <2>2. CASE rows = EarlierRows /\ run = [[r \in Runs |-> Unused] EXCEPT ![0] = e]
    BY <1>1, <2>2
  <2> QED
    BY <1>3, <2>1, <2>2
<1>5. \A r \in Runs :
        /\ RunShape(run[r])
        /\ run[r].pc = "unused" \/ (r = 0 /\ run[r].pc = "done")
  BY <1>2, <1>4 DEF e
<1>6. ASSUME NEW r \in Runs PROVE RunOK(r) /\ ~IsOpen(r) /\ run[r].pc \notin {"deleting", "insert"}
  BY <1>5 DEF RunOK, IsOpen, OpenPcs, Replacing
<1>7. ASSUME NEW q \in Runs, NEW r \in Runs PROVE MetOK(q, r)
  <2>1. r = 0 => ~(q < r)
    BY BoundsAssumption DEF Runs
  <2> QED
    BY <1>5, <2>1 DEF MetOK
<1>8. RunsOK
  BY <1>4, <1>6, <1>7, Zenon DEF RunsOK
<1>9. ASSUME NEW x \in rows
      PROVE  RowShape(x) /\ x.run = 0 /\ x.txn = 0 /\ x.dead = 0 /\ run[0].pc = "done"
  <2>1. x \in EarlierRows /\ run[0] = e
    BY <1>4
  <2>2. PICK k : x = [table |-> k[1], key |-> k[2], at |-> 0, run |-> 0, txn |-> 0, dead |-> 0]
    BY <2>1, Zenon DEF EarlierRows
  <2> QED
    BY <1>2, <2>1, <2>2 DEF RowShape, e
<1>10. ASSUME NEW x \in Heat PROVE HeatOK(x) /\ ReplacedOK(x)
  <2>1. x \in rows
    BY DEF Heat
  <2>2. /\ x.run = 0 /\ x.txn = 0 /\ x.dead = 0 /\ run[0].pc = "done"
        /\ ~IsOpen(0)
    BY <1>1, <1>6, <1>9, <2>1
  <2> QED
    BY <1>1, <2>2 DEF HeatOK, ReplacedOK
<1>11. \A x \in Heat, r \in Runs : SeenOK(x, r)
  BY <1>6 DEF SeenOK
<1>12. \A x, y \in Heat : ApartOK(x, y)
  BY <1>9 DEF ApartOK, Apart, Heat
<1>13. HeatsOK
  BY <1>9, <1>10, <1>11, <1>12, Zenon DEF HeatsOK
<1>14. PricesOK
  <2>1. ASSUME NEW x \in rows, x.table = "prices", NEW i \in DOMAIN Assets
        PROVE  \E y \in Committed("prices") : y.key[2] = Assets[i] /\ y.at = x.at
    <3>1. rows = EarlierRows
      BY <1>4, <2>1
    <3>2. x.at = 0
      BY <2>1, <3>1 DEF EarlierRows
    <3>3. Target("prices", "binance") \in Elements(Plan("ingestion"))
      <4>1. Plan("ingestion") = TargetsOf("prices", <<"binance", "coingecko">>)
        BY DEF Plan
      <4>2. Plan("ingestion") = [j \in 1..2 |-> Target("prices", <<"binance", "coingecko">>[j])]
        BY <4>1 DEF TargetsOf
      <4>3. Plan("ingestion")[1] = Target("prices", "binance") /\ 1 \in DOMAIN Plan("ingestion")
        BY <4>2
      <4> QED
        BY <4>3 DEF Elements
    <3>4. Target("prices", "binance").of = "binance" /\ Assets[i] \in Elements(Assets)
      BY DEF Target, Elements
    <3> DEFINE key == <<"binance", Assets[i]>>
    <3>5. <<"prices", key>> \in EarlierKeys
      BY <3>3, <3>4 DEF EarlierKeys
    <3> DEFINE k == <<"prices", key>>
               y == [table |-> k[1], key |-> k[2], at |-> 0, run |-> 0, txn |-> 0, dead |-> 0]
    <3>6. y \in EarlierRows
      BY <3>5, Zenon DEF EarlierRows
    <3>7. y.table = "prices" /\ y.key[2] = Assets[i] /\ y.at = 0 /\ y.txn = 0
      OBVIOUS
    <3> HIDE DEF y
    <3> QED
      BY <3>1, <3>2, <3>6, <3>7 DEF Committed
  <2>2. ASSUME NEW x \in rows PROVE PriceOK(x)
    BY <1>9, <2>1 DEF PriceOK, CompleteAt
  <2>3. ASSUME NEW r \in Runs PROVE BatchOK(r)
    BY <1>5, <1>6 DEF BatchOK
  <2> QED
    BY <2>2, <2>3 DEF PricesOK
<1> QED
  BY <1>8, <1>13, <1>14 DEF CollectionInv

----------------------------------------------------------------------------
(* The theorems *)

\* Only committed buckets are deleted, a run's DELETE finds all that runs it did
\* not meet have left, and what it has deleted it has also inserted when it
\* comes to its commit. The prices a run has stored for a source are those of the
\* first assets, and a committed price has one for every asset beside it.
THEOREM InductiveInvariant ==
  Spec => []CollectionInv
<1>1. Init => CollectionInv
  BY InitKept
<1>2. CollectionInv /\ [Next]_vars => CollectionInv'
  BY NextKept DEF CollectionInv, Preserved
<1> QED
  BY <1>1, <1>2, PTL DEF Spec

\* No failing fetch, error or crash between the DELETE and the INSERT of
\* replace_for loses a heatmap.
THEOREM HeatmapsNeverLost ==
  Spec => HeatmapNeverLost
<1>1. CollectionInv /\ [Next]_vars =>
        [\A key \in Heatmaps : Versions(key) # {} => Versions(key)' # {}]_vars
  <2> SUFFICES ASSUME CollectionInv, [Next]_vars, NEW key, Versions(key) # {}
               PROVE  Versions(key)' # {}
    OBVIOUS
  <2>1. \E x \in Heat : x.key = key /\ x.txn = 0
    BY DEF Versions, Committed, Heat
  <2>2. NoneLost(key)
    BY NextKept DEF CollectionInv, Preserved
  <2>3. PICK z \in Heat' : z.key = key /\ z.txn = 0
    BY <2>1, <2>2 DEF NoneLost
  <2> QED
    BY <2>3 DEF Versions, Committed, Heat
<1> QED
  BY <1>1, InductiveInvariant, PTL DEF Spec, HeatmapNeverLost

\* replace_for leaves a second set of buckets only when two runs overlapped.
THEOREM HeatmapsDoubledOnlyByOverlap ==
  Spec => []DoubledOnlyByOverlap
<1>1. CollectionInv => DoubledOnlyByOverlap
  <2> SUFFICES ASSUME CollectionInv, NEW key, NEW q \in Versions(key), NEW r \in Versions(key),
                      q # r
               PROVE  {q, r} \in met
    BY DEF DoubledOnlyByOverlap
  <2>1. PICK x \in Heat : x.key = key /\ x.txn = 0 /\ x.run = q
    BY DEF Versions, Committed, Heat
  <2>2. PICK y \in Heat : y.key = key /\ y.txn = 0 /\ y.run = r
    BY DEF Versions, Committed, Heat
  <2>3. ApartOK(x, y)
    BY DEF CollectionInv, HeatsOK
  <2> QED
    BY <2>1, <2>2, <2>3 DEF ApartOK, Apart
<1> QED
  BY <1>1, InductiveInvariant, PTL

\* A healthy status means that every asset has a fresh price: the snapshots of
\* a source are committed together, so that one stands for all.
THEOREM HealthyIsFresh ==
  Spec => []HealthyMeansFresh
<1>1. CollectionInv => HealthyMeansFresh
  <2> SUFFICES ASSUME CollectionInv, Status = "healthy", NEW i \in DOMAIN Assets
               PROVE  \E x \in Committed("prices") : x.key[2] = Assets[i] /\ Recent(x.at)
    BY DEF HealthyMeansFresh
  <2>1. Alerts = {}
    BY DEF Status
  <2>2. PriceAlerts = {}
    BY <2>1 DEF Alerts
  <2>3. PICK x \in Committed("prices") : Recent(x.at)
    BY <2>2 DEF PriceAlerts
  <2>4. CompleteAt(x.at)
    BY DEF CollectionInv, PricesOK, PriceOK, Committed
  <2> QED
    BY <2>3, <2>4 DEF CompleteAt
<1> QED
  BY <1>1, InductiveInvariant, PTL
==============================================================================
