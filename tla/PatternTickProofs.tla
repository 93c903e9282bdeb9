-------------------------- MODULE PatternTickProofs --------------------------
(***************************************************************************)
(* Proofs about PatternTick, for any number of keys, any caps and          *)
(* cooldowns and any length of the hour and of the day.                    *)
(***************************************************************************)
EXTENDS PatternTick, FiniteSetTheorems, TLAPS

----------------------------------------------------------------------------
(* The calendar *)

\* Division with remainder is unique.
LEMMA DivisionUnique ==
  ASSUME NEW len \in Nat \ {0}, NEW q1 \in Int, NEW q2 \in Int,
         NEW r1 \in 0..(len - 1), NEW r2 \in 0..(len - 1),
         q1 * len + r1 = q2 * len + r2
  PROVE  r1 = r2
<1>1. (q1 - q2) * len = r2 - r1
  OBVIOUS
<1>2. CASE q1 - q2 >= 1
  <2>1. (q1 - q2) * len >= len
    BY <1>2
  <2> QED
    BY <1>1, <2>1
<1>3. CASE q1 - q2 <= -1
  <2>1. (q2 - q1) * len >= len
    BY <1>3
  <2> QED
    BY <1>1, <2>1
<1>4. CASE q1 = q2
  BY <1>4
<1> QED
  BY <1>2, <1>3, <1>4

\* An earlier instant lies in the window of t exactly when it is not before
\* the start of that window.
LEMMA SameWindow ==
  ASSUME NEW len \in Nat \ {0}, NEW t \in Nat, NEW u \in Nat, u <= t
  PROVE  WindowStart(u, len) = WindowStart(t, len) <=> WindowStart(t, len) <= u
<1>1. /\ t % len \in 0..(len - 1) /\ t = (t \div len) * len + (t % len)
      /\ u % len \in 0..(len - 1) /\ u = (u \div len) * len + (u % len)
      /\ t \div len \in Int /\ u \div len \in Int
  OBVIOUS
<1>2. ASSUME WindowStart(u, len) = WindowStart(t, len)
      PROVE  WindowStart(t, len) <= u
  BY <1>1, <1>2 DEF WindowStart
<1>3. ASSUME WindowStart(t, len) <= u
      PROVE  WindowStart(u, len) = WindowStart(t, len)
  <2> DEFINE s == u - WindowStart(t, len)
  <2>1. s \in 0..(len - 1)
    BY <1>1, <1>3 DEF WindowStart
  <2>2. u = (t \div len) * len + s
    BY <1>1 DEF WindowStart
  <2>3. (u \div len) * len + (u % len) = (t \div len) * len + s
    BY <1>1, <2>2
  <2> HIDE DEF s
  <2>4. u % len = s
    BY <1>1, <2>1, <2>3, DivisionUnique
  <2> QED
    BY <1>1, <2>4 DEF WindowStart, s
<1> QED
  BY <1>2, <1>3

----------------------------------------------------------------------------
(* The inductive invariant *)

\* The table holds no row of the future, and none of the running tick for a
\* key that is still to be gated.
PastInv ==
  /\ IsFiniteSet(triggers)
  /\ tickTs <= clock
  /\ pc # "idle" => tickTs >= 1
  /\ \A r \in triggers : r.ts <= tickTs
  /\ pc = "gate" => \A r \in triggers : r.ts = tickTs => r.key \notin pending

\* Nothing of the running tick has been handed over while it is being gated.
HandOffInv ==
  \A i \in DOMAIN handoffs : \A r \in handoffs[i] :
    r.ts <= tickTs /\ (pc = "gate" => r.ts < tickTs)

\* What the gate returned is committed, and is with the dispatcher as soon as
\* that is called.
AllowedInv ==
  /\ \A k \in allowed : \E r \in Allows : r.key = k /\ r.ts = tickTs
  /\ pc = "dispatch" =>
       \A k \in allowed : \E i \in DOMAIN handoffs : \E r \in handoffs[i] :
         r.key = k /\ r.ts = tickTs

IInv ==
  /\ TypeOK
  /\ PastInv
  /\ HandOffInv
  /\ AllowedInv
  /\ HardCapsRespected
  /\ SoftCapRespected
  /\ CooldownRespected
  /\ HandedOffOnce
  /\ CompletedTickDelivers

----------------------------------------------------------------------------
(* Counting *)

\* Adding one row to a finite set raises its cardinality by one at most.
LEMMA AddOne ==
  ASSUME NEW S, NEW T, NEW x, NEW n \in Nat,
         IsFiniteSet(S), T \subseteq S \cup {x}, Cardinality(S) < n
  PROVE  Cardinality(T) <= n
<1>1. /\ IsFiniteSet(S \cup {x})
      /\ Cardinality(S \cup {x}) = IF x \in S THEN Cardinality(S) ELSE Cardinality(S) + 1
  BY FS_AddElement
<1>2. Cardinality(T) <= Cardinality(S \cup {x}) /\ IsFiniteSet(T)
  BY <1>1, FS_Subset
<1>3. Cardinality(S) \in Nat /\ Cardinality(T) \in Nat
  BY <1>2, FS_CardinalityType
<1> QED
  BY <1>1, <1>2, <1>3

\* The rows counted for the running tick are those of its window.
LEMMA CountedRows ==
  ASSUME TypeOK, PastInv, NEW len \in Nat \ {0}
  PROVE  /\ AllowsIn(WindowStart(tickTs, len), CounterWindowEnd(tickTs))
              = AllowsInWindow(tickTs, len)
         /\ IsFiniteSet(AllowsInWindow(tickTs, len))
<1>1. \A r \in triggers : r.ts \in Nat /\ r.ts <= tickTs
  BY DEF TypeOK, PastInv, Trigger
<1>2. tickTs \in Nat
  BY MaxClockAssumption DEF TypeOK
<1>3. \A r \in Allows :
        WindowStart(r.ts, len) = WindowStart(tickTs, len)
          <=> WindowStart(tickTs, len) <= r.ts /\ r.ts < CounterWindowEnd(tickTs)
  BY <1>1, <1>2, SameWindow DEF CounterWindowEnd, Allows
<1>4. IsFiniteSet(AllowsInWindow(tickTs, len))
  <2>1. AllowsInWindow(tickTs, len) \subseteq triggers
    BY DEF AllowsInWindow, Allows
  <2> QED
    BY <2>1, FS_Subset DEF PastInv
<1> QED
  BY <1>3, <1>4 DEF AllowsIn, AllowsInWindow

----------------------------------------------------------------------------
(* The initial state *)

\* The invariant holds at first.
LEMMA InitIInv == Init => IInv
<1> SUFFICES ASSUME Init PROVE IInv
  OBVIOUS
<1>1. Allows = {}
  BY DEF Init, Allows
<1>2. TypeOK
  <2>1. handoffs \in Seq(SUBSET Trigger)
    BY DEF Init
  <2>2. clock \in 1..MaxClock /\ tickTs \in 0..MaxClock
    BY MaxClockAssumption DEF Init
  <2> QED
    BY <2>1, <2>2 DEF Init, TypeOK
<1>3. PastInv
  BY FS_EmptySet DEF Init, PastInv
<1>4. HandOffInv /\ HandedOffOnce /\ AllowedInv /\ CompletedTickDelivers
  BY DEF Init, HandOffInv, HandedOffOnce, AllowedInv, CompletedTickDelivers
<1>5. HardCapsRespected /\ SoftCapRespected
  <2>1. \A t, len : AllowsInWindow(t, len) = {}
    BY <1>1 DEF AllowsInWindow
  <2>2. \A t : {r \in AllowsInWindow(t, HourLen) : r.key \notin Critical} = {}
    BY <2>1
  <2> QED
    BY <2>1, <2>2, FS_EmptySet, CapsAssumption DEF HardCapsRespected, SoftCapRespected
<1>6. CooldownRespected
  BY <1>1 DEF CooldownRespected
<1> QED
  BY <1>2, <1>3, <1>4, <1>5, <1>6 DEF IInv

----------------------------------------------------------------------------
(* Steps that leave the table alone *)

\* The caps and the cooldown speak of the table only.
LEMMA SameTable ==
  ASSUME IInv, UNCHANGED triggers
  PROVE  HardCapsRespected' /\ SoftCapRespected' /\ CooldownRespected'
<1>1. Allows' = Allows
  BY DEF Allows
<1>2. \A t, len : AllowsInWindow(t, len)' = AllowsInWindow(t, len)
  BY <1>1 DEF AllowsInWindow
<1> QED
  BY <1>1, <1>2 DEF IInv, HardCapsRespected, SoftCapRespected, CooldownRespected

\* Time passes.
LEMMA TickIInv ==
  ASSUME IInv, Tick
  PROVE  IInv'
<1> USE DEF Tick, tickVars
<1>1. TypeOK'
  BY MaxClockAssumption DEF IInv, TypeOK
<1>2. PastInv'
  BY MaxClockAssumption DEF IInv, PastInv, TypeOK
<1>3. HandOffInv' /\ HandedOffOnce' /\ AllowedInv' /\ CompletedTickDelivers'
  BY DEF IInv, HandOffInv, HandedOffOnce, AllowedInv, CompletedTickDelivers, Allows
<1> QED
  BY <1>1, <1>2, <1>3, SameTable DEF IInv

\* A tick starts, with a timestamp of its own.
LEMMA StartTickIInv ==
  ASSUME IInv, StartTick
  PROVE  IInv'
<1> USE DEF StartTick
<1>1. TypeOK'
  BY DispatchModesAssumption DEF IInv, TypeOK
<1>2. \A r \in triggers : r.ts \in Nat /\ r.ts < tickTs'
  BY MaxClockAssumption DEF IInv, PastInv, TypeOK, Trigger
<1>3. PastInv'
  BY <1>2 DEF IInv, PastInv, TypeOK
<1>4. HandOffInv'
  <2>1. \A i \in DOMAIN handoffs : handoffs[i] \subseteq triggers
    BY DEF IInv, HandedOffOnce, Allows
  <2>2. tickTs' \in Nat
    BY MaxClockAssumption DEF IInv, TypeOK
  <2>3. \A i \in DOMAIN handoffs : \A r \in handoffs[i] : r.ts <= tickTs' /\ r.ts < tickTs'
    BY <1>2, <2>1, <2>2
  <2> QED
    BY <2>3 DEF HandOffInv
<1>5. HandedOffOnce'
  BY DEF IInv, HandedOffOnce, Allows
<1>6. AllowedInv' /\ CompletedTickDelivers'
  BY DEF AllowedInv, CompletedTickDelivers
<1> QED
  BY <1>1, <1>3, <1>4, <1>5, <1>6, SameTable DEF IInv

\* The ALLOW rows of the tick are handed to the dispatcher.
LEMMA HandOffIInv ==
  ASSUME IInv, HandOff
  PROVE  IInv'
<1> USE DEF HandOff, tickVars
<1> DEFINE n == Len(handoffs)
<1>1. /\ handoffs \in Seq(SUBSET Trigger) /\ n \in Nat
      /\ EventsForTick \in SUBSET Trigger
  BY DEF IInv, TypeOK, EventsForTick, Allows
<1>2. /\ DOMAIN handoffs = 1..n /\ DOMAIN handoffs' = 1..(n + 1)
      /\ \A i \in 1..n : handoffs'[i] = handoffs[i]
      /\ handoffs'[n + 1] = EventsForTick
  BY <1>1
<1>3. TypeOK'
  BY <1>1 DEF IInv, TypeOK
<1>4. PastInv'
  BY DEF IInv, PastInv
<1>5. \A i \in 1..n : \A r \in handoffs[i] : r.ts < tickTs
  BY <1>2 DEF IInv, HandOffInv
<1>6. HandOffInv'
  <2>1. tickTs \in Nat /\ \A r \in EventsForTick : r.ts = tickTs
    BY MaxClockAssumption DEF EventsForTick, IInv, TypeOK
  <2> SUFFICES ASSUME NEW i \in 1..(n + 1), NEW r \in handoffs'[i]
               PROVE  r.ts <= tickTs
    BY <1>2 DEF HandOffInv
  <2>2. CASE i = n + 1
    BY <1>2, <2>1, <2>2
  <2>3. CASE i \in 1..n
    BY <1>2, <2>3 DEF IInv, HandOffInv
  <2> QED
    BY <1>1, <2>2, <2>3
<1>7. HandedOffOnce'
  <2>1. EventsForTick \subseteq Allows
    BY DEF EventsForTick
  <2>2. \A i \in 1..n : handoffs[i] \cap EventsForTick = {}
    <3> SUFFICES ASSUME NEW i \in 1..n, NEW r \in handoffs[i], r \in EventsForTick
                 PROVE  FALSE
      OBVIOUS
    <3>1. r.ts < tickTs /\ r.ts = tickTs
      BY <1>5 DEF EventsForTick
    <3>2. tickTs \in Nat
      BY MaxClockAssumption DEF IInv, TypeOK
    <3> QED
      BY <3>1, <3>2
  <2> SUFFICES ASSUME NEW i \in 1..(n + 1)
               PROVE  /\ handoffs'[i] \subseteq Allows
                      /\ \A j \in 1..(n + 1) : i # j => handoffs'[i] \cap handoffs'[j] = {}
    BY <1>2 DEF HandedOffOnce, Allows
  <2>3. CASE i = n + 1
    BY <1>1, <1>2, <2>1, <2>2, <2>3
  <2>4. CASE i \in 1..n
    BY <1>1, <1>2, <2>2, <2>4 DEF IInv, HandedOffOnce
  <2> QED
    BY <1>1, <2>3, <2>4
<1>8. AllowedInv'
  <2>1. \A k \in allowed : \E r \in EventsForTick : r.key = k /\ r.ts = tickTs
    BY DEF IInv, AllowedInv, EventsForTick
  <2>2. n + 1 \in DOMAIN handoffs'
    BY <1>1, <1>2
  <2> QED
    BY <1>2, <2>1, <2>2 DEF IInv, AllowedInv, Allows
<1>9. CompletedTickDelivers'
  BY DEF CompletedTickDelivers
<1> QED
  BY <1>3, <1>4, <1>6, <1>7, <1>8, <1>9, SameTable DEF IInv

\* The dispatcher has returned, or there was nothing to hand over.
LEMMA CompleteIInv ==
  ASSUME IInv, Complete
  PROVE  IInv'
<1> USE DEF Complete
<1>1. TypeOK' /\ PastInv' /\ HandOffInv' /\ HandedOffOnce'
  BY DEF IInv, TypeOK, PastInv, HandOffInv, HandedOffOnce, Allows
<1>2. AllowedInv'
  BY DEF IInv, AllowedInv, Allows
<1>3. CompletedTickDelivers'
  <2>1. CASE pc = "dispatch"
    BY <2>1 DEF IInv, AllowedInv, CompletedTickDelivers
  <2>2. CASE ~dispatchOn \/ allowed = {} \/ EventsForTick = {}
    <3>1. EventsForTick = {} => allowed = {}
      BY DEF IInv, AllowedInv, EventsForTick
    <3> QED
      BY <2>2, <3>1 DEF CompletedTickDelivers
  <2> QED
    BY <2>1, <2>2
<1> QED
  BY <1>1, <1>2, <1>3, SameTable DEF IInv

\* A tick dies.
LEMMA AbortIInv ==
  ASSUME IInv, Abort
  PROVE  IInv'
<1> USE DEF Abort
<1>1. TypeOK' /\ PastInv' /\ HandOffInv' /\ HandedOffOnce'
  BY DEF IInv, TypeOK, PastInv, HandOffInv, HandedOffOnce, Allows
<1>2. AllowedInv' /\ CompletedTickDelivers'
  BY DEF AllowedInv, CompletedTickDelivers
<1> QED
  BY <1>1, <1>2, SameTable DEF IInv

----------------------------------------------------------------------------
(* Gating a match *)

\* Both outcomes of a gate transaction: the row is in the table or it is not,
\* and the match is returned only if it is and says ALLOW.
LEMMA GateFacts ==
  ASSUME IInv, NEW k \in Keys, GateCommit(k) \/ GateFail(k)
  PROVE  LET r == Decided(k) IN
         /\ pc = "gate" /\ k \in pending /\ pending' = pending \ {k}
         /\ UNCHANGED <<clock, pc, tickTs, dispatchOn, lastTick, handoffs>>
         /\ r \in Trigger /\ r.key = k /\ r.ts = tickTs
         /\ r.decision = Evaluate(k, tickTs)
         /\ tickTs \in Nat
         /\ triggers' \in {triggers, triggers \cup {r}}
         /\ \/ allowed' = allowed
            \/ /\ allowed' = allowed \cup {k}
               /\ r.decision = "ALLOW" /\ r \in triggers'
<1> DEFINE r == Decided(k)
<1>1. r.key = k /\ r.ts = tickTs /\ r.decision = Evaluate(k, tickTs)
  BY DEF Decided
<1>2. Evaluate(k, tickTs) \in Decisions
  BY DEF Evaluate, Decisions
<1>3. pc = "gate"
  BY DEF GateCommit, GateFail
<1>4. tickTs \in 1..MaxClock /\ tickTs \in Nat
  BY <1>3, MaxClockAssumption DEF IInv, PastInv, TypeOK
<1>5. r \in Trigger
  BY <1>2, <1>4 DEF Trigger, Decided
<1>6. CASE GateCommit(k)
  BY <1>1, <1>3, <1>4, <1>5, <1>6 DEF GateCommit, IsNext, tickVars
<1>7. CASE GateFail(k)
  BY <1>1, <1>3, <1>4, <1>5, <1>7 DEF GateFail, IsNext, tickVars
<1> QED
  BY <1>6, <1>7

\* The new row enters Allows only if the gate allowed it.
LEMMA GateAllows ==
  ASSUME IInv, NEW k \in Keys, GateCommit(k) \/ GateFail(k)
  PROVE  /\ Allows \subseteq Allows'
         /\ \/ Allows' = Allows
            \/ Decided(k).decision = "ALLOW" /\ Allows' = Allows \cup {Decided(k)}
<1>1. triggers' \in {triggers, triggers \cup {Decided(k)}}
  BY GateFacts
<1> QED
  BY <1>1 DEF Allows

\* What an ALLOW says about the table it was decided on.
LEMMA AllowMeans ==
  ASSUME NEW k \in Keys, NEW ts, Evaluate(k, ts) = "ALLOW"
  PROVE  /\ ~CooldownHit(k, ts)
         /\ ~(DailyCount(ts) >= DayCap)
         /\ ~(HourlyCount(ts) >= HourCap)
         /\ k \in Critical \/ ~(HourlyCount(ts) >= SoftCap)
  BY DEF Evaluate

\* A cap that held on the counted window still holds with one row more.
LEMMA CapKept ==
  ASSUME IInv, NEW k \in Keys, GateCommit(k) \/ GateFail(k),
         NEW len \in Nat \ {0}, NEW cap \in Nat,
         Decided(k).decision = "ALLOW" =>
           Cardinality(AllowsIn(WindowStart(tickTs, len), CounterWindowEnd(tickTs))) < cap,
         NEW t \in 1..MaxClock,
         Cardinality(AllowsInWindow(t, len)) <= cap
  PROVE  Cardinality(AllowsInWindow(t, len)') <= cap
<1> DEFINE r == Decided(k)
<1>1. r.ts = tickTs
  BY GateFacts
<1>2. CASE AllowsInWindow(t, len)' = AllowsInWindow(t, len)
  BY <1>2
<1>3. CASE AllowsInWindow(t, len)' # AllowsInWindow(t, len)
  <2>1. r.decision = "ALLOW" /\ Allows' = Allows \cup {r}
    BY <1>3, GateAllows DEF AllowsInWindow
  <2>2. WindowStart(tickTs, len) = WindowStart(t, len)
    BY <1>1, <1>3, <2>1 DEF AllowsInWindow
  <2>3. AllowsInWindow(t, len) = AllowsInWindow(tickTs, len)
    BY <2>2 DEF AllowsInWindow
  <2>4. /\ IsFiniteSet(AllowsInWindow(t, len))
        /\ Cardinality(AllowsInWindow(t, len)) < cap
    BY <2>1, <2>3, CountedRows DEF IInv
  <2>5. AllowsInWindow(t, len)' \subseteq AllowsInWindow(t, len) \cup {r}
    BY <2>1 DEF AllowsInWindow
  <2> QED
    BY <2>4, <2>5, AddOne
<1> QED
  BY <1>2, <1>3

\* The counts of the gate are numbers.
LEMMA CountsAreNat ==
  ASSUME IInv
  PROVE  HourlyCount(tickTs) \in Nat /\ DailyCount(tickTs) \in Nat
  BY CountedRows, FS_CardinalityType, CalendarAssumption DEF IInv, HourlyCount, DailyCount

\* A decision keeps the hard caps, whether or not its commit is acknowledged,
LEMMA GateHardCaps ==
  ASSUME IInv, NEW k \in Keys, GateCommit(k) \/ GateFail(k)
  PROVE  HardCapsRespected'
<1>1. Decided(k).decision = Evaluate(k, tickTs)
  BY GateFacts
<1>2. HourlyCount(tickTs) \in Nat /\ DailyCount(tickTs) \in Nat
  BY CountsAreNat
<1>3. Decided(k).decision = "ALLOW" =>
        HourlyCount(tickTs) < HourCap /\ DailyCount(tickTs) < DayCap
  <2> SUFFICES ASSUME Evaluate(k, tickTs) = "ALLOW"
               PROVE  HourlyCount(tickTs) < HourCap /\ DailyCount(tickTs) < DayCap
    BY <1>1
  <2>1. ~(DailyCount(tickTs) >= DayCap) /\ ~(HourlyCount(tickTs) >= HourCap)
    BY AllowMeans
  <2> QED
    BY <1>2, <2>1, CapsAssumption
<1>4. SUFFICES ASSUME NEW t \in 1..MaxClock
               PROVE  /\ Cardinality(AllowsInWindow(t, HourLen)') <= HourCap
                      /\ Cardinality(AllowsInWindow(t, DayLen)') <= DayCap
  BY DEF HardCapsRespected
<1>5. /\ Cardinality(AllowsInWindow(t, HourLen)) <= HourCap
      /\ Cardinality(AllowsInWindow(t, DayLen)) <= DayCap
  BY DEF IInv, HardCapsRespected
<1>6. Cardinality(AllowsInWindow(t, HourLen)') <= HourCap
  BY <1>3, <1>5, CapKept, CalendarAssumption, CapsAssumption DEF HourlyCount
<1>7. Cardinality(AllowsInWindow(t, DayLen)') <= DayCap
  BY <1>3, <1>5, CapKept, CalendarAssumption, CapsAssumption DEF DailyCount
<1> QED
  BY <1>6, <1>7

\* the soft cap
LEMMA GateSoftCap ==
  ASSUME IInv, NEW k \in Keys, GateCommit(k) \/ GateFail(k)
  PROVE  SoftCapRespected'
<1> DEFINE r == Decided(k)
<1> DEFINE Soft(t) == {a \in AllowsInWindow(t, HourLen) : a.key \notin Critical}
<1> SUFFICES ASSUME NEW t \in 1..MaxClock
             PROVE  Cardinality(Soft(t)') <= SoftCap
  BY DEF SoftCapRespected
<1>1. r.decision = Evaluate(k, tickTs) /\ r.key = k /\ r.ts = tickTs
  BY GateFacts
<1>2. CASE Soft(t)' = Soft(t)
  BY <1>2 DEF IInv, SoftCapRespected
<1>3. CASE Soft(t)' # Soft(t)
  <2>1. r.decision = "ALLOW" /\ Allows' = Allows \cup {r}
    BY <1>3, GateAllows DEF AllowsInWindow
  <2>2. k \notin Critical /\ WindowStart(tickTs, HourLen) = WindowStart(t, HourLen)
    BY <1>1, <1>3, <2>1 DEF AllowsInWindow
  <2>3. AllowsInWindow(t, HourLen) = AllowsInWindow(tickTs, HourLen)
    BY <2>2 DEF AllowsInWindow
  <2>4. /\ IsFiniteSet(AllowsInWindow(t, HourLen))
        /\ Cardinality(AllowsInWindow(t, HourLen)) = HourlyCount(tickTs)
    BY <2>3, CountedRows, CalendarAssumption DEF IInv, HourlyCount
  <2>5. Cardinality(AllowsInWindow(t, HourLen)) < SoftCap
    <3>1. ~(HourlyCount(tickTs) >= SoftCap)
      BY <1>1, <2>1, <2>2, AllowMeans
    <3> QED
      BY <2>4, <3>1, CountsAreNat, CapsAssumption
  <2>6. Soft(t)' \subseteq AllowsInWindow(t, HourLen) \cup {r}
    BY <2>1 DEF AllowsInWindow
  <2> QED
    BY <2>4, <2>5, <2>6, AddOne, CapsAssumption
<1> QED
  BY <1>2, <1>3

\* and the cooldown.
LEMMA GateCooldown ==
  ASSUME IInv, NEW k \in Keys, GateCommit(k) \/ GateFail(k)
  PROVE  CooldownRespected'
<1> DEFINE r == Decided(k)
<1>1. /\ r.decision = Evaluate(k, tickTs) /\ r.key = k /\ r.ts = tickTs
      /\ tickTs \in Nat /\ pc = "gate" /\ k \in pending
  BY GateFacts
<1>2. \A a \in Allows : /\ a.ts \in Nat /\ a.ts <= tickTs
                        /\ a.key = k => a.ts # tickTs
  BY <1>1 DEF IInv, TypeOK, PastInv, Trigger, Allows
<1>3. CASE Allows' = Allows
  BY <1>3 DEF IInv, CooldownRespected
<1>4. CASE r.decision = "ALLOW" /\ Allows' = Allows \cup {r}
  <2>1. ~CooldownHit(k, tickTs)
    BY <1>1, <1>4, AllowMeans
  <2>2. \A a \in Allows : a.key = k => a.ts < tickTs /\ tickTs - a.ts > Cooldown[k]
    <3> SUFFICES ASSUME NEW a \in Allows, a.key = k
                 PROVE  a.ts < tickTs /\ tickTs - a.ts > Cooldown[k]
      OBVIOUS
    <3>1. a.ts \in Nat /\ a.ts < tickTs
      BY <1>1, <1>2
    <3>2. Cooldown[k] \in Nat
      BY CooldownAssumption
    <3>3. ~(tickTs - Cooldown[k] <= a.ts)
      BY <2>1, <3>1 DEF CooldownHit
    <3> QED
      BY <1>1, <3>1, <3>2, <3>3
  <2> SUFFICES ASSUME NEW r1 \in Allows \cup {r}, NEW r2 \in Allows \cup {r},
                      r1.key = r2.key, r1.ts <= r2.ts
               PROVE  r1 = r2 \/ r2.ts - r1.ts > Cooldown[r1.key]
    BY <1>4 DEF CooldownRespected
  <2>3. CASE r1 \in Allows /\ r2 \in Allows
    BY <2>3 DEF IInv, CooldownRespected
  <2>4. CASE r1 \in Allows /\ r2 = r
    BY <1>1, <2>2, <2>4
  <2>5. CASE r1 = r /\ r2 \in Allows
    BY <1>1, <1>2, <2>2, <2>5
  <2> QED
    BY <2>3, <2>4, <2>5
<1> QED
  BY <1>3, <1>4, GateAllows

\* A decision keeps the whole invariant.
LEMMA GateIInv ==
  ASSUME IInv, NEW k \in Keys, GateCommit(k) \/ GateFail(k)
  PROVE  IInv'
<1> DEFINE r == Decided(k)
<1>1. /\ pc = "gate" /\ k \in pending /\ pending' = pending \ {k}
      /\ UNCHANGED <<clock, pc, tickTs, dispatchOn, lastTick, handoffs>>
      /\ r \in Trigger /\ r.key = k /\ r.ts = tickTs
      /\ tickTs \in Nat
      /\ triggers' \in {triggers, triggers \cup {r}}
      /\ \/ allowed' = allowed
         \/ /\ allowed' = allowed \cup {k}
            /\ r.decision = "ALLOW" /\ r \in triggers'
  BY GateFacts
<1>2. TypeOK'
  BY <1>1 DEF IInv, TypeOK
<1>3. PastInv'
  <2>1. IsFiniteSet(triggers')
    BY <1>1, FS_AddElement DEF IInv, PastInv
  <2> QED
    BY <1>1, <2>1 DEF IInv, PastInv
<1>4. HandOffInv'
  BY <1>1 DEF IInv, HandOffInv
<1>5. HandedOffOnce'
  <2>1. Allows \subseteq Allows'
    BY GateAllows
  <2> QED
    BY <1>1, <2>1 DEF IInv, HandedOffOnce
<1>6. AllowedInv'
  <2>1. Allows \subseteq Allows'
    BY GateAllows
  <2>2. CASE allowed' = allowed
    BY <1>1, <2>1, <2>2 DEF IInv, AllowedInv
  <2>3. CASE allowed' = allowed \cup {k} /\ r.decision = "ALLOW" /\ r \in triggers'
    <3>1. r \in Allows'
      BY <2>3 DEF Allows
    <3> QED
      BY <1>1, <2>1, <2>3, <3>1 DEF IInv, AllowedInv
  <2> QED
    BY <1>1, <2>2, <2>3
<1>7. CompletedTickDelivers'
  BY <1>1 DEF CompletedTickDelivers
<1> QED
  BY <1>2, <1>3, <1>4, <1>5, <1>6, <1>7, GateHardCaps, GateSoftCap, GateCooldown DEF IInv

----------------------------------------------------------------------------
(* The theorems *)

\* A stutter keeps it.
LEMMA StutterIInv ==
  ASSUME IInv, UNCHANGED vars
  PROVE  IInv'
<1> USE DEF vars
<1>1. TypeOK' /\ PastInv' /\ HandOffInv' /\ HandedOffOnce'
  BY DEF IInv, TypeOK, PastInv, HandOffInv, HandedOffOnce, Allows
<1>2. AllowedInv' /\ CompletedTickDelivers'
  BY DEF IInv, AllowedInv, CompletedTickDelivers, Allows
<1> QED
  BY <1>1, <1>2, SameTable DEF IInv

\* Every step keeps it.
LEMMA NextIInv == IInv /\ [Next]_vars => IInv'
<1> SUFFICES ASSUME IInv, [Next]_vars PROVE IInv'
  OBVIOUS
<1>1. CASE Tick
  BY <1>1, TickIInv
<1>2. CASE StartTick
  BY <1>2, StartTickIInv
<1>3. ASSUME NEW k \in Keys, GateCommit(k) \/ GateFail(k) PROVE IInv'
  BY <1>3, GateIInv
<1>4. CASE HandOff
  BY <1>4, HandOffIInv
<1>5. CASE Complete
  BY <1>5, CompleteIInv
<1>6. CASE Abort
  BY <1>6, AbortIInv
<1>7. CASE UNCHANGED vars
  BY <1>7, StutterIInv
<1> QED
  BY <1>1, <1>2, <1>3, <1>4, <1>5, <1>6, <1>7 DEF Next, Step

\* The conjunction above is an invariant of every pattern tick.
THEOREM InductiveInvariant == Spec => []IInv
<1> QED
  BY InitIInv, NextIInv, PTL DEF Spec

\* Every variable keeps its type.
THEOREM TypeCorrect == Spec => []TypeOK
<1>1. IInv => TypeOK
  BY DEF IInv
<1> QED
  BY <1>1, InductiveInvariant, PTL

\* Neither hard cap is ever exceeded, for any caps and any calendar.
THEOREM HardCaps == Spec => []HardCapsRespected
<1>1. IInv => HardCapsRespected
  BY DEF IInv
<1> QED
  BY <1>1, InductiveInvariant, PTL

\* Beyond the soft cap only CRITICAL triggers are allowed.
THEOREM SoftCapKept == Spec => []SoftCapRespected
<1>1. IInv => SoftCapRespected
  BY DEF IInv
<1> QED
  BY <1>1, InductiveInvariant, PTL

\* Two ALLOW rows of a key are more than its cooldown apart.
THEOREM CooldownKept == Spec => []CooldownRespected
<1>1. IInv => CooldownRespected
  BY DEF IInv
<1> QED
  BY <1>1, InductiveInvariant, PTL

\* No committed ALLOW is handed to the dispatcher twice.
THEOREM HandOffs == Spec => []HandedOffOnce
<1>1. IInv => HandedOffOnce
  BY DEF IInv
<1> QED
  BY <1>1, InductiveInvariant, PTL

\* A completed tick has handed over everything it returned.
THEOREM CompletedTicks == Spec => []CompletedTickDelivers
<1>1. IInv => CompletedTickDelivers
  BY DEF IInv
<1> QED
  BY <1>1, InductiveInvariant, PTL

==============================================================================
