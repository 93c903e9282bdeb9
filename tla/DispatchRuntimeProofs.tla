------------------------ MODULE DispatchRuntimeProofs ------------------------
(***************************************************************************)
(* Proofs about DispatchRuntime, for any set of dispatchers, alerts and    *)
(* batches and any retry budget and timeout.                               *)
(***************************************************************************)
EXTENDS DispatchRuntime, TLAPS, WellFoundedInduction

----------------------------------------------------------------------------
(* The inductive invariant *)

Running(d) == pc[d] # "idle"

\* The program counter agrees with the local variables of the call.
CallInv ==
  \A d \in Dispatchers :
    /\ Running(d) => /\ events[d] \in Batches
                     /\ \A i \in DOMAIN events[d] : alertTs[events[d][i]] # 0
    /\ pc[d] \in {"send", "finalize"} => pos[d] \in DOMAIN events[d]
    /\ pc[d] # "send" => tries[d] = 0
    /\ ~senderOn[d] => tries[d] = 0
    /\ IF pc[d] = "finalize" THEN outcome[d] \in Terminal
                             ELSE outcome[d] = IdleOutcome
    /\ pc[d] # "mark" => staleIds[d] = {}
    /\ \A a \in staleIds[d] : Exists(a)

\* No timestamp lies in the future.
ClockInv ==
  /\ \A a \in Alerts : alertTs[a] <= clock
  /\ \A a \in Alerts : rows[a].updatedAt <= clock

\* A row exists exactly when its alert has been reserved, once; without one
\* nothing has been posted.  A reservation carries no error.
RowInv ==
  \A a \in Alerts :
    /\ IF Exists(a) THEN rounds[a] = 1 ELSE rounds[a] = 0 /\ copies[a] = 0
    /\ rows[a].status = "sending" => rows[a].error = "none"

\* A round in flight has one owner, a row that is not yet final and a number
\* of messages bounded by the posts made.
OwnerInv ==
  \A d \in Dispatchers, a \in Alerts : InFlight(d, a) =>
    /\ \A e \in Dispatchers : InFlight(e, a) => e = d
    /\ rows[a].status \in {"sending", "failed"}
    /\ pc[d] = "send" => copies[a] <= tries[d]
    /\ outcome[d] = "sent" => copies[a] >= 1
    /\ outcome[d] = "skipped_disabled" => copies[a] = 0

\* While the recovery UPDATE is pending, the selected rows that are still
\* "sending" are those older than the cutoff; afterwards there are none.
StaleInv ==
  \A d \in Dispatchers :
    /\ pc[d] = "mark" =>
         \A a \in Alerts : rows[a].status = "sending" =>
           (a \in staleIds[d] <=> rows[a].updatedAt < Cutoff(d))
    /\ pc[d] \in {"reserve", "send", "finalize"} =>
         \A a \in Alerts : rows[a].status = "sending" =>
           rows[a].updatedAt >= Cutoff(d)

IInv ==
  /\ TypeOK
  /\ CallInv
  /\ ClockInv
  /\ RowInv
  /\ OwnerInv
  /\ StaleInv
  /\ BoundedCopies
  /\ RowMatchesChat


----------------------------------------------------------------------------
(* Lemmas about the batch *)

\* min() of a non-empty set of naturals is one of its elements, and no other
\* is smaller.
LEMMA MinOfNats ==
  ASSUME NEW S \in SUBSET Nat, S # {}
  PROVE  /\ Min(S) \in S
         /\ \A u \in S : Min(S) <= u
<1>1. PICK t \in S : \A u \in S : <<u, t>> \notin OpToRel(<, Nat)
  BY NatLessThanWellFounded, WFMin, Zenon
<1>2. \A u \in S : t <= u
  <2> SUFFICES ASSUME NEW u \in S PROVE t <= u
    OBVIOUS
  <2>1. ~ (u < t)
    BY <1>1, Zenon DEF OpToRel
  <2> QED
    BY <2>1
<1> QED
  BY <1>1, <1>2, Zenon DEF Min

\* Every row, present or not, has a timestamp and a status.
LEMMA RowFacts ==
  ASSUME TypeOK, NEW a \in Alerts
  PROVE  /\ rows[a].updatedAt \in Nat
         /\ rows[a].status \in Statuses \cup {"absent"}
<1>1. rows[a] \in Row \cup {NoRow}
  BY DEF TypeOK
<1>2. CASE rows[a] \in Row
  BY <1>2, MaxClockAssumption DEF Row
<1>3. CASE rows[a] = NoRow
  BY <1>3 DEF NoRow
<1> QED
  BY <1>1, <1>2, <1>3

\* The batch of a running call is a non-empty list of raised alerts, and its
\* earliest timestamp is not in the future.
LEMMA BatchFacts ==
  ASSUME IInv, NEW d \in Dispatchers, Running(d)
  PROVE  /\ events[d] \in Batches
         /\ events[d] \in Seq(Alerts)
         /\ \A i \in DOMAIN events[d] : alertTs[events[d][i]] # 0
         /\ BatchTs(d) \in Int
         /\ BatchTs(d) >= 0
         /\ BatchTs(d) <= clock
<1>1. /\ events[d] \in Batches
      /\ events[d] \in Seq(Alerts) \ {<<>>}
      /\ \A i \in DOMAIN events[d] : alertTs[events[d][i]] # 0
  BY BatchesAssumption DEF IInv, CallInv
<1>2. /\ 1 \in DOMAIN events[d]
      /\ \A i \in DOMAIN events[d] : events[d][i] \in Alerts
  BY <1>1
<1>3. EventTimes(d) \in SUBSET Nat /\ EventTimes(d) # {}
  BY <1>2 DEF EventTimes, IInv, TypeOK
<1>4. \A t \in EventTimes(d) : t <= clock
  BY <1>2 DEF EventTimes, IInv, ClockInv
<1>5. BatchTs(d) \in EventTimes(d)
  BY <1>3, MinOfNats DEF BatchTs
<1>6. BatchTs(d) \in Nat /\ BatchTs(d) <= clock
  BY <1>3, <1>4, <1>5
<1> QED
  BY <1>1, <1>6

\* The alert in work is a member of the batch.
LEMMA CurrentFacts ==
  ASSUME IInv, NEW d \in Dispatchers,
         \/ pc[d] \in {"send", "finalize"}
         \/ pc[d] = "reserve" /\ pos[d] <= Len(events[d])
  PROVE  /\ Current(d) \in Alerts
         /\ pos[d] \in DOMAIN events[d]
         /\ alertTs[Current(d)] # 0
<1>1. Running(d)
  BY DEF Running
<1>2. /\ events[d] \in Seq(Alerts)
      /\ \A i \in DOMAIN events[d] : alertTs[events[d][i]] # 0
  BY <1>1, BatchFacts
<1>3. pos[d] \in DOMAIN events[d]
  BY <1>2 DEF IInv, CallInv, TypeOK
<1> QED
  BY <1>2, <1>3 DEF Current

\* A batch keeps its cutoff as long as its events keep their timestamps.
LEMMA CutoffStable ==
  ASSUME NEW d \in Dispatchers, events'[d] = events[d],
         \A i \in DOMAIN events[d] : alertTs'[events[d][i]] = alertTs[events[d][i]]
  PROVE  Cutoff(d)' = Cutoff(d)
<1>1. EventTimes(d)' = EventTimes(d)
  BY DEF EventTimes
<1> QED
  BY <1>1 DEF Cutoff, BatchTs

----------------------------------------------------------------------------
(* The initial states *)

\* The invariant holds at first.
LEMMA InitIInv == Init => IInv
<1> SUFFICES ASSUME Init PROVE IInv
  OBVIOUS
<1>1. TypeOK
  <2>1. overlapped \in BOOLEAN
    BY DEF Init
  <2> QED
    BY <2>1, MaxClockAssumption, RetryBudgetAssumption
       DEF Init, TypeOK, Row, NoRow, Statuses, Terminal, PCs, IdleOutcome
<1>2. CallInv
  BY DEF Init, CallInv, Running, Exists, IdleOutcome
<1>3. ClockInv /\ RowInv /\ OwnerInv /\ StaleInv
  BY DEF Init, ClockInv, RowInv, OwnerInv, StaleInv, InFlight, Exists, NoRow
<1>4. BoundedCopies /\ RowMatchesChat
  BY RetryBudgetAssumption DEF Init, BoundedCopies, RowMatchesChat, NoRow
<1> QED
  BY <1>1, <1>2, <1>3, <1>4 DEF IInv

----------------------------------------------------------------------------
(* Every step preserves the invariant *)

\* Time passes.
LEMMA TickIInv ==
  ASSUME IInv, Tick
  PROVE  IInv'
<1> USE DEF Tick, callVars, ghostVars
<1>1. TypeOK'
  BY MaxClockAssumption DEF IInv, TypeOK
<1>2. CallInv'
  BY DEF IInv, CallInv, Running, Exists
<1>3. ClockInv'
  BY RowFacts, MaxClockAssumption DEF IInv, ClockInv, TypeOK
<1>4. RowInv' /\ OwnerInv' /\ BoundedCopies' /\ RowMatchesChat'
  BY DEF IInv, RowInv, OwnerInv, BoundedCopies, RowMatchesChat, InFlight, Current, Exists
<1>5. \A d \in Dispatchers : Cutoff(d)' = Cutoff(d)
  BY CutoffStable
<1>6. StaleInv'
  BY <1>5 DEF IInv, StaleInv
<1> QED
  BY <1>1, <1>2, <1>3, <1>4, <1>6 DEF IInv

\* An alert is raised: no running call has it in its batch.
LEMMA RaiseIInv ==
  ASSUME IInv, NEW b \in Alerts, Raise(b)
  PROVE  IInv'
<1> USE DEF Raise, callVars, ghostVars
<1>1. TypeOK'
  BY MaxClockAssumption DEF IInv, TypeOK
<1>2. \A d \in Dispatchers : Running(d) =>
        /\ \A i \in DOMAIN events[d] : events[d][i] \in Alerts
        /\ \A i \in DOMAIN events[d] : alertTs'[events[d][i]] = alertTs[events[d][i]]
        /\ \A i \in DOMAIN events[d] : alertTs'[events[d][i]] # 0
  <2> SUFFICES ASSUME NEW d \in Dispatchers, Running(d), NEW i \in DOMAIN events[d]
               PROVE  /\ events[d][i] \in Alerts
                      /\ alertTs'[events[d][i]] = alertTs[events[d][i]]
                      /\ alertTs'[events[d][i]] # 0
    OBVIOUS
  <2>1. events[d][i] \in Alerts /\ alertTs[events[d][i]] # 0
    BY BatchFacts
  <2> QED
    BY <2>1 DEF IInv, TypeOK
<1>3. CallInv'
  BY <1>2 DEF IInv, CallInv, Running, Exists
<1>4. ClockInv'
  BY DEF IInv, ClockInv, TypeOK
<1>5. RowInv' /\ OwnerInv' /\ BoundedCopies' /\ RowMatchesChat'
  BY DEF IInv, RowInv, OwnerInv, BoundedCopies, RowMatchesChat, InFlight, Current, Exists
<1>6. \A d \in Dispatchers : Running(d) => Cutoff(d)' = Cutoff(d)
  BY <1>2, CutoffStable
<1>7. StaleInv'
  BY <1>6 DEF IInv, StaleInv, Running
<1> QED
  BY <1>1, <1>3, <1>4, <1>5, <1>7 DEF IInv

\* A call starts: it is in its recovery, so nothing is in flight for it.
LEMMA CallIInv ==
  ASSUME IInv, NEW d \in Dispatchers, Call(d)
  PROVE  IInv'
<1> USE DEF Call, ghostVars
<1>1. TypeOK'
  BY SenderModesAssumption DEF IInv, TypeOK, PCs
<1>2. CallInv'
  BY DEF IInv, CallInv, Running, Exists, TypeOK
<1>3. ClockInv' /\ RowInv' /\ BoundedCopies' /\ RowMatchesChat'
  BY DEF IInv, ClockInv, RowInv, BoundedCopies, RowMatchesChat, Exists
<1>4. OwnerInv'
  BY DEF IInv, OwnerInv, InFlight, Current, TypeOK
<1>5. \A e \in Dispatchers \ {d} : Cutoff(e)' = Cutoff(e)
  BY CutoffStable DEF IInv, TypeOK
<1>6. StaleInv'
  BY <1>5 DEF IInv, StaleInv, TypeOK
<1> QED
  BY <1>1, <1>2, <1>3, <1>4, <1>6 DEF IInv

\* The recovery selects exactly the rows older than the cutoff.
LEMMA SelectStaleIInv ==
  ASSUME IInv, NEW d \in Dispatchers, SelectStale(d)
  PROVE  IInv'
<1> USE DEF SelectStale, ghostVars
<1>1. TypeOK'
  BY DEF IInv, TypeOK, PCs, StaleRows
<1>2. CallInv'
  BY DEF IInv, CallInv, Running, Exists, TypeOK, StaleRows
<1>3. ClockInv' /\ RowInv' /\ BoundedCopies' /\ RowMatchesChat'
  BY DEF IInv, ClockInv, RowInv, BoundedCopies, RowMatchesChat, Exists
<1>4. OwnerInv'
  <2>1. /\ pc[d] = "recover" /\ pc'[d] \in {"mark", "reserve"}
        /\ \A e \in Dispatchers \ {d} : pc'[e] = pc[e]
    BY DEF IInv, TypeOK
  <2>2. \A e \in Dispatchers, a \in Alerts :
          InFlight(e, a)' => InFlight(e, a) /\ pc'[e] = pc[e]
    BY <2>1 DEF InFlight, Current
  <2> QED
    BY <2>2 DEF IInv, OwnerInv
<1>5. \A e \in Dispatchers : Cutoff(e)' = Cutoff(e)
  BY CutoffStable
<1>6. \A e \in Dispatchers : Running(e) => Cutoff(e) \in Int
  BY BatchFacts, StaleTimeoutAssumption DEF Cutoff
<1>7. StaleInv'
  <2> SUFFICES ASSUME NEW e \in Dispatchers, NEW a \in Alerts, rows[a].status = "sending"
               PROVE  /\ pc'[e] = "mark" =>
                           (a \in staleIds'[e] <=> rows[a].updatedAt < Cutoff(e))
                      /\ pc'[e] \in {"reserve", "send", "finalize"} =>
                           rows[a].updatedAt >= Cutoff(e)
    BY <1>5 DEF StaleInv
  <2>1. CASE e = d
    <3>1. staleIds'[d] = StaleRows(d) /\ pc'[d] \in {"mark", "reserve"}
      BY DEF IInv, TypeOK
    <3>2. pc'[d] = "reserve" => StaleRows(d) = {}
      BY DEF IInv, TypeOK
    <3>3. a \in StaleRows(d) <=> rows[a].updatedAt < Cutoff(d)
      BY DEF StaleRows
    <3>4. rows[a].updatedAt \in Nat /\ Cutoff(d) \in Int
      BY <1>6, RowFacts DEF Running, IInv
    <3> QED
      BY <2>1, <3>1, <3>2, <3>3, <3>4
  <2>2. CASE e # d
    BY <2>2 DEF IInv, TypeOK, StaleInv
  <2> QED
    BY <2>1, <2>2
<1> QED
  BY <1>1, <1>2, <1>3, <1>4, <1>7 DEF IInv

\* The recovery rewrites existing rows only, and leaves none that is stale.
LEMMA MarkStaleIInv ==
  ASSUME IInv, NEW d \in Dispatchers, MarkStale(d)
  PROVE  IInv'
<1> USE DEF MarkStale, ghostVars
<1>1. BatchTs(d) \in Int /\ BatchTs(d) >= 0 /\ BatchTs(d) <= clock
  BY BatchFacts DEF Running
<1>2. \A a \in Alerts :
        \/ a \in staleIds[d] /\ rows'[a] = RecoveredRow(BatchTs(d))
        \/ a \notin staleIds[d] /\ rows'[a] = rows[a]
  OBVIOUS
<1>3. /\ RecoveredRow(BatchTs(d)).status = "failed"
      /\ RecoveredRow(BatchTs(d)).updatedAt = BatchTs(d)
  BY DEF RecoveredRow
<1>4. \A a \in Alerts : a \in staleIds[d] => Exists(a)
  BY DEF IInv, CallInv
<1>5. \A a \in Alerts : Exists(a)' <=> Exists(a)
  BY <1>2, <1>3, <1>4 DEF Exists
<1>6. TypeOK'
  <2>1. RecoveredRow(BatchTs(d)) \in Row
    BY <1>1, MaxClockAssumption DEF RecoveredRow, Row, Statuses, Terminal, IInv, TypeOK
  <2> QED
    BY <2>1 DEF IInv, TypeOK, PCs
<1>7. CallInv'
  BY <1>5 DEF IInv, CallInv, Running, TypeOK
<1>8. ClockInv'
  BY <1>1, <1>2, <1>3 DEF IInv, ClockInv
<1>9. RowInv' /\ BoundedCopies'
  BY <1>2, <1>3, <1>5 DEF IInv, RowInv, BoundedCopies
<1>10. RowMatchesChat'
  BY <1>2, <1>3 DEF IInv, RowMatchesChat
<1>11. OwnerInv'
  <2>1. \A e \in Dispatchers, a \in Alerts : InFlight(e, a)' <=> InFlight(e, a)
    BY DEF InFlight, Current, IInv, TypeOK
  <2>2. \A e \in Dispatchers : pc'[e] = "send" <=> pc[e] = "send"
    BY DEF IInv, TypeOK
  <2>3. \A a \in Alerts : rows[a].status \in {"sending", "failed"} =>
                           rows'[a].status \in {"sending", "failed"}
    BY <1>2, <1>3
  <2> QED
    BY <2>1, <2>2, <2>3 DEF IInv, OwnerInv
<1>12. \A e \in Dispatchers : Cutoff(e)' = Cutoff(e)
  BY CutoffStable
<1>13. StaleInv'
  <2> SUFFICES ASSUME NEW e \in Dispatchers, NEW a \in Alerts, rows'[a].status = "sending"
               PROVE  /\ pc'[e] = "mark" =>
                           (a \in staleIds'[e] <=> rows'[a].updatedAt < Cutoff(e))
                      /\ pc'[e] \in {"reserve", "send", "finalize"} =>
                           rows'[a].updatedAt >= Cutoff(e)
    BY <1>12 DEF StaleInv
  <2>1. a \notin staleIds[d] /\ rows'[a] = rows[a]
    BY <1>2, <1>3
  <2>2. CASE e = d
    <3>1. ~ (rows[a].updatedAt < Cutoff(d))
      BY <2>1 DEF IInv, StaleInv
    <3>2. rows[a].updatedAt \in Nat /\ Cutoff(d) \in Int
      BY <1>1, RowFacts, StaleTimeoutAssumption DEF IInv, Cutoff
    <3> QED
      BY <2>1, <2>2, <3>1, <3>2 DEF IInv, TypeOK
  <2>3. CASE e # d
    BY <2>1, <2>3 DEF IInv, TypeOK, StaleInv
  <2> QED
    BY <2>2, <2>3
<1> QED
  BY <1>6, <1>7, <1>8, <1>9, <1>10, <1>11, <1>13 DEF IInv

\* The reservation: only an alert without a row is reserved, hence no other
\* dispatcher has it in flight and nothing has been posted about it.
LEMMA ReserveIInv ==
  ASSUME IInv, NEW d \in Dispatchers, Reserve(d)
  PROVE  IInv'
<1> DEFINE c == Current(d)
<1> USE DEF Reserve, callVars
<1>1. c \in Alerts /\ pos[d] \in DOMAIN events[d] /\ ~Exists(c)
  BY CurrentFacts
<1>2. rounds[c] = 0 /\ copies[c] = 0
  BY <1>1 DEF IInv, RowInv
<1>3. \A e \in Dispatchers : ~InFlight(e, c)
  BY <1>1 DEF IInv, OwnerInv, Exists
<1>4. /\ rows'[c] = SendingRow
      /\ \A a \in Alerts \ {c} : rows'[a] = rows[a]
      /\ SendingRow.status = "sending" /\ SendingRow.updatedAt = clock
      /\ SendingRow.error = "none"
  BY <1>1 DEF IInv, TypeOK, SendingRow
<1>5. /\ rounds'[c] = 1
      /\ \A a \in Alerts \ {c} : rounds'[a] = rounds[a]
  BY <1>1, <1>2 DEF IInv, TypeOK
<1>6. /\ pc'[d] = "send"
      /\ \A e \in Dispatchers \ {d} : pc'[e] = pc[e]
  BY DEF IInv, TypeOK
<1>7. TypeOK'
  <2>1. SendingRow \in Row
    BY MaxClockAssumption DEF SendingRow, Row, Statuses, IInv, TypeOK
  <2>2. rows' \in [Alerts -> Row \cup {NoRow}]
    BY <2>1 DEF IInv, TypeOK
  <2>3. rounds' \in [Alerts -> Nat]
    BY <1>1, <1>2 DEF IInv, TypeOK
  <2> QED
    BY <2>2, <2>3 DEF IInv, TypeOK, PCs
<1>8. CallInv'
  BY <1>1, <1>4, <1>6 DEF IInv, CallInv, Running, Exists, TypeOK
<1>9. ClockInv'
  BY <1>4 DEF IInv, ClockInv, TypeOK
<1>10. RowInv'
  BY <1>4, <1>5 DEF IInv, RowInv, Exists
<1>11. BoundedCopies' /\ RowMatchesChat'
  BY <1>4 DEF IInv, BoundedCopies, RowMatchesChat
<1>12. OwnerInv'
  <2>1. \A e \in Dispatchers, a \in Alerts :
          InFlight(e, a)' <=> (InFlight(e, a) \/ (e = d /\ a = c))
    BY <1>6 DEF InFlight, Current
  <2>2. tries[d] = 0 /\ outcome[d] = IdleOutcome
    BY DEF IInv, CallInv
  <2> SUFFICES ASSUME NEW e \in Dispatchers, NEW a \in Alerts, InFlight(e, a)'
               PROVE  /\ \A f \in Dispatchers : InFlight(f, a)' => f = e
                      /\ rows'[a].status \in {"sending", "failed"}
                      /\ pc'[e] = "send" => copies[a] <= tries[e]
                      /\ outcome[e] = "sent" => copies[a] >= 1
                      /\ outcome[e] = "skipped_disabled" => copies[a] = 0
    BY DEF OwnerInv
  <2>3. CASE e = d /\ a = c
    BY <1>2, <1>3, <1>4, <2>1, <2>2, <2>3 DEF IdleOutcome
  <2>4. CASE InFlight(e, a)
    BY <1>3, <1>4, <1>6, <2>1, <2>4 DEF IInv, OwnerInv, InFlight
  <2> QED
    BY <2>1, <2>3, <2>4
<1>13. \A e \in Dispatchers : Cutoff(e)' = Cutoff(e)
  BY CutoffStable
<1>14. StaleInv'
  <2>1. \A e \in Dispatchers : Running(e) => clock >= Cutoff(e)
    BY BatchFacts, StaleTimeoutAssumption DEF Cutoff, IInv, TypeOK
  <2>2. \A e \in Dispatchers : Running(e) => Cutoff(e) \in Int
    BY BatchFacts, StaleTimeoutAssumption DEF Cutoff
  <2>3. \A e \in Dispatchers : c \notin staleIds[e]
    BY <1>1 DEF IInv, CallInv
  <2> SUFFICES ASSUME NEW e \in Dispatchers, NEW a \in Alerts, rows'[a].status = "sending"
               PROVE  /\ pc'[e] = "mark" =>
                           (a \in staleIds[e] <=> rows'[a].updatedAt < Cutoff(e))
                      /\ pc'[e] \in {"reserve", "send", "finalize"} =>
                           rows'[a].updatedAt >= Cutoff(e)
    BY <1>13 DEF StaleInv
  <2>4. CASE a = c
    BY <1>4, <1>6, <2>1, <2>2, <2>3, <2>4 DEF Running, IInv, TypeOK
  <2>5. CASE a # c
    BY <1>4, <1>6, <2>5 DEF IInv, StaleInv
  <2> QED
    BY <2>4, <2>5
<1> QED
  BY <1>7, <1>8, <1>9, <1>10, <1>11, <1>12, <1>14 DEF IInv

\* A duplicate is skipped without touching anything but the position.
LEMMA SkipDuplicateIInv ==
  ASSUME IInv, NEW d \in Dispatchers, SkipDuplicate(d)
  PROVE  IInv'
<1> USE DEF SkipDuplicate, ghostVars
<1>1. TypeOK'
  BY DEF IInv, TypeOK
<1>2. CallInv'
  BY DEF IInv, CallInv, Running, Exists, TypeOK
<1>3. ClockInv' /\ RowInv' /\ BoundedCopies' /\ RowMatchesChat'
  BY DEF IInv, ClockInv, RowInv, BoundedCopies, RowMatchesChat, Exists
<1>4. OwnerInv'
  <2>1. \A e \in Dispatchers, a \in Alerts : InFlight(e, a)' <=> InFlight(e, a)
    BY DEF InFlight, Current, IInv, TypeOK
  <2> QED
    BY <2>1 DEF IInv, OwnerInv
<1>5. \A e \in Dispatchers : Cutoff(e)' = Cutoff(e)
  BY CutoffStable
<1>6. StaleInv'
  BY <1>5 DEF IInv, StaleInv
<1> QED
  BY <1>1, <1>2, <1>3, <1>4, <1>6 DEF IInv

\* What one post changes: at most one message more for the alert in work,
\* and either one retry spent or a result.
LEMMA PostFacts ==
  ASSUME IInv, NEW d \in Dispatchers, Post(d)
  PROVE  LET c == Current(d) IN
         /\ c \in Alerts /\ InFlight(d, c) /\ pc[d] = "send"
         /\ copies' \in [Alerts -> Nat]
         /\ \A a \in Alerts \ {c} : copies'[a] = copies[a]
         /\ copies'[c] \in {copies[c], copies[c] + 1}
         /\ \/ /\ tries[d] < RetryBudget
               /\ tries' = [tries EXCEPT ![d] = tries[d] + 1]
               /\ UNCHANGED <<pc, outcome>>
            \/ /\ tries' = [tries EXCEPT ![d] = 0]
               /\ pc' = [pc EXCEPT ![d] = "finalize"]
               /\ \/ outcome' = [outcome EXCEPT ![d] = "failed"]
                  \/ /\ outcome' = [outcome EXCEPT ![d] = "sent"]
                     /\ copies'[c] = copies[c] + 1
<1> DEFINE c == Current(d)
<1>1. c \in Alerts /\ pc[d] = "send" /\ InFlight(d, c)
  BY CurrentFacts DEF Post, InFlight
<1>2. PICK resp \in Responses : \E reached \in Reaches(resp) :
        /\ copies' = [copies EXCEPT ![c] = IF reached THEN copies[c] + 1 ELSE copies[c]]
        /\ IF Retries(d, resp)
           THEN /\ tries' = [tries EXCEPT ![d] = tries[d] + 1]
                /\ UNCHANGED <<pc, outcome>>
           ELSE /\ tries' = [tries EXCEPT ![d] = 0]
                /\ outcome' = [outcome EXCEPT ![d] = Result(resp)]
                /\ pc' = [pc EXCEPT ![d] = "finalize"]
  BY DEF Post
<1>3. PICK reached \in Reaches(resp) :
        copies' = [copies EXCEPT ![c] = IF reached THEN copies[c] + 1 ELSE copies[c]]
  BY <1>2
<1>4. copies[c] \in Nat
  BY <1>1 DEF IInv, TypeOK
<1>5. /\ copies' \in [Alerts -> Nat]
      /\ \A a \in Alerts \ {c} : copies'[a] = copies[a]
      /\ copies'[c] = IF reached THEN copies[c] + 1 ELSE copies[c]
  BY <1>1, <1>3, <1>4 DEF IInv, TypeOK
<1>6. resp = "accepted" => reached
  BY <1>3, Zenon DEF Reaches
<1>7. CASE Retries(d, resp)
  BY <1>1, <1>2, <1>5, <1>7 DEF Retries
<1>8. CASE ~Retries(d, resp)
  BY <1>1, <1>2, <1>5, <1>6, <1>8 DEF Result
<1> QED
  BY <1>7, <1>8

\* A post changes nothing for the other rounds and stays within the budget.
LEMMA PostIInv ==
  ASSUME IInv, NEW d \in Dispatchers, Post(d)
  PROVE  IInv'
<1> DEFINE c == Current(d)
<1>1. /\ c \in Alerts /\ InFlight(d, c) /\ pc[d] = "send"
      /\ copies' \in [Alerts -> Nat]
      /\ \A a \in Alerts \ {c} : copies'[a] = copies[a]
      /\ copies'[c] \in {copies[c], copies[c] + 1}
      /\ UNCHANGED <<clock, alertTs, rows, events, pos, senderOn, staleIds, rounds, overlapped>>
      /\ senderOn[d]
  BY PostFacts DEF Post
<1>2. \/ /\ tries[d] < RetryBudget
         /\ tries' = [tries EXCEPT ![d] = tries[d] + 1]
         /\ UNCHANGED <<pc, outcome>>
      \/ /\ tries' = [tries EXCEPT ![d] = 0]
         /\ pc' = [pc EXCEPT ![d] = "finalize"]
         /\ \/ outcome' = [outcome EXCEPT ![d] = "failed"]
            \/ /\ outcome' = [outcome EXCEPT ![d] = "sent"]
               /\ copies'[c] = copies[c] + 1
  BY PostFacts
<1>3. /\ copies[c] \in Nat /\ copies[c] <= tries[d]
      /\ tries[d] \in 0..RetryBudget
      /\ outcome[d] = IdleOutcome
      /\ rows[c].status \in {"sending", "failed"}
  BY <1>1 DEF IInv, TypeOK, OwnerInv, CallInv
<1>4. TypeOK'
  <2>1. tries' \in [Dispatchers -> 0..RetryBudget]
    <3>1. tries[d] < RetryBudget => tries[d] + 1 \in 0..RetryBudget
      BY <1>3, RetryBudgetAssumption
    <3>2. 0 \in 0..RetryBudget
      BY RetryBudgetAssumption
    <3> QED
      BY <1>2, <3>1, <3>2 DEF IInv, TypeOK
  <2>2. pc' \in [Dispatchers -> PCs]
    BY <1>2 DEF IInv, TypeOK, PCs
  <2>3. outcome' \in [Dispatchers -> Terminal \cup {IdleOutcome}]
    BY <1>2 DEF IInv, TypeOK, Terminal
  <2> QED
    BY <1>1, <2>1, <2>2, <2>3 DEF IInv, TypeOK
<1>5. CallInv'
  <2>1. /\ UNCHANGED <<alertTs, rows, events, pos, senderOn, staleIds>>
        /\ pc[d] = "send" /\ senderOn[d]
    BY <1>1
  <2>2. outcome[d] = IdleOutcome
    BY <1>3
  <2> QED
    BY <1>2, <2>1, <2>2 DEF IInv, CallInv, Running, Exists, TypeOK, Terminal
<1>6. ClockInv'
  BY <1>1 DEF IInv, ClockInv
<1>7. RowInv'
  BY <1>1, <1>3 DEF IInv, RowInv, Exists
<1>8. BoundedCopies'
  BY <1>1, <1>3, RetryBudgetAssumption DEF IInv, BoundedCopies
<1>9. RowMatchesChat'
  BY <1>1, <1>3 DEF IInv, RowMatchesChat
<1>10. OwnerInv'
  <2>1. \A e \in Dispatchers, a \in Alerts : InFlight(e, a)' <=> InFlight(e, a)
    BY <1>1, <1>2 DEF InFlight, Current, IInv, TypeOK
  <2> SUFFICES ASSUME NEW e \in Dispatchers, NEW a \in Alerts, InFlight(e, a)
               PROVE  /\ \A f \in Dispatchers : InFlight(f, a) => f = e
                      /\ rows[a].status \in {"sending", "failed"}
                      /\ pc'[e] = "send" => copies'[a] <= tries'[e]
                      /\ outcome'[e] = "sent" => copies'[a] >= 1
                      /\ outcome'[e] = "skipped_disabled" => copies'[a] = 0
    BY <1>1, <2>1 DEF OwnerInv
  <2>2. /\ \A f \in Dispatchers : InFlight(f, a) => f = e
        /\ rows[a].status \in {"sending", "failed"}
    BY DEF IInv, OwnerInv
  <2>3. CASE e = d
    <3>1. a = c
      BY <2>3 DEF InFlight
    <3> QED
      BY <1>1, <1>2, <1>3, <2>2, <2>3, <3>1 DEF IInv, TypeOK, IdleOutcome
  <2>4. CASE e # d
    <3>1. a # c
      BY <1>1, <2>2, <2>4
    <3>2. pc'[e] = pc[e] /\ tries'[e] = tries[e] /\ outcome'[e] = outcome[e]
      BY <1>2, <2>4 DEF IInv, TypeOK
    <3> QED
      BY <1>1, <2>2, <3>1, <3>2 DEF IInv, OwnerInv
  <2> QED
    BY <2>3, <2>4
<1>11. \A e \in Dispatchers : Cutoff(e)' = Cutoff(e)
  BY <1>1, CutoffStable
<1>12. StaleInv'
  <2>1. \A e \in Dispatchers :
          /\ pc'[e] = "mark" => pc[e] = "mark"
          /\ pc'[e] \in {"reserve", "send", "finalize"} =>
               pc[e] \in {"reserve", "send", "finalize"}
    BY <1>1, <1>2 DEF IInv, TypeOK
  <2> QED
    BY <1>1, <1>11, <2>1 DEF IInv, StaleInv
<1> QED
  BY <1>4, <1>5, <1>6, <1>7, <1>8, <1>9, <1>10, <1>12 DEF IInv

\* A disabled sender has posted nothing in its round.
LEMMA SkipDisabledIInv ==
  ASSUME IInv, NEW d \in Dispatchers, SkipDisabled(d)
  PROVE  IInv'
<1> DEFINE c == Current(d)
<1> USE DEF SkipDisabled, ghostVars
<1>1. c \in Alerts /\ InFlight(d, c)
  BY CurrentFacts DEF InFlight
<1>2. tries[d] = 0 /\ copies[c] = 0
  BY <1>1 DEF IInv, CallInv, OwnerInv, TypeOK
<1>3. TypeOK'
  BY DEF IInv, TypeOK, PCs, Terminal
<1>4. CallInv'
  BY DEF IInv, CallInv, Running, Exists, TypeOK, Terminal
<1>5. ClockInv' /\ RowInv' /\ BoundedCopies' /\ RowMatchesChat'
  BY DEF IInv, ClockInv, RowInv, BoundedCopies, RowMatchesChat, Exists
<1>6. OwnerInv'
  <2>1. \A e \in Dispatchers, a \in Alerts : InFlight(e, a)' <=> InFlight(e, a)
    BY DEF InFlight, Current, IInv, TypeOK
  <2>2. \A a \in Alerts : InFlight(d, a) => a = c
    BY DEF InFlight
  <2>3. \A e \in Dispatchers \ {d} : pc'[e] = pc[e] /\ outcome'[e] = outcome[e]
    BY DEF IInv, TypeOK
  <2>4. pc'[d] = "finalize" /\ outcome'[d] = "skipped_disabled"
    BY DEF IInv, TypeOK
  <2> QED
    BY <1>2, <2>1, <2>2, <2>3, <2>4 DEF IInv, OwnerInv
<1>7. \A e \in Dispatchers : Cutoff(e)' = Cutoff(e)
  BY CutoffStable
<1>8. StaleInv'
  BY <1>7 DEF IInv, StaleInv, TypeOK
<1> QED
  BY <1>3, <1>4, <1>5, <1>6, <1>8 DEF IInv

\* The final row tells the chat's truth, and the round has no owner any more.
LEMMA FinalizeIInv ==
  ASSUME IInv, NEW d \in Dispatchers, Finalize(d)
  PROVE  IInv'
<1> DEFINE c == Current(d)
<1> DEFINE r == FinalRow(outcome[d], alertTs[c])
<1> USE DEF Finalize, ghostVars
<1>1. c \in Alerts /\ InFlight(d, c)
  BY CurrentFacts DEF InFlight
<1>2. /\ outcome[d] \in Terminal
      /\ outcome[d] = "sent" => copies[c] >= 1
      /\ outcome[d] = "skipped_disabled" => copies[c] = 0
      /\ tries[d] = 0
      /\ rows[c].status \in {"sending", "failed"}
      /\ \A e \in Dispatchers : InFlight(e, c) => e = d
  BY <1>1 DEF IInv, CallInv, OwnerInv
<1>3. alertTs[c] \in 0..MaxClock /\ alertTs[c] <= clock
  BY <1>1 DEF IInv, TypeOK, ClockInv
<1>4. r.status = outcome[d] /\ r.updatedAt = alertTs[c]
  BY DEF FinalRow
<1>5. /\ rows'[c] = r
      /\ \A a \in Alerts \ {c} : rows'[a] = rows[a]
  BY <1>1 DEF IInv, TypeOK
<1>6. Exists(c) /\ \A a \in Alerts : Exists(a)' <=> Exists(a)
  BY <1>2, <1>4, <1>5 DEF Exists, Terminal
<1>7. TypeOK'
  <2>1. r \in Row
    BY <1>2, <1>3 DEF FinalRow, Row, Statuses
  <2>2. rows' \in [Alerts -> Row \cup {NoRow}]
    BY <2>1 DEF IInv, TypeOK
  <2>3. pos' \in [Dispatchers -> Nat \ {0}]
    BY DEF IInv, TypeOK
  <2> QED
    BY <2>2, <2>3 DEF IInv, TypeOK, PCs
<1>8. CallInv'
  BY <1>2, <1>6 DEF IInv, CallInv, Running, TypeOK
<1>9. ClockInv'
  BY <1>3, <1>4, <1>5 DEF IInv, ClockInv
<1>10. RowInv' /\ BoundedCopies'
  BY <1>2, <1>4, <1>5, <1>6 DEF IInv, RowInv, BoundedCopies, Terminal
<1>11. RowMatchesChat'
  BY <1>2, <1>4, <1>5 DEF IInv, RowMatchesChat, Terminal
<1>12. OwnerInv'
  <2>1. \A e \in Dispatchers, a \in Alerts :
          InFlight(e, a)' <=> (InFlight(e, a) /\ e # d)
    BY DEF InFlight, Current, IInv, TypeOK
  <2>2. \A e \in Dispatchers \ {d} : ~InFlight(e, c)
    BY <1>2
  <2>3. \A e \in Dispatchers \ {d} : pc'[e] = pc[e] /\ outcome'[e] = outcome[e]
    BY DEF IInv, TypeOK
  <2> QED
    BY <1>5, <2>1, <2>2, <2>3 DEF IInv, OwnerInv
<1>13. \A e \in Dispatchers : Cutoff(e)' = Cutoff(e)
  BY CutoffStable
<1>14. StaleInv'
  <2>1. r.status # "sending"
    BY <1>2, <1>4 DEF Terminal
  <2>2. \A e \in Dispatchers :
          /\ pc'[e] = "mark" => pc[e] = "mark"
          /\ pc'[e] \in {"reserve", "send", "finalize"} =>
               pc[e] \in {"reserve", "send", "finalize"}
    BY DEF IInv, TypeOK
  <2> QED
    BY <1>5, <1>13, <2>1, <2>2 DEF IInv, StaleInv
<1> QED
  BY <1>7, <1>8, <1>9, <1>10, <1>11, <1>12, <1>14 DEF IInv

\* A call that returns or is aborted leaves the table as it is.
LEMMA GoIdleIInv ==
  ASSUME IInv, NEW d \in Dispatchers, GoIdle(d)
  PROVE  IInv'
<1> USE DEF GoIdle, ghostVars
<1>1. TypeOK'
  BY RetryBudgetAssumption DEF IInv, TypeOK, PCs
<1>2. CallInv'
  BY DEF IInv, CallInv, Running, Exists, TypeOK
<1>3. ClockInv' /\ RowInv' /\ BoundedCopies' /\ RowMatchesChat'
  BY DEF IInv, ClockInv, RowInv, BoundedCopies, RowMatchesChat, Exists
<1>4. OwnerInv'
  <2>1. \A e \in Dispatchers, a \in Alerts :
          InFlight(e, a)' <=> (InFlight(e, a) /\ e # d)
    BY DEF InFlight, Current, IInv, TypeOK
  <2>2. \A e \in Dispatchers \ {d} :
          pc'[e] = pc[e] /\ outcome'[e] = outcome[e] /\ tries'[e] = tries[e]
    BY DEF IInv, TypeOK
  <2> QED
    BY <2>1, <2>2 DEF IInv, OwnerInv
<1>5. \A e \in Dispatchers \ {d} : Cutoff(e)' = Cutoff(e)
  BY CutoffStable DEF IInv, TypeOK
<1>6. StaleInv'
  BY <1>5 DEF IInv, StaleInv, TypeOK
<1> QED
  BY <1>1, <1>2, <1>3, <1>4, <1>6 DEF IInv

\* It survives a stutter.
LEMMA StutterIInv ==
  ASSUME IInv, UNCHANGED vars
  PROVE  IInv'
<1> USE DEF vars
<1>1. TypeOK' /\ CallInv' /\ ClockInv' /\ RowInv'
  BY DEF IInv, TypeOK, CallInv, ClockInv, RowInv, Running, Exists
<1>2. OwnerInv' /\ BoundedCopies' /\ RowMatchesChat'
  BY DEF IInv, OwnerInv, BoundedCopies, RowMatchesChat, InFlight, Current
<1>3. \A e \in Dispatchers : Cutoff(e)' = Cutoff(e)
  BY CutoffStable
<1>4. StaleInv'
  BY <1>3 DEF IInv, StaleInv
<1> QED
  BY <1>1, <1>2, <1>4 DEF IInv

\* Every step keeps it.
LEMMA NextIInv == IInv /\ [Next]_vars => IInv'
<1> SUFFICES ASSUME IInv, [Next]_vars PROVE IInv'
  OBVIOUS
<1>1. CASE Tick
  BY <1>1, TickIInv
<1>2. ASSUME NEW a \in Alerts, Raise(a) PROVE IInv'
  BY <1>2, RaiseIInv
<1>3. ASSUME NEW d \in Dispatchers, Call(d) PROVE IInv'
  BY <1>3, CallIInv
<1>4. ASSUME NEW d \in Dispatchers, Step(d) PROVE IInv'
  <2>1. CASE SelectStale(d)
    BY <2>1, SelectStaleIInv
  <2>2. CASE MarkStale(d)
    BY <2>2, MarkStaleIInv
  <2>3. CASE Reserve(d)
    BY <2>3, ReserveIInv
  <2>4. CASE SkipDuplicate(d)
    BY <2>4, SkipDuplicateIInv
  <2>5. CASE Post(d)
    BY <2>5, PostIInv
  <2>6. CASE SkipDisabled(d)
    BY <2>6, SkipDisabledIInv
  <2>7. CASE Finalize(d)
    BY <2>7, FinalizeIInv
  <2>8. CASE Return(d)
    BY <2>8, GoIdleIInv DEF Return
  <2> QED
    BY <1>4, <2>1, <2>2, <2>3, <2>4, <2>5, <2>6, <2>7, <2>8 DEF Step
<1>5. ASSUME NEW d \in Dispatchers, Abort(d) PROVE IInv'
  BY <1>5, GoIdleIInv DEF Abort
<1>6. CASE UNCHANGED vars
  BY <1>6, StutterIInv
<1> QED
  BY <1>1, <1>2, <1>3, <1>4, <1>5, <1>6 DEF Next

\* The conjunction above is an invariant of every dispatch runtime.
THEOREM InductiveInvariant == Spec => []IInv
<1> QED
  BY InitIInv, NextIInv, PTL DEF Spec

----------------------------------------------------------------------------
(* Safety *)

\* Every variable keeps its type.
THEOREM TypeCorrect == Spec => []TypeOK
<1>1. IInv => TypeOK
  BY DEF IInv
<1> QED
  BY <1>1, InductiveInvariant, PTL

\* The idempotency key works: an alert is reserved at most once, by at most
\* one process, for any number of overlapping dispatchers.
THEOREM OneRound == Spec => []OneRoundPerAlert
<1>1. IInv => OneRoundPerAlert
  BY DEF IInv, RowInv, OwnerInv, OneRoundPerAlert
<1> QED
  BY <1>1, InductiveInvariant, PTL

\* At most 1 + retry_budget copies of an alert reach the chat.
THEOREM CopiesBounded == Spec => []BoundedCopies
<1>1. IInv => BoundedCopies
  BY DEF IInv
<1> QED
  BY <1>1, InductiveInvariant, PTL

\* A "sent" row is backed by a message, "skipped_disabled" by none.
THEOREM RowsMatchChat == Spec => []RowMatchesChat
<1>1. IInv => RowMatchesChat
  BY DEF IInv
<1> QED
  BY <1>1, InductiveInvariant, PTL

\* A call past its recovery leaves no stale reservation behind.
THEOREM NoStaleRow == Spec => []NoStaleRowAfterRecovery
<1>1. IInv => NoStaleRowAfterRecovery
  BY DEF IInv, StaleInv, NoStaleRowAfterRecovery
<1> QED
  BY <1>1, InductiveInvariant, PTL

\* Recovery never fails a round younger than the timeout.
THEOREM RecoveryConservative == Spec => RecoveryIsConservative
<1> DEFINE A == \A a \in Alerts :
                  /\ rows[a].status = "sending"
                  /\ rows'[a].error = "stale_recovered"
                  => clock - rows[a].updatedAt > StaleTimeout
<1>1. IInv /\ [Next]_vars => [A]_vars
  <2> SUFFICES ASSUME IInv, Next, NEW a \in Alerts,
                      rows[a].status = "sending",
                      rows'[a].error = "stale_recovered"
               PROVE  clock - rows[a].updatedAt > StaleTimeout
    BY DEF vars
  <2>1. rows'[a] # rows[a]
    BY DEF IInv, RowInv
  <2>2. PICK d \in Dispatchers : MarkStale(d) \/ Reserve(d) \/ Finalize(d)
    BY <2>1 DEF Next, Step, Tick, Raise, Call, SelectStale, SkipDuplicate, Post,
                SkipDisabled, Return, Abort, GoIdle, ghostVars
  <2>3. CASE Reserve(d)
    <3>1. rows'[a] = SendingRow
      BY <2>1, <2>3 DEF Reserve, IInv, TypeOK
    <3> QED
      BY <3>1 DEF SendingRow
  <2>4. CASE Finalize(d)
    <3>1. rows'[a] = FinalRow(outcome[d], alertTs[Current(d)])
      BY <2>1, <2>4 DEF Finalize, IInv, TypeOK
    <3> QED
      BY <3>1 DEF FinalRow
  <2>5. CASE MarkStale(d)
    <3>1. a \in staleIds[d] /\ pc[d] = "mark"
      BY <2>1, <2>5 DEF MarkStale
    <3>2. rows[a].updatedAt < Cutoff(d)
      BY <3>1 DEF IInv, StaleInv
    <3>3. BatchTs(d) \in Int /\ BatchTs(d) <= clock
      <4>1. Running(d)
        BY <3>1 DEF Running
      <4> QED
        BY <4>1, BatchFacts
    <3>4. rows[a].updatedAt \in Nat
      BY RowFacts DEF IInv
    <3>5. clock \in Nat
      BY MaxClockAssumption DEF IInv, TypeOK
    <3> QED
      BY <3>2, <3>3, <3>4, <3>5, StaleTimeoutAssumption DEF Cutoff
  <2> QED
    BY <2>2, <2>3, <2>4, <2>5
<1>2. Spec => [][A]_vars
  BY <1>1, InductiveInvariant, PTL DEF Spec
<1> QED
  BY <1>2 DEF RecoveryIsConservative

----------------------------------------------------------------------------
(* One call at a time *)

OneAtATime == \A d, e \in Dispatchers : Running(d) /\ Running(e) => d = e

\* What overlapped says.
OverlapInv == overlapped \in BOOLEAN /\ (~overlapped => OneAtATime)

\* A call that starts beside another one is noticed.
LEMMA OverlapKept ==
  ASSUME IInv, OverlapInv, [Next]_vars
  PROVE  OverlapInv' /\ (overlapped => overlapped')
<1>1. ASSUME NEW d \in Dispatchers, Call(d)
      PROVE  OverlapInv' /\ (overlapped => overlapped')
  <2>1. /\ overlapped' = (overlapped \/ \E e \in Dispatchers : Running(e))
        /\ \A e \in Dispatchers : e # d => pc'[e] = pc[e]
    BY <1>1 DEF Call, Running, IInv, TypeOK
  <2>2. ASSUME ~overlapped' PROVE OneAtATime'
    BY <2>1, <2>2 DEF OneAtATime, Running
  <2> QED
    BY <2>1, <2>2 DEF OverlapInv
<1>2. ASSUME UNCHANGED overlapped, \A d \in Dispatchers : Running(d)' => Running(d)
      PROVE  OverlapInv' /\ (overlapped => overlapped')
  BY <1>2 DEF OverlapInv, OneAtATime
<1>3. CASE Tick \/ (\E a \in Alerts : Raise(a)) \/ UNCHANGED vars
  BY <1>2, <1>3 DEF Tick, Raise, vars, ghostVars, Running
<1>4. ASSUME NEW d \in Dispatchers, Step(d) \/ Abort(d)
      PROVE  OverlapInv' /\ (overlapped => overlapped')
  <2>1. UNCHANGED overlapped
    BY <1>4 DEF Step, Abort, SelectStale, MarkStale, Reserve, SkipDuplicate, Post,
                SkipDisabled, Finalize, Return, GoIdle, ghostVars
  <2>2. Running(d)
    BY <1>4 DEF Step, Abort, SelectStale, MarkStale, Reserve, SkipDuplicate, Post,
                SkipDisabled, Finalize, Return, Running
  <2>3. \A e \in Dispatchers \ {d} : pc'[e] = pc[e]
    BY <1>4 DEF Step, Abort, SelectStale, MarkStale, Reserve, SkipDuplicate, Post,
                SkipDisabled, Finalize, Return, GoIdle, IInv, TypeOK
  <2> QED
    BY <1>2, <2>1, <2>2, <2>3 DEF Running
<1> QED
  BY <1>1, <1>3, <1>4 DEF Next

\* What overlapping calls break: the row of a round in flight, and the rows a
\* recovery has selected, are still reservations.
AloneInv ==
  \A d \in Dispatchers, a \in Alerts :
    InFlight(d, a) \/ a \in staleIds[d] => rows[a].status = "sending"

\* A step of the one running call.
LEMMA StepAlone ==
  ASSUME IInv, IInv', OneAtATime, AloneInv, NEW d \in Dispatchers,
         Call(d) \/ Step(d) \/ Abort(d)
  PROVE  \A a \in Alerts :
           InFlight(d, a)' \/ a \in staleIds'[d] => rows'[a].status = "sending"
<1> SUFFICES ASSUME NEW a \in Alerts, InFlight(d, a)' \/ a \in staleIds'[d]
             PROVE  rows'[a].status = "sending"
  OBVIOUS
<1>1. CASE Call(d) \/ GoIdle(d)
  <2>1. pc'[d] \in {"recover", "idle"} /\ staleIds'[d] = {}
    <3>1. CASE Call(d)
      BY <3>1 DEF Call, IInv, TypeOK, CallInv
    <3>2. CASE GoIdle(d)
      BY <3>2 DEF GoIdle, IInv, TypeOK
    <3> QED
      BY <1>1, <3>1, <3>2
  <2> QED
    BY <2>1 DEF InFlight
<1>2. CASE SelectStale(d)
  <2>1. pc'[d] \in {"reserve", "mark"} /\ staleIds'[d] = StaleRows(d) /\ rows' = rows
    BY <1>2 DEF SelectStale, IInv, TypeOK
  <2> QED
    BY <2>1 DEF InFlight, StaleRows
<1>3. CASE MarkStale(d) \/ SkipDuplicate(d) \/ Finalize(d)
  <2>1. pc'[d] = "reserve" /\ staleIds'[d] = {}
    BY <1>3 DEF MarkStale, SkipDuplicate, Finalize, IInv, TypeOK, CallInv
  <2> QED
    BY <2>1 DEF InFlight
<1>4. CASE Reserve(d)
  <2>1. /\ pc'[d] = "send" /\ staleIds'[d] = {} /\ Current(d)' = Current(d)
        /\ Current(d) \in Alerts
    BY <1>4, CurrentFacts DEF Reserve, callVars, IInv, TypeOK, CallInv, Current
  <2>2. a = Current(d)
    BY <2>1 DEF InFlight
  <2>3. rows'[a] = SendingRow
    BY <1>4, <2>1, <2>2 DEF Reserve, IInv, TypeOK
  <2> QED
    BY <2>3 DEF SendingRow
<1>5. CASE Post(d) \/ SkipDisabled(d)
  <2>1. /\ pc[d] = "send" /\ staleIds'[d] = {} /\ Current(d)' = Current(d)
        /\ rows' = rows
    BY <1>5 DEF Post, SkipDisabled, IInv, CallInv, Current
  <2> QED
    BY <2>1 DEF InFlight, AloneInv
<1> QED
  BY <1>1, <1>2, <1>3, <1>4, <1>5 DEF Step, Return, Abort

\* While calls do not overlap, the rows a call holds are still reservations.
LEMMA AloneKept ==
  ASSUME IInv, IInv', OneAtATime, OneAtATime', AloneInv, [Next]_vars
  PROVE  AloneInv'
<1>1. CASE Tick \/ (\E a \in Alerts : Raise(a)) \/ UNCHANGED vars
  BY <1>1 DEF Tick, Raise, vars, callVars, AloneInv, InFlight, Current
<1>2. ASSUME NEW d \in Dispatchers, Call(d) \/ Step(d) \/ Abort(d)
      PROVE  AloneInv'
  <2>1. Running(d) \/ Running(d)'
    BY <1>2 DEF Call, Step, Abort, SelectStale, MarkStale, Reserve, SkipDuplicate, Post,
                SkipDisabled, Finalize, Return, Running, IInv, TypeOK
  <2>2. ASSUME NEW e \in Dispatchers, e # d, NEW a \in Alerts
        PROVE  ~(InFlight(e, a)' \/ a \in staleIds'[e])
    <3>1. CASE Running(d)'
      BY <2>2, <3>1 DEF OneAtATime, Running, IInv, CallInv, InFlight
    <3>2. CASE Running(d)
      <4>1. pc'[e] = pc[e]
        BY <1>2, <2>2 DEF Call, Step, Abort, SelectStale, MarkStale, Reserve, SkipDuplicate,
                          Post, SkipDisabled, Finalize, Return, GoIdle, IInv, TypeOK
      <4>2. pc[e] = "idle"
        BY <2>2, <3>2 DEF OneAtATime, Running
      <4> QED
        BY <4>1, <4>2 DEF IInv, CallInv, InFlight
    <3> QED
      BY <2>1, <3>1, <3>2
  <2> QED
    BY <1>2, <2>2, StepAlone DEF AloneInv
<1> QED
  BY <1>1, <1>2 DEF Next

\* Calls that have not overlapped never rewrite a terminal row, whatever crashes
\* leave behind; the recovery and finalize_delivery need no status filter then.
THEOREM TerminalForGood == Spec => TerminalIsFinal
<1> DEFINE A == ~overlapped' => \A a \in Alerts : rows[a].status \in Terminal => rows'[a] = rows[a]
           Inv == OverlapInv /\ (~overlapped => AloneInv)
<1>1. Init => Inv
  BY DEF Init, OverlapInv, OneAtATime, Running, AloneInv, InFlight
<1>2. IInv /\ IInv' /\ Inv /\ [Next]_vars => Inv'
  <2> SUFFICES ASSUME IInv, IInv', Inv, [Next]_vars PROVE Inv'
    OBVIOUS
  <2>1. OverlapInv' /\ (overlapped => overlapped')
    BY OverlapKept
  <2>2. ASSUME ~overlapped' PROVE AloneInv'
    <3>1. OneAtATime /\ OneAtATime' /\ AloneInv
      BY <2>1, <2>2, Zenon DEF OverlapInv
    <3> QED
      BY <3>1, AloneKept
  <2> QED
    BY <2>1, <2>2
<1>3. IInv /\ Inv /\ [Next]_vars => [A]_vars
  <2> SUFFICES ASSUME IInv, Inv, Next, ~overlapped', NEW a \in Alerts,
                      rows[a].status \in Terminal, rows'[a] # rows[a]
               PROVE  FALSE
    BY DEF vars
  <2>1. AloneInv
    BY OverlapKept, Zenon DEF OverlapInv
  <2>2. PICK d \in Dispatchers : MarkStale(d) \/ Reserve(d) \/ Finalize(d)
    BY DEF Next, Step, Tick, Raise, Call, SelectStale, SkipDuplicate, Post, SkipDisabled,
           Return, Abort, GoIdle
  <2>3. CASE MarkStale(d)
    BY <2>1, <2>3 DEF MarkStale, AloneInv, Terminal
  <2>4. CASE Reserve(d)
    BY <2>4, CurrentFacts DEF Reserve, Exists, Terminal, IInv, TypeOK
  <2>5. CASE Finalize(d)
    BY <2>1, <2>5, CurrentFacts DEF Finalize, InFlight, AloneInv, Terminal, IInv, TypeOK
  <2> QED
    BY <2>2, <2>3, <2>4, <2>5
<1>4. Spec => [][A]_vars
  BY <1>1, <1>2, <1>3, InductiveInvariant, PTL DEF Spec
<1> QED
  BY <1>4 DEF TerminalIsFinal

\* A single dispatcher, the deployed scheduler, cannot overlap with itself.
THEOREM TerminalForOneDispatcher ==
  ASSUME NEW only, Dispatchers = {only}
  PROVE  Spec => [][\A a \in Alerts : rows[a].status \in Terminal => rows'[a] = rows[a]]_vars
<1> DEFINE A == \A a \in Alerts : rows[a].status \in Terminal => rows'[a] = rows[a]
<1>1. Init => ~overlapped
  BY DEF Init
<1>2. ~overlapped /\ [Next]_vars => ~overlapped'
  <2> SUFFICES ASSUME ~overlapped, Next PROVE ~overlapped'
    BY DEF vars
  <2>1. ASSUME NEW d \in Dispatchers, Call(d) PROVE ~overlapped'
    BY <2>1 DEF Call
  <2>2. CASE \E d \in Dispatchers : Step(d) \/ Abort(d)
    BY <2>2 DEF Step, Abort, SelectStale, MarkStale, Reserve, SkipDuplicate, Post,
                SkipDisabled, Finalize, Return, GoIdle, ghostVars
  <2> QED
    BY <2>1, <2>2 DEF Next, Tick, Raise, ghostVars
<1>3. Spec => [][~overlapped' => A]_vars
  BY TerminalForGood DEF TerminalIsFinal
<1>4. ~overlapped' /\ [~overlapped' => A]_vars => [A]_vars
  OBVIOUS
<1> QED
  BY <1>1, <1>2, <1>3, <1>4, PTL DEF Spec

----------------------------------------------------------------------------
(* Every call ends *)

\* A call does not go beyond the end of its batch.
PosInv ==
  \A d \in Dispatchers : Len(events[d]) \in Nat /\ pos[d] <= Len(events[d]) + 1

\* What the invariants say of the summands of StepsLeft.
LEMMA CallFacts ==
  ASSUME IInv, NEW d \in Dispatchers
  PROVE  /\ Len(events[d]) \in Nat /\ pos[d] \in Nat \ {0}
         /\ pc[d] \in {"send", "finalize"} => pos[d] <= Len(events[d])
         /\ tries[d] \in 0..RetryBudget
         /\ RetryBudget \in Nat
<1>1. events[d] \in Batches \cup {<<>>}
  BY DEF IInv, TypeOK
<1>2. events[d] \in Seq(Alerts)
  <2>1. <<>> \in Seq(Alerts)
    OBVIOUS
  <2> QED
    BY <1>1, <2>1, BatchesAssumption, Zenon
<1> QED
  BY <1>2, RetryBudgetAssumption DEF IInv, TypeOK, CallInv

\* The events that are left.
LEMMA PosKept ==
  ASSUME IInv, IInv', PosInv, [Next]_vars
  PROVE  PosInv'
<1> SUFFICES ASSUME NEW d \in Dispatchers
             PROVE  Len(events'[d]) \in Nat /\ pos'[d] <= Len(events'[d]) + 1
  BY DEF PosInv
<1>1. Len(events'[d]) \in Nat
  BY CallFacts
<1>2. CASE pos'[d] = pos[d] /\ events'[d] = events[d]
  BY <1>2 DEF PosInv
<1>3. CASE pos'[d] = 1
  BY <1>1, <1>3
<1>4. CASE pos'[d] = pos[d] + 1 /\ events'[d] = events[d] /\ pos[d] <= Len(events[d])
  BY <1>4, CallFacts
<1>5. ASSUME NEW e \in Dispatchers, Call(e) \/ Step(e) \/ Abort(e)
      PROVE  \/ pos'[d] = pos[d] /\ events'[d] = events[d]
             \/ pos'[d] = 1
             \/ pos'[d] = pos[d] + 1 /\ events'[d] = events[d] /\ pos[d] <= Len(events[d])
  <2>1. CASE Call(e) \/ GoIdle(e)
    BY <2>1 DEF Call, GoIdle, IInv, TypeOK
  <2>2. CASE SelectStale(e) \/ MarkStale(e) \/ Reserve(e) \/ Post(e) \/ SkipDisabled(e)
    BY <2>2 DEF SelectStale, MarkStale, Reserve, Post, SkipDisabled, callVars
  <2>3. CASE SkipDuplicate(e) \/ Finalize(e)
    BY <2>3, CallFacts DEF SkipDuplicate, Finalize, IInv, TypeOK
  <2> QED
    BY <1>5, <2>1, <2>2, <2>3 DEF Step, Return, Abort
<1>6. CASE Tick \/ (\E a \in Alerts : Raise(a)) \/ UNCHANGED vars
  BY <1>2, <1>6 DEF Tick, Raise, vars, callVars
<1> QED
  BY <1>2, <1>3, <1>4, <1>5, <1>6 DEF Next

\* Multiplication by the number of events that are left.
LEMMA Products ==
  ASSUME NEW n \in Int, NEW k \in Int
  PROVE  /\ n * k \in Int /\ (n - 1) * k = n * k - k
         /\ n >= 1 /\ k >= 0 => n * k >= k
         /\ n >= 0 /\ k >= 0 => n * k >= 0
OBVIOUS

\* StepsLeft by the place of the call.
LEMMA StepsLeftAt ==
  ASSUME NEW d \in Dispatchers, NEW p, p = (Len(events[d]) - pos[d] + 1) * (RetryBudget + 3)
  PROVE  /\ pc[d] = "idle" => StepsLeft(d) = p + 0
         /\ pc[d] = "recover" => StepsLeft(d) = p + 3
         /\ pc[d] = "mark" => StepsLeft(d) = p + 2
         /\ pc[d] = "reserve" => StepsLeft(d) = p + 1
         /\ pc[d] = "send" => StepsLeft(d) = p + (-tries[d])
         /\ pc[d] = "finalize" => StepsLeft(d) = p + (-RetryBudget - 1)
BY DEF StepsLeft

\* A step of a call leaves fewer of them, whatever Telegram answers.
LEMMA StepLeavesLess ==
  ASSUME IInv, IInv', PosInv, NEW d \in Dispatchers, Step(d)
  PROVE  StepsLeft(d)' \in 0..(StepsLeft(d) - 1)
<1> DEFINE n == Len(events[d]) - pos[d] + 1
           k == RetryBudget + 3
           p == n * k
<1>1. /\ n \in Int /\ n >= 0 /\ k \in Int /\ RetryBudget \in Nat
      /\ pc[d] \in {"send", "finalize"} => n >= 1
      /\ tries[d] \in 0..RetryBudget
  BY CallFacts DEF PosInv
<1>2. tries'[d] \in 0..RetryBudget
  BY DEF IInv, TypeOK
<1>3. /\ p \in Int /\ p >= 0 /\ (n - 1) * k = p - k
      /\ n >= 1 => p >= k
      /\ n >= 1 => p - k >= 0
  BY <1>1, Products
<1>4. /\ pc[d] = "recover" => StepsLeft(d) = p + 3
      /\ pc[d] = "mark" => StepsLeft(d) = p + 2
      /\ pc[d] = "reserve" => StepsLeft(d) = p + 1
      /\ pc[d] = "send" => StepsLeft(d) = p + (-tries[d])
      /\ pc[d] = "finalize" => StepsLeft(d) = p + (-RetryBudget - 1)
  BY StepsLeftAt
<1>5. /\ pc'[d] = "idle" => StepsLeft(d)' = p' + 0
      /\ pc'[d] = "mark" => StepsLeft(d)' = p' + 2
      /\ pc'[d] = "reserve" => StepsLeft(d)' = p' + 1
      /\ pc'[d] = "send" => StepsLeft(d)' = p' + (-tries'[d])
      /\ pc'[d] = "finalize" => StepsLeft(d)' = p' + (-RetryBudget - 1)
  BY DEF StepsLeft
<1>6. n' = n => p' = p
  OBVIOUS
<1>7. n' = n - 1 => p' = p - k
  BY <1>3
<1> HIDE DEF n, p
<1>8. CASE SelectStale(d) \/ MarkStale(d)
  <2>1. /\ pc[d] \in {"recover", "mark"} /\ pc'[d] \in {"mark", "reserve"} /\ n' = n
        /\ pc[d] = "mark" => pc'[d] = "reserve"
    BY <1>8 DEF SelectStale, MarkStale, IInv, TypeOK, n
  <2> QED
    BY <1>3, <1>4, <1>5, <1>6, <2>1
<1>9. CASE Reserve(d)
  <2>1. pc[d] = "reserve" /\ pc'[d] = "send" /\ tries'[d] = 0 /\ n' = n /\ n >= 1
    BY <1>9, CallFacts DEF Reserve, callVars, IInv, CallInv, TypeOK, n
  <2> QED
    BY <1>1, <1>3, <1>4, <1>5, <1>6, <2>1
<1>10. CASE SkipDuplicate(d)
  <2>1. pc[d] = "reserve" /\ pc'[d] = "reserve" /\ n' = n - 1 /\ n >= 1
    <3>1. /\ pc' = pc /\ events' = events /\ pc[d] = "reserve"
          /\ pos'[d] = pos[d] + 1 /\ pos[d] <= Len(events[d])
      BY <1>10 DEF SkipDuplicate, IInv, TypeOK
    <3>2. Len(events[d]) \in Nat /\ pos[d] \in Nat
      BY CallFacts
    <3> QED
      BY <3>1, <3>2, SMTT(30) DEF n
  <2> QED
    BY <1>1, <1>3, <1>4, <1>5, <1>7, <2>1
<1>11. CASE Post(d)
  <2>1. /\ pc[d] = "send" /\ n' = n
        /\ \/ pc'[d] = "send" /\ tries'[d] = tries[d] + 1
           \/ pc'[d] = "finalize"
    <3>1. pc[d] = "send" /\ UNCHANGED <<events, pos>>
      BY <1>11 DEF Post
    <3>2. \/ tries' = [tries EXCEPT ![d] = tries[d] + 1] /\ pc' = pc
          \/ pc' = [pc EXCEPT ![d] = "finalize"]
      BY <1>11, PostFacts
    <3> QED
      BY <3>1, <3>2 DEF IInv, TypeOK, n
  <2> QED
    BY <1>1, <1>2, <1>3, <1>4, <1>5, <1>6, <2>1
<1>12. CASE SkipDisabled(d)
  <2>1. pc[d] = "send" /\ pc'[d] = "finalize" /\ n' = n
    BY <1>12 DEF SkipDisabled, IInv, TypeOK, n
  <2> QED
    BY <1>1, <1>3, <1>4, <1>5, <1>6, <2>1
<1>13. CASE Finalize(d)
  <2>1. pc[d] = "finalize" /\ pc'[d] = "reserve" /\ n' = n - 1
    BY <1>13, CallFacts DEF Finalize, IInv, TypeOK, n
  <2> QED
    BY <1>1, <1>3, <1>4, <1>5, <1>7, <2>1
<1>14. CASE Return(d)
  <2>1. pc[d] = "reserve" /\ pc'[d] = "idle" /\ n' = 0
    BY <1>14 DEF Return, GoIdle, IInv, TypeOK, n
  <2>2. p' = 0
    BY <1>1, <2>1 DEF p
  <2> QED
    BY <1>3, <1>4, <1>5, <2>1, <2>2
<1> QED
  BY <1>8, <1>9, <1>10, <1>11, <1>12, <1>13, <1>14 DEF Step

\* Every step of a call leaves less to do.  All of them are of bounded duration, so
\* that a call that is not cut short comes to its end.
THEOREM CallsEnd == Spec => EachStepCounts
<1> DEFINE A == \A d \in Dispatchers : Step(d) => StepsLeft(d)' \in 0..(StepsLeft(d) - 1)
<1>1. Init => PosInv
  BY DEF Init, PosInv
<1>2. IInv /\ IInv' /\ PosInv /\ [Next]_vars => PosInv'
  BY PosKept
<1>3. IInv /\ IInv' /\ PosInv => A
  BY StepLeavesLess
<1>4. Spec => [][A]_vars
  BY <1>1, <1>2, <1>3, InductiveInvariant, PTL DEF Spec
<1> QED
  BY <1>4 DEF EachStepCounts

----------------------------------------------------------------------------
(* The runtime implements its promise *)

\* The phase of an alert by its row and the call in flight.
LEMMA PhaseFacts ==
  ASSUME IInv, NEW a \in Alerts
  PROVE  /\ phaseOf[a] = "fresh" <=> ~Exists(a)
         /\ phaseOf[a] = "sending" <=> \E d \in Dispatchers : InFlight(d, a)
         /\ phaseOf[a] \in {"fresh", "sending", "settled"}
  BY DEF phaseOf, IInv, OwnerInv, Exists

\* A step that changes neither a row's existence nor what is in flight leaves
\* the phases alone.
LEMMA PhaseStable ==
  ASSUME \A a \in Alerts : Exists(a)' <=> Exists(a),
         \A d \in Dispatchers, a \in Alerts : InFlight(d, a)' <=> InFlight(d, a)
  PROVE  phaseOf' = phaseOf
  BY DEF phaseOf

\* The reservation begins the round.
LEMMA ReserveBegins ==
  ASSUME IInv, NEW d \in Dispatchers, Reserve(d)
  PROVE  Promise!Begin(Current(d))
<1> DEFINE c == Current(d)
<1>1. c \in Alerts /\ ~Exists(c)
  BY CurrentFacts DEF Reserve
<1>2. \A a \in Alerts : Exists(a)' <=> (Exists(a) \/ a = c)
  BY <1>1 DEF Reserve, Exists, SendingRow, IInv, TypeOK
<1>3. \A e \in Dispatchers, a \in Alerts :
        InFlight(e, a)' <=> (InFlight(e, a) \/ (e = d /\ a = c))
  BY DEF Reserve, callVars, InFlight, Current, IInv, TypeOK
<1>4. \A a \in Alerts :
        phaseOf'[a] = IF a = c THEN "sending" ELSE phaseOf[a]
  BY <1>2, <1>3 DEF phaseOf
<1>5. phaseOf[c] = "fresh"
  BY <1>1 DEF phaseOf
<1>6. phaseOf' = [phaseOf EXCEPT ![c] = "sending"]
  BY <1>4 DEF phaseOf
<1> QED
  BY <1>5, <1>6 DEF Promise!Begin, Reserve

\* A post delivers a message of the running round, or stutters.
LEMMA PostDelivers ==
  ASSUME IInv, NEW d \in Dispatchers, Post(d)
  PROVE  Promise!Deliver(Current(d)) \/ UNCHANGED Promise!absvars
<1> DEFINE c == Current(d)
<1>1. /\ c \in Alerts /\ InFlight(d, c) /\ pc[d] = "send"
      /\ copies' \in [Alerts -> Nat]
      /\ \A a \in Alerts \ {c} : copies'[a] = copies[a]
      /\ copies'[c] \in {copies[c], copies[c] + 1}
      /\ pc' \in {pc, [pc EXCEPT ![d] = "finalize"]}
      /\ UNCHANGED <<rows, events, pos>>
  BY PostFacts DEF Post
<1>2. phaseOf' = phaseOf
  <2>1. \A e \in Dispatchers, a \in Alerts : InFlight(e, a)' <=> InFlight(e, a)
    BY <1>1 DEF InFlight, Current, IInv, TypeOK
  <2>2. \A a \in Alerts : Exists(a)' <=> Exists(a)
    BY <1>1 DEF Exists
  <2> QED
    BY <2>1, <2>2, PhaseStable
<1>3. phaseOf[c] = "sending"
  BY <1>1, PhaseFacts
<1>4. copies \in [Alerts -> Nat] /\ copies[c] < RetryBudget + 1
  BY <1>1, RetryBudgetAssumption DEF IInv, OwnerInv, TypeOK
<1>5. CASE copies'[c] = copies[c]
  <2>1. copies' = copies
    BY <1>1, <1>4, <1>5
  <2> QED
    BY <1>2, <2>1 DEF Promise!absvars
<1>6. CASE copies'[c] = copies[c] + 1
  <2>1. copies' = [copies EXCEPT ![c] = copies[c] + 1]
    BY <1>1, <1>4, <1>6
  <2> QED
    BY <1>2, <1>3, <1>4, <2>1 DEF Promise!Deliver
<1> QED
  BY <1>1, <1>5, <1>6

\* Losing the only dispatcher that has an alert in flight settles it.
LEMMA RoundEnds ==
  ASSUME IInv, NEW d \in Dispatchers, NEW c \in Alerts, InFlight(d, c),
         \A a \in Alerts : Exists(a)' <=> Exists(a),
         \A e \in Dispatchers, a \in Alerts :
           InFlight(e, a)' <=> (InFlight(e, a) /\ e # d),
         UNCHANGED copies
  PROVE  Promise!Settle(c)
<1>1. Exists(c) /\ \A e \in Dispatchers : InFlight(e, c) => e = d
  BY DEF IInv, OwnerInv, Exists
<1>2. \A a \in Alerts \ {c} : ~InFlight(d, a)
  BY DEF InFlight
<1>3. \A a \in Alerts : phaseOf'[a] = IF a = c THEN "settled" ELSE phaseOf[a]
  BY <1>1, <1>2 DEF phaseOf
<1>4. phaseOf' = [phaseOf EXCEPT ![c] = "settled"]
  BY <1>3 DEF phaseOf
<1>5. phaseOf[c] = "sending"
  BY PhaseFacts
<1> QED
  BY <1>4, <1>5 DEF Promise!Settle

\* Finalizing settles the alert.
LEMMA FinalizeSettles ==
  ASSUME IInv, NEW d \in Dispatchers, Finalize(d)
  PROVE  Promise!Settle(Current(d))
<1> DEFINE c == Current(d)
<1>1. c \in Alerts /\ InFlight(d, c)
  BY CurrentFacts DEF Finalize, InFlight
<1>2. \A e \in Dispatchers, a \in Alerts :
        InFlight(e, a)' <=> (InFlight(e, a) /\ e # d)
  BY DEF Finalize, InFlight, Current, IInv, TypeOK
<1>3. \A a \in Alerts : Exists(a)' <=> Exists(a)
  <2>1. Exists(c)
    BY <1>1 DEF IInv, OwnerInv, Exists
  <2>2. FinalRow(outcome[d], alertTs[c]).status # "absent"
    BY DEF Finalize, FinalRow, IInv, CallInv, Terminal
  <2> QED
    BY <2>1, <2>2 DEF Finalize, Exists, IInv, TypeOK
<1> QED
  BY <1>1, <1>2, <1>3, RoundEnds DEF Finalize, ghostVars

\* So does losing the process in the middle of a round.
LEMMA GoIdleSettles ==
  ASSUME IInv, NEW d \in Dispatchers, GoIdle(d)
  PROVE  (\E a \in Alerts : Promise!Settle(a)) \/ UNCHANGED Promise!absvars
<1>1. \A a \in Alerts : Exists(a)' <=> Exists(a)
  BY DEF GoIdle, Exists
<1>2. \A e \in Dispatchers, a \in Alerts :
        InFlight(e, a)' <=> (InFlight(e, a) /\ e # d)
  BY DEF GoIdle, InFlight, Current, IInv, TypeOK
<1>3. UNCHANGED copies
  BY DEF GoIdle, ghostVars
<1>4. CASE \E a \in Alerts : InFlight(d, a)
  BY <1>1, <1>2, <1>3, <1>4, RoundEnds
<1>5. CASE \A a \in Alerts : ~InFlight(d, a)
  <2>1. phaseOf' = phaseOf
    BY <1>1, <1>2, <1>5, PhaseStable
  <2> QED
    BY <1>3, <2>1 DEF Promise!absvars
<1> QED
  BY <1>4, <1>5

\* Everything else is invisible: the table keeps its rows (recovery only
\* rewrites existing ones) and nobody starts or ends a round.
LEMMA OthersStutter ==
  ASSUME IInv,
         \/ Tick \/ (\E a \in Alerts : Raise(a)) \/ UNCHANGED vars
         \/ \E d \in Dispatchers :
              Call(d) \/ SelectStale(d) \/ MarkStale(d) \/ SkipDuplicate(d)
                \/ SkipDisabled(d)
  PROVE  UNCHANGED Promise!absvars
<1>1. UNCHANGED copies
  BY DEF Tick, Raise, Call, SelectStale, MarkStale, SkipDuplicate, SkipDisabled,
         ghostVars, vars
<1>2. \A a \in Alerts : Exists(a)' <=> Exists(a)
  <2>1. CASE \E d \in Dispatchers : MarkStale(d)
    BY <2>1 DEF MarkStale, RecoveredRow, Exists, IInv, CallInv
  <2>2. CASE UNCHANGED rows
    BY <2>2 DEF Exists
  <2> QED
    BY <2>1, <2>2 DEF Tick, Raise, Call, SelectStale, SkipDuplicate, SkipDisabled, vars
<1>3. \A e \in Dispatchers, a \in Alerts : InFlight(e, a)' <=> InFlight(e, a)
  <2>1. CASE Tick \/ (\E a \in Alerts : Raise(a)) \/ UNCHANGED vars
    BY <2>1 DEF Tick, Raise, callVars, vars, InFlight, Current
  <2>2. ASSUME NEW d \in Dispatchers,
               Call(d) \/ SelectStale(d) \/ MarkStale(d) \/ SkipDuplicate(d)
                 \/ SkipDisabled(d)
        PROVE  \A e \in Dispatchers, a \in Alerts : InFlight(e, a)' <=> InFlight(e, a)
    <3>1. CASE Call(d)
      BY <3>1 DEF Call, InFlight, Current, IInv, TypeOK
    <3>2. CASE SelectStale(d) \/ MarkStale(d)
      BY <3>2 DEF SelectStale, MarkStale, InFlight, Current, IInv, TypeOK
    <3>3. CASE SkipDuplicate(d) \/ SkipDisabled(d)
      BY <3>3 DEF SkipDuplicate, SkipDisabled, InFlight, Current, IInv, TypeOK
    <3> QED
      BY <2>2, <3>1, <3>2, <3>3
  <2> QED
    BY <2>1, <2>2
<1>4. phaseOf' = phaseOf
  BY <1>2, <1>3, PhaseStable
<1> QED
  BY <1>1, <1>4 DEF Promise!absvars

\* Every step is one of the abstract specification or a stutter.
LEMMA StepRefines == IInv /\ [Next]_vars => [Promise!Next]_(Promise!absvars)
<1> SUFFICES ASSUME IInv, [Next]_vars
             PROVE  Promise!Next \/ UNCHANGED Promise!absvars
  OBVIOUS
<1>1. ASSUME NEW d \in Dispatchers, Reserve(d) PROVE Promise!Next
  BY <1>1, ReserveBegins, CurrentFacts DEF Reserve, Promise!Next
<1>2. ASSUME NEW d \in Dispatchers, Post(d)
      PROVE  Promise!Next \/ UNCHANGED Promise!absvars
  BY <1>2, PostDelivers, PostFacts DEF Promise!Next
<1>3. ASSUME NEW d \in Dispatchers, Finalize(d) PROVE Promise!Next
  BY <1>3, FinalizeSettles, CurrentFacts DEF Finalize, Promise!Next
<1>4. ASSUME NEW d \in Dispatchers, Return(d) \/ Abort(d)
      PROVE  Promise!Next \/ UNCHANGED Promise!absvars
  BY <1>4, GoIdleSettles DEF Return, Abort, Promise!Next
<1> QED
  BY <1>1, <1>2, <1>3, <1>4, OthersStutter DEF Next, Step

\* Any number of overlapping dispatchers, crashing anywhere, implement the
\* abstract at-most-once delivery.
THEOREM Refinement == Spec => ImplementsAtMostOnce
<1>1. Init => Promise!Init
  BY DEF Init, Promise!Init, phaseOf, Exists, NoRow
<1>2. Spec => Promise!Spec
  BY <1>1, StepRefines, InductiveInvariant, PTL DEF Spec, Promise!Spec
<1> QED
  BY <1>2 DEF ImplementsAtMostOnce

==============================================================================
