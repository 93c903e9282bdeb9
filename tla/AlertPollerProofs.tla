-------------------------- MODULE AlertPollerProofs --------------------------
(***************************************************************************)
(* Proofs about AlertPoller, for any number of alerts, any refused ones,   *)
(* any batch sizes and number of attempts, and any number of faults.       *)
(***************************************************************************)
EXTENDS AlertPoller, BatchLemmas

----------------------------------------------------------------------------
(* Where the worker stands *)

\* Between transactions; with an alert in work; in a transaction that has
\* written nothing yet.
Resting == {"down", "dead", "idle", "digest commit"}
InWork == {"post", "record", "give up", "digest post", "digest mark"}
Unwritten == {"down", "dead", "idle", "digest post", "digest mark"}

\* A batch holds alerts without a terminal row, committed or not, and a
\* transaction never writes over a terminal row.
BatchInv ==
  /\ pc \in Resting => batch = {}
  /\ pc \in InWork => batch # {}
  /\ pc \in Unwritten => view = rows
  /\ \A t \in batch : rows[t].status \notin Terminal /\ view[t].status \notin Terminal
  /\ \A t \in Alerts : rows[t].status \in Terminal => view[t] = rows[t]

\* Attempts are counted from one, and a session breaks within send_alert.
AttemptInv ==
  /\ pc \in {"post", "record"} => attempt \in 1..Attempts
  /\ pc = "give up" => attempt = Attempts + 1
  /\ broken => pc \in {"post", "record", "give up"} /\ attempt >= 2

WorkInv == TypeOK /\ BatchInv /\ AttemptInv

----------------------------------------------------------------------------
(* Rows and batches *)

\* What an absent row looks like.
LEMMA NoRowFacts == NoRow.status = "absent" /\ "absent" \notin Terminal
<1> QED
  BY DEF NoRow, Terminal

\* A written row.
LEMMA RowFacts ==
  ASSUME NEW status \in Terminal \cup {"failed"}, NEW messageId \in BOOLEAN
  PROVE  /\ [status |-> status, messageId |-> messageId] \in Row
         /\ [status |-> status, messageId |-> messageId].status = status
<1> QED
  BY DEF Row

\* The sizes of the instance.
LEMMA Sizes ==
  /\ NumAlerts \in Nat /\ Limit \in Nat /\ DigestLimit \in Nat
  /\ Attempts \in Nat /\ Attempts >= 1 /\ MaxFaults \in Nat
<1> QED
  BY SizesAssumption

\* An empty batch is within every limit, and zero counts as no attempt.
LEMMA NoBatch ==
  /\ Cardinality({}) <= Limit /\ Cardinality({}) <= DigestLimit
  /\ 0 \in 0..(Attempts + 1)
<1>1. Cardinality({}) = 0
  BY FS_EmptySet
<1> QED
  BY <1>1, Sizes

\* The types that the steps need.
LEMMA Types ==
  ASSUME TypeOK
  PROVE  /\ raised \in Nat /\ raised <= NumAlerts
         /\ batch \in SUBSET (1..raised) /\ batch \in SUBSET Alerts
         /\ view \in [Alerts -> Row \cup {NoRow}]
         /\ rows \in [Alerts -> Row \cup {NoRow}]
         /\ copies \in [Alerts -> Nat] /\ leaked \in SUBSET Alerts
         /\ faults \in Nat /\ faults <= MaxFaults /\ attempt \in Nat
<1>1. /\ raised \in 0..NumAlerts /\ batch \in SUBSET (1..raised)
      /\ view \in [Alerts -> Row \cup {NoRow}]
      /\ rows \in [Alerts -> Row \cup {NoRow}]
      /\ copies \in [Alerts -> Nat] /\ leaked \in SUBSET Alerts
      /\ faults \in 0..MaxFaults /\ attempt \in 0..(Attempts + 1)
  BY DEF TypeOK
<1>2. /\ raised \in Nat /\ raised <= NumAlerts
      /\ faults \in Nat /\ faults <= MaxFaults /\ attempt \in Nat
  BY <1>1, Sizes
<1>3. batch \in SUBSET Alerts
  BY <1>1, <1>2, Sizes DEF Alerts
<1> QED
  BY <1>1, <1>2, <1>3

\* The alert in work is one of the batch, and the rest of it is a batch.
LEMMA CurrentInBatch ==
  ASSUME TypeOK, batch # {}
  PROVE  /\ Current \in batch /\ Current \in Alerts
         /\ Rest \in SUBSET (1..raised)
         /\ \A n \in Nat : Cardinality(batch) <= n => Cardinality(Rest) <= n
<1>1. batch \in SUBSET (1..raised) /\ raised \in Nat /\ batch \in SUBSET Alerts
  BY Types
<1>2. Current \in batch
  BY <1>1, FirstInBatch DEF Current
<1>3. Current \in Alerts
  BY <1>1, <1>2
<1>4. /\ Rest \in SUBSET (1..raised)
      /\ \A n \in Nat : Cardinality(batch) <= n => Cardinality(Rest) <= n
  BY <1>1, RestBounded DEF Rest
<1> QED
  BY <1>2, <1>3, <1>4

\* The query returns alerts without a terminal row, as many as its limit.
LEMMA Undelivered ==
  ASSUME TypeOK, NEW t \in Nat \ {0}, NEW n \in Nat
  PROVE  /\ Oldest(UndeliveredFrom(t), n) \in SUBSET (1..raised)
         /\ Cardinality(Oldest(UndeliveredFrom(t), n)) <= n
         /\ \A a \in Oldest(UndeliveredFrom(t), n) : view[a].status \notin Terminal
<1>1. UndeliveredFrom(t) \in SUBSET (1..raised) /\ raised \in Nat
  BY Types DEF UndeliveredFrom
<1>2. /\ Oldest(UndeliveredFrom(t), n) \in SUBSET UndeliveredFrom(t)
      /\ Cardinality(Oldest(UndeliveredFrom(t), n)) <= n
  BY <1>1, OldestBounded
<1> QED
  BY <1>1, <1>2 DEF UndeliveredFrom

----------------------------------------------------------------------------
(* The steps *)

\* Nothing of a rolled back transaction is left.
LEMMA RollBackWork ==
  ASSUME WorkInv, NEW end \in {"down", "dead"}, RollBack(end),
         UNCHANGED <<dataVars, rows>>, faults' \in 0..MaxFaults,
         copies' \in [Alerts -> Nat], leaked' \in SUBSET Alerts
  PROVE  WorkInv'
<1>1. /\ view' = rows' /\ batch' = {} /\ attempt' = 0 /\ broken' = FALSE /\ pc' = end
  BY DEF RollBack
<1>2. TypeOK'
  BY <1>1, NoBatch DEF WorkInv, TypeOK, dataVars, PCs
<1>3. BatchInv' /\ AttemptInv'
  BY <1>1 DEF BatchInv, AttemptInv, Resting, InWork, Unwritten
<1> QED
  BY <1>2, <1>3 DEF WorkInv

\* COMMIT makes the transaction the state of the table.
LEMMA CommitWork ==
  ASSUME WorkInv, pc \in {"digest commit", "check"}, batch = {}, rows' = view,
         pc' \in {"idle", "dead", "down"}, faults' \in 0..MaxFaults,
         UNCHANGED <<dataVars, view, workVars, ghostVars>>
  PROVE  WorkInv'
<1>2. TypeOK'
  BY NoBatch DEF WorkInv, TypeOK, dataVars, workVars, ghostVars, PCs
<1>3. BatchInv' /\ AttemptInv'
  BY DEF WorkInv, BatchInv, AttemptInv, Resting, InWork, Unwritten, workVars
<1> QED
  BY <1>2, <1>3 DEF WorkInv

\* The alert in work gets its row, and the loop goes on.
LEMMA ReturnWork ==
  ASSUME WorkInv, pc \in {"check", "record", "give up"}, batch # {}, ~broken,
         NEW status \in Terminal \cup {"failed"}, NEW messageId \in BOOLEAN,
         Upsert(Current, status, messageId), Return,
         UNCHANGED <<dataVars, rows, broken, faults, ghostVars>>
  PROVE  WorkInv'
<1>1. PICK c \in Alerts : c = Current
  BY CurrentInBatch DEF WorkInv
<1>2. /\ c \in batch /\ batch' = batch \ {c} /\ batch' \in SUBSET (1..raised)
      /\ Cardinality(batch') <= Limit
  BY <1>1, CurrentInBatch, Sizes DEF WorkInv, TypeOK, Return, Rest
<1>3. /\ view' \in [Alerts -> Row \cup {NoRow}]
      /\ \A t \in Alerts \ {c} : view'[t] = view[t]
  BY <1>1, RowFacts DEF Upsert, WorkInv, TypeOK
<1>4. pc' = "check" /\ attempt' = 0
  BY DEF Return
<1>5. TypeOK'
  BY <1>2, <1>3, <1>4, NoBatch DEF WorkInv, TypeOK, dataVars, ghostVars, PCs
<1>6. BatchInv'
  BY <1>2, <1>3, <1>4, Types
  DEF WorkInv, BatchInv, Resting, InWork, Unwritten
<1>7. AttemptInv'
  BY <1>4 DEF AttemptInv
<1> QED
  BY <1>5, <1>6, <1>7 DEF WorkInv

\* Another attempt, or none.
LEMMA RetryWork ==
  ASSUME WorkInv, pc \in {"post", "record"}, Retry,
         UNCHANGED <<dataVars, rows, view, batch>>, faults' \in 0..MaxFaults,
         broken' \in {broken, TRUE},
         copies' \in [Alerts -> Nat], leaked' \in SUBSET Alerts
  PROVE  WorkInv'
<1>1. attempt \in 1..Attempts /\ attempt' = attempt + 1
  BY DEF WorkInv, AttemptInv, Retry
<1>2. /\ attempt' \in 0..(Attempts + 1) /\ attempt' >= 2
      /\ pc' = "post" => attempt' \in 1..Attempts
      /\ pc' = "give up" => attempt' = Attempts + 1
      /\ pc' \in {"post", "give up"}
  <2>1. CASE attempt < Attempts
    <3>1. pc' = "post"
      BY <2>1, Zenon DEF Retry
    <3> QED
      BY <1>1, <2>1, <3>1, Sizes
  <2>2. CASE ~(attempt < Attempts)
    <3>1. pc' = "give up"
      BY <2>2, Zenon DEF Retry
    <3>2. attempt' = Attempts + 1
      <4> DEFINE a == attempt
      <4>1. a \in 1..Attempts /\ ~(a < Attempts) /\ Attempts \in Nat
        BY <1>1, <2>2, Sizes
      <4> HIDE DEF a
      <4>2. a = Attempts
        BY <4>1
      <4> QED
        BY <1>1, <4>2 DEF a
    <3>3. /\ Attempts + 1 \in 0..(Attempts + 1) /\ Attempts + 1 >= 2
      BY Sizes
    <3> QED
      BY <3>1, <3>2, <3>3, Zenon
  <2> QED
    BY <2>1, <2>2
<1>3. TypeOK'
  BY <1>2 DEF WorkInv, TypeOK, dataVars, PCs
<1>4. BatchInv'
  BY <1>2 DEF WorkInv, BatchInv, Resting, InWork, Unwritten
<1>5. AttemptInv'
  BY <1>2 DEF AttemptInv
<1> QED
  BY <1>3, <1>4, <1>5 DEF WorkInv

\* The worker starts.
LEMMA StartWork ==
  ASSUME WorkInv, Start
  PROVE  WorkInv'
<1> USE DEF WorkInv
<1>0. PICK t \in Alerts :
        LET found == Oldest(UndeliveredFrom(t), DigestLimit)
        IN  \/ found = {} /\ pc' = "idle" /\ UNCHANGED <<view, batch>>
            \/ found # {} /\ UpsertBatch(found, "snoozed")
               /\ pc' = "digest commit" /\ UNCHANGED batch
            \/ found # {} /\ batch' = found /\ pc' = "digest post" /\ UNCHANGED view
  BY DEF Start
<1> DEFINE found == Oldest(UndeliveredFrom(t), DigestLimit)
<1>1. \/ found = {} /\ pc' = "idle" /\ UNCHANGED <<view, batch>>
      \/ found # {} /\ UpsertBatch(found, "snoozed")
         /\ pc' = "digest commit" /\ UNCHANGED batch
      \/ found # {} /\ batch' = found /\ pc' = "digest post" /\ UNCHANGED view
  BY <1>0
<1>2. /\ found \in SUBSET (1..raised) /\ Cardinality(found) <= DigestLimit
      /\ \A a \in found : view[a].status \notin Terminal
  <2>1. t \in Nat \ {0} /\ DigestLimit \in Nat
    BY Sizes DEF Alerts
  <2> QED
    BY <2>1, Undelivered
<1> HIDE DEF found
<1>3. /\ pc = "down" /\ batch = {} /\ view = rows
      /\ UNCHANGED <<raised, channel, rows, attempt, broken, faults, copies, leaked>>
  BY DEF Start, BatchInv, Resting, Unwritten, dataVars, ghostVars
<1>4. view' \in [Alerts -> Row \cup {NoRow}]
  BY <1>1, RowFacts, Types DEF UpsertBatch, Terminal
<1>5. TypeOK'
  BY <1>1, <1>2, <1>3, <1>4, NoBatch DEF TypeOK, PCs
<1>6. BatchInv'
  <2>1. CASE UpsertBatch(found, "snoozed") /\ pc' = "digest commit" /\ UNCHANGED batch
    BY <1>2, <1>3, <2>1 DEF UpsertBatch, BatchInv, Resting, InWork, Unwritten
  <2>2. CASE found = {} /\ pc' = "idle" /\ UNCHANGED <<view, batch>>
    BY <1>3, <2>2 DEF BatchInv, Resting, InWork, Unwritten
  <2>3. CASE found # {} /\ batch' = found /\ pc' = "digest post" /\ UNCHANGED view
    BY <1>2, <1>3, <2>3 DEF BatchInv, Resting, InWork, Unwritten
  <2> QED
    BY <1>1, <2>1, <2>2, <2>3
<1>7. AttemptInv'
  BY <1>1, <1>3 DEF AttemptInv
<1> QED
  BY <1>5, <1>6, <1>7

\* The digest is sent and its alerts are marked.
LEMMA DigestWork ==
  ASSUME WorkInv, DigestPost \/ DigestMark
  PROVE  WorkInv'
<1> USE DEF WorkInv
<1>1. CASE DigestPost
  <2>1. copies' \in [Alerts -> Nat]
    <3>1. \A t \in Alerts : copies[t] + 1 \in Nat /\ copies[t] + 0 \in Nat
      BY Types
    <3>2. \A t \in Alerts : copies[t] + (IF t \in batch THEN 1 ELSE 0) \in Nat
      BY <3>1, Zenon
    <3> QED
      BY <1>1, <3>2 DEF DigestPost
  <2>2. TypeOK'
    BY <1>1, <2>1 DEF DigestPost, TypeOK, dataVars, workVars, PCs
  <2>3. BatchInv' /\ AttemptInv'
    BY <1>1 DEF DigestPost, BatchInv, AttemptInv, Resting, InWork, Unwritten,
                dataVars, workVars
  <2> QED
    BY <2>2, <2>3
<1>2. CASE DigestMark
  <2>1. view' \in [Alerts -> Row \cup {NoRow}]
    BY <1>2, RowFacts, Types DEF DigestMark, UpsertBatch, Terminal
  <2>2. TypeOK'
    BY <1>2, <2>1, NoBatch DEF DigestMark, TypeOK, dataVars, ghostVars, PCs
  <2>3. BatchInv'
    BY <1>2, Types DEF DigestMark, UpsertBatch, BatchInv, Resting, InWork, Unwritten
  <2>4. AttemptInv'
    BY <1>2 DEF DigestMark, AttemptInv
  <2> QED
    BY <2>2, <2>3, <2>4
<1> QED
  BY <1>1, <1>2

\* A poll begins.
LEMMA ListWork ==
  ASSUME WorkInv, List
  PROVE  WorkInv'
<1> USE DEF WorkInv
<1>1. /\ batch' \in SUBSET (1..raised) /\ Cardinality(batch') <= Limit
      /\ \A a \in batch' : view[a].status \notin Terminal
  BY Undelivered, Sizes DEF List
<1>2. TypeOK'
  BY <1>1 DEF List, TypeOK, dataVars, ghostVars, PCs
<1>3. BatchInv' /\ AttemptInv'
  BY <1>1 DEF List, BatchInv, AttemptInv, Resting, InWork, Unwritten
<1> QED
  BY <1>2, <1>3

\* The next alert of the batch is taken up and sent.
LEMMA SendWork ==
  ASSUME WorkInv, CheckOpen \/ Post
  PROVE  WorkInv'
<1> USE DEF WorkInv
<1>1. CASE CheckOpen
  <2>1. 1 \in 1..Attempts /\ 1 \in 0..(Attempts + 1)
    BY Sizes
  <2>2. TypeOK'
    BY <1>1, <2>1 DEF CheckOpen, TypeOK, dataVars, ghostVars, PCs
  <2>3. BatchInv' /\ AttemptInv'
    BY <1>1, <2>1 DEF CheckOpen, BatchInv, AttemptInv, Resting, InWork, Unwritten
  <2> QED
    BY <2>2, <2>3
<1>2. CASE Post
  <2>1. Current \in Alerts
    BY <1>2, CurrentInBatch DEF Post, BatchInv, InWork
  <2>2. copies' \in [Alerts -> Nat] /\ leaked' \in SUBSET Alerts
    BY <1>2, <2>1, Types DEF Post, Sent
  <2>3. TypeOK'
    BY <1>2, <2>2 DEF Post, TypeOK, dataVars, workVars, PCs
  <2>4. BatchInv' /\ AttemptInv'
    BY <1>2 DEF Post, BatchInv, AttemptInv, Resting, InWork, Unwritten, workVars
  <2> QED
    BY <2>3, <2>4
<1> QED
  BY <1>1, <1>2

\* A failure is counted.
LEMMA FaultCounted ==
  ASSUME WorkInv, Fault \/ UNCHANGED faults
  PROVE  faults' \in 0..MaxFaults
<1>1. faults \in 0..MaxFaults /\ MaxFaults \in Nat
  BY Sizes DEF WorkInv, TypeOK
<1> QED
  BY <1>1 DEF Fault

\* The commands of the operator and new alerts.
LEMMA EnvironmentWork ==
  ASSUME WorkInv, Raise \/ Mute \/ Unmute \/ Snooze \/ SnoozeEnds \/ UNCHANGED vars
  PROVE  WorkInv'
<1> USE DEF WorkInv
<1>1. /\ raised' \in 0..NumAlerts /\ batch \in SUBSET (1..(raised'))
  <2>1. CASE Raise
    <3>1. raised \in Nat /\ raised < NumAlerts /\ raised' = raised + 1
      BY <2>1, Types DEF Raise
    <3>2. raised' \in 0..NumAlerts
      BY <3>1, Sizes
    <3>3. \A a \in 1..raised : a \in 1..(raised + 1)
      BY <3>1
    <3> QED
      BY <3>1, <3>2, <3>3, Types
  <2>2. CASE raised' = raised
    BY <2>2 DEF TypeOK
  <2> QED
    BY <2>1, <2>2
    DEF Mute, Unmute, Snooze, SnoozeEnds, Switch, vars, dataVars
<1>2. channel' \in [muted : BOOLEAN, snoozed : BOOLEAN]
  <2>1. channel \in [muted : BOOLEAN, snoozed : BOOLEAN]
    BY DEF TypeOK
  <2>2. channel.muted \in BOOLEAN /\ channel.snoozed \in BOOLEAN
    BY <2>1
  <2>3. \A m, s \in BOOLEAN :
          [muted |-> m, snoozed |-> s] \in [muted : BOOLEAN, snoozed : BOOLEAN]
    OBVIOUS
  <2>4. \/ channel' = channel
        \/ \E m, s \in BOOLEAN : channel' = [muted |-> m, snoozed |-> s]
    BY <2>2 DEF Raise, Mute, Unmute, Snooze, SnoozeEnds, Switch, vars, dataVars
  <2> QED
    BY <2>1, <2>3, <2>4
<1>3. leaked' \in SUBSET Alerts
  BY Types DEF Raise, Mute, Unmute, Snooze, SnoozeEnds, Switch, vars, ghostVars
<1>4. UNCHANGED <<rows, view, pc, batch, attempt, broken, faults, copies>>
  BY DEF Raise, Mute, Unmute, Snooze, SnoozeEnds, Switch, vars, workVars, ghostVars
<1>5. TypeOK'
  BY <1>1, <1>2, <1>3, <1>4 DEF TypeOK
<1>6. BatchInv' /\ AttemptInv'
  BY <1>4 DEF BatchInv, AttemptInv
<1> QED
  BY <1>5, <1>6

\* The worker is down at first.
LEMMA InitWork == Init => WorkInv
<1> SUFFICES ASSUME Init PROVE WorkInv
  OBVIOUS
<1>1. TypeOK
  <2>1. raised \in 0..NumAlerts /\ faults \in 0..MaxFaults /\ attempt \in 0..(Attempts + 1)
    BY Sizes DEF Init
  <2>2. channel \in [muted : BOOLEAN, snoozed : BOOLEAN]
    BY DEF Init
  <2>3. /\ rows \in [Alerts -> Row \cup {NoRow}] /\ view \in [Alerts -> Row \cup {NoRow}]
        /\ copies \in [Alerts -> Nat]
    BY DEF Init
  <2>4. /\ pc \in PCs /\ pc = "down" /\ batch = {} /\ broken \in BOOLEAN
        /\ leaked \in SUBSET Alerts
    BY DEF Init, PCs
  <2> QED
    BY <2>1, <2>2, <2>3, <2>4, NoBatch DEF TypeOK
<1>2. BatchInv /\ AttemptInv
  BY DEF Init, BatchInv, AttemptInv, Resting, InWork, Unwritten
<1> QED
  BY <1>1, <1>2 DEF WorkInv

\* Sending one alert.
LEMMA SendAlertWork ==
  ASSUME WorkInv, SendAlert
  PROVE  WorkInv'
<1>1. CASE CheckOpen \/ Post
  BY <1>1, SendWork
<1>2. CASE CheckClosed
  BY <1>2, ReturnWork DEF CheckClosed, Terminal, WorkInv, AttemptInv
<1>3. CASE Record
  BY <1>3, ReturnWork DEF Record, Terminal, WorkInv, BatchInv, InWork
<1>4. CASE GiveUp
  BY <1>4, ReturnWork DEF GiveUp, WorkInv, BatchInv, InWork
<1>5. CASE PostFails
  <2>1. faults' \in 0..MaxFaults
    BY <1>5, FaultCounted DEF PostFails
  <2>2. Current \in Alerts
    BY <1>5, CurrentInBatch DEF PostFails, WorkInv, BatchInv, InWork
  <2>3. copies' \in [Alerts -> Nat] /\ leaked' \in SUBSET Alerts
    BY <1>5, <2>2, Types DEF PostFails, Sent, ghostVars, WorkInv
  <2> QED
    BY <1>5, <2>1, <2>3, RetryWork DEF PostFails
<1>6. CASE RecordFails
  <2>1. faults' \in 0..MaxFaults
    BY <1>6, FaultCounted DEF RecordFails
  <2> QED
    BY <1>6, <2>1, RetryWork, Types DEF RecordFails, ghostVars, WorkInv
<1> QED
  BY <1>1, <1>2, <1>3, <1>4, <1>5, <1>6 DEF SendAlert

\* Every step of the worker and its environment.
LEMMA NextWork == WorkInv /\ [Next]_vars => WorkInv'
<1> SUFFICES ASSUME WorkInv, [Next]_vars PROVE WorkInv'
  OBVIOUS
<1>1. CASE Raise \/ Mute \/ Unmute \/ Snooze \/ SnoozeEnds \/ UNCHANGED vars
  BY <1>1, EnvironmentWork
<1>2. CASE Start
  BY <1>2, StartWork
<1>3. CASE Digest
  <2>1. CASE CommitDigest
    BY <2>1, FaultCounted, CommitWork
    DEF CommitDigest, Commit, WorkInv, BatchInv, Resting
  <2> QED
    BY <1>3, <2>1, DigestWork DEF Digest
<1>4. CASE List
  BY <1>4, ListWork
<1>5. CASE SendAlert
  BY <1>5, SendAlertWork
<1>6. CASE CommitBatch
  BY <1>6, FaultCounted, CommitWork DEF CommitBatch, Commit
<1>7. CASE CommitUnacknowledged
  BY <1>7, FaultCounted, CommitWork
  DEF CommitUnacknowledged, WorkInv, BatchInv, Resting
<1>8. CASE Interrupt \/ LoopDies
  BY <1>8, FaultCounted, RollBackWork, Types
  DEF Interrupt, LoopDies, ghostVars, WorkInv
<1>9. CASE DigestPostFails
  <2>1. PICK n \in 0..DigestLimit :
          copies' = [t \in Alerts |->
            copies[t] + IF t \in Oldest(batch, n) THEN 1 ELSE 0]
    BY <1>9 DEF DigestPostFails
  <2>2. \A t \in Alerts : copies[t] + 1 \in Nat /\ copies[t] + 0 \in Nat
    BY Types DEF WorkInv
  <2>3. \A t \in Alerts :
          copies[t] + (IF t \in Oldest(batch, n) THEN 1 ELSE 0) \in Nat
    BY <2>2, Zenon
  <2>4. copies' \in [Alerts -> Nat] /\ leaked' \in SUBSET Alerts
    BY <1>9, <2>1, <2>3, Types DEF DigestPostFails, WorkInv
  <2> QED
    BY <1>9, <2>4, FaultCounted, RollBackWork DEF DigestPostFails
<1> QED
  BY <1>1, <1>2, <1>3, <1>4, <1>5, <1>6, <1>7, <1>8, <1>9 DEF Next, Step

----------------------------------------------------------------------------
(* Messages in the chat *)

\* A step shows an alert once more, if at all, and only one of the batch.
LEMMA CopiesStep ==
  ASSUME WorkInv, [Next]_vars, NEW t \in Alerts
  PROVE  /\ copies[t] \in Nat
         /\ copies'[t] \in {copies[t], copies[t] + 1}
         /\ copies'[t] # copies[t] => t \in batch /\ pc \in {"post", "digest post"}
<1>1. copies \in [Alerts -> Nat] /\ copies[t] \in Nat /\ copies[t] + 0 = copies[t]
  BY Types DEF WorkInv
<1>2. CASE Post \/ PostFails
  <2>1. Current \in batch /\ Current \in Alerts
    BY <1>2, CurrentInBatch DEF Post, PostFails, WorkInv, BatchInv, InWork
  <2>2. copies' = copies \/ copies' = [copies EXCEPT ![Current] = @ + 1]
    BY <1>2 DEF Post, PostFails, Sent, ghostVars
  <2>3. CASE pc = "post"
    BY <1>1, <2>1, <2>2, <2>3
  <2> QED
    BY <1>2, <2>3 DEF Post, PostFails
<1>3. CASE DigestPost
  <2>1. copies'[t] = copies[t] + IF t \in batch THEN 1 ELSE 0
    BY <1>3 DEF DigestPost
  <2>2. CASE t \in batch
    <3>1. copies'[t] = copies[t] + 1
      BY <2>1, <2>2, Zenon
    <3> QED
      BY <1>1, <1>3, <2>2, <3>1 DEF DigestPost
  <2>3. CASE t \notin batch
    BY <1>1, <2>1, <2>3
  <2> QED
    BY <2>2, <2>3
<1>4. CASE DigestPostFails
  <2>1. PICK n \in 0..DigestLimit :
          copies' = [u \in Alerts |->
            copies[u] + IF u \in Oldest(batch, n) THEN 1 ELSE 0]
    BY <1>4 DEF DigestPostFails
  <2>2. copies'[t] = copies[t] + IF t \in Oldest(batch, n) THEN 1 ELSE 0
    BY <2>1
  <2>3. CASE t \in Oldest(batch, n)
    <3>1. copies'[t] = copies[t] + 1 /\ t \in batch
      BY <2>2, <2>3, Zenon DEF Oldest
    <3> QED
      BY <1>1, <1>4, <3>1 DEF DigestPostFails
  <2>4. CASE t \notin Oldest(batch, n)
    BY <1>1, <2>2, <2>4
  <2> QED
    BY <2>3, <2>4
<1>5. CASE UNCHANGED copies
  BY <1>1, <1>5
<1>6. CASE Raise \/ Mute \/ Unmute \/ Snooze \/ SnoozeEnds \/ UNCHANGED vars
  BY <1>5, <1>6 DEF Raise, Mute, Unmute, Snooze, SnoozeEnds, Switch, vars, ghostVars
<1>7. CASE Start \/ DigestMark \/ CommitDigest \/ List
  BY <1>5, <1>7 DEF Start, DigestMark, CommitDigest, Commit, List, ghostVars
<1>8. CASE CheckClosed \/ CheckOpen \/ Record \/ RecordFails \/ GiveUp
  BY <1>5, <1>8 DEF CheckClosed, CheckOpen, Record, RecordFails, GiveUp, ghostVars
<1>9. CASE CommitBatch \/ CommitUnacknowledged \/ LoopDies \/ Interrupt
  BY <1>5, <1>9
  DEF CommitBatch, Commit, CommitUnacknowledged, LoopDies, Interrupt, ghostVars
<1> QED
  BY <1>2, <1>3, <1>4, <1>6, <1>7, <1>8, <1>9 DEF Next, Step, Digest, SendAlert

\* Rows are committed as the transaction has them, or stay as they are.
LEMMA RowsStep ==
  ASSUME WorkInv, [Next]_vars
  PROVE  rows' = rows \/ rows' = view
<1>1. CASE Raise \/ Mute \/ Unmute \/ Snooze \/ SnoozeEnds \/ UNCHANGED vars
  BY <1>1 DEF Raise, Mute, Unmute, Snooze, SnoozeEnds, Switch, vars
<1>2. CASE Start \/ Digest \/ List \/ DigestPostFails
  BY <1>2 DEF Start, Digest, DigestPost, DigestMark, CommitDigest, Commit, List,
              DigestPostFails
<1>3. CASE SendAlert
  BY <1>3 DEF SendAlert, CheckClosed, CheckOpen, Post, PostFails, Record,
              RecordFails, GiveUp
<1>4. CASE CommitBatch \/ CommitUnacknowledged \/ LoopDies \/ Interrupt
  BY <1>4 DEF CommitBatch, Commit, CommitUnacknowledged, LoopDies, Interrupt
<1> QED
  BY <1>1, <1>2, <1>3, <1>4 DEF Next, Step

\* What a step writes into the transaction.
LEMMA ViewStep ==
  ASSUME WorkInv, [Next]_vars, NEW t \in Alerts
  PROVE  \/ view'[t] = view[t]
         \/ view'[t] = rows[t]
         \/ view'[t].status = "snoozed"
         \/ view'[t].status = "failed" /\ pc = "give up" /\ t = Current
         \/ view'[t].status = "sent" /\ pc = "record" /\ t = Current /\ ~broken
         \/ view'[t].status = "sent" /\ pc = "digest mark" /\ t \in batch
<1>1. view \in [Alerts -> Row \cup {NoRow}]
  BY Types DEF WorkInv
<1>2. CASE Raise \/ Mute \/ Unmute \/ Snooze \/ SnoozeEnds \/ UNCHANGED vars
  BY <1>2 DEF Raise, Mute, Unmute, Snooze, SnoozeEnds, Switch, vars
<1>3. CASE Start \/ DigestPost \/ DigestMark \/ CommitDigest \/ List \/ DigestPostFails
  <2>1. ASSUME NEW B, NEW status, UpsertBatch(B, status)
        PROVE  view'[t] = view[t] \/ (t \in B /\ view'[t].status = status)
    <3>1. view'[t] = IF t \in B THEN [status |-> status, messageId |-> FALSE] ELSE view[t]
      BY <2>1 DEF UpsertBatch
    <3> QED
      BY <3>1
  <2>2. CASE Start
    BY <2>1, <2>2 DEF Start
  <2>3. CASE DigestMark
    BY <2>1, <2>3 DEF DigestMark
  <2>4. CASE DigestPost \/ CommitDigest \/ List \/ DigestPostFails
    BY <2>4 DEF DigestPost, CommitDigest, Commit, List, DigestPostFails, RollBack
  <2> QED
    BY <1>3, <2>2, <2>3, <2>4
<1>4. CASE CheckClosed \/ Record \/ GiveUp
  <2>1. ASSUME NEW status, NEW messageId, Upsert(Current, status, messageId)
        PROVE  view'[t] = view[t] \/ (t = Current /\ view'[t].status = status)
    <3>1. view'[t] = IF t = Current THEN [status |-> status, messageId |-> messageId]
                     ELSE view[t]
      BY <1>1, <2>1 DEF Upsert
    <3> QED
      BY <3>1
  <2> QED
    BY <1>4, <2>1 DEF CheckClosed, Record, GiveUp
<1>5. CASE CheckOpen \/ Post \/ PostFails \/ RecordFails
  BY <1>5 DEF CheckOpen, Post, PostFails, RecordFails
<1>6. CASE CommitBatch \/ CommitUnacknowledged \/ LoopDies \/ Interrupt
  BY <1>6 DEF CommitBatch, Commit, CommitUnacknowledged, LoopDies, Interrupt, RollBack
<1> QED
  BY <1>2, <1>3, <1>4, <1>5, <1>6 DEF Next, Step, Digest, SendAlert

\* A row that says sent, committed or not, is about an alert in the chat.
SentInv ==
  /\ \A t \in Alerts :
       rows[t].status = "sent" \/ view[t].status = "sent" => copies[t] >= 1
  /\ pc = "record" => copies[Current] >= 1
  /\ pc = "digest mark" => \A t \in batch : copies[t] >= 1

\* The worker comes to record what it sent.
LEMMA RecordStep ==
  ASSUME WorkInv, SentInv, [Next]_vars
  PROVE  /\ pc' = "record" => copies'[Current'] >= 1
         /\ pc' = "digest mark" => \A t \in batch' : copies'[t] >= 1
<1>1. CASE Post
  <2>1. Current' = Current /\ Current \in Alerts /\ pc' = "record"
    BY <1>1, CurrentInBatch
    DEF Post, workVars, Current, WorkInv, BatchInv, InWork
  <2>2. copies'[Current] = copies[Current] + 1 /\ copies[Current] \in Nat
    BY <1>1, <2>1, Types DEF Post, Sent, WorkInv
  <2> QED
    BY <2>1, <2>2
<1>2. CASE DigestPost
  <2>1. batch' = batch /\ batch \in SUBSET Alerts /\ pc' = "digest mark"
    BY <1>2, Types DEF DigestPost, workVars, WorkInv
  <2>2. ASSUME NEW t \in batch PROVE copies'[t] >= 1
    <3>1. copies[t] \in Nat
      BY <2>1, Types DEF WorkInv
    <3>2. copies'[t] = copies[t] + IF t \in batch THEN 1 ELSE 0
      BY <1>2, <2>1 DEF DigestPost
    <3>3. copies'[t] = copies[t] + 1
      BY <3>2, Zenon
    <3> QED
      BY <3>1, <3>3
  <2> QED
    BY <2>1, <2>2
<1>3. CASE /\ pc' = pc /\ batch' = batch /\ copies' = copies
  BY <1>3 DEF SentInv, Current
<1>4. CASE pc' \notin {"record", "digest mark"}
  BY <1>4
<1>5. CASE Raise \/ Mute \/ Unmute \/ Snooze \/ SnoozeEnds \/ UNCHANGED vars
  BY <1>3, <1>5
  DEF Raise, Mute, Unmute, Snooze, SnoozeEnds, Switch, vars, workVars, ghostVars
<1>6. CASE Start \/ DigestMark \/ CommitDigest \/ List \/ DigestPostFails
  BY <1>4, <1>6 DEF Start, DigestMark, CommitDigest, Commit, List, DigestPostFails, RollBack
<1>7. CASE CheckClosed \/ CheckOpen \/ PostFails \/ Record \/ RecordFails \/ GiveUp
  BY <1>4, <1>7
  DEF CheckClosed, CheckOpen, PostFails, Record, RecordFails, GiveUp, Return, Retry
<1>8. CASE CommitBatch \/ CommitUnacknowledged \/ LoopDies \/ Interrupt
  BY <1>4, <1>8
  DEF CommitBatch, Commit, CommitUnacknowledged, LoopDies, Interrupt, RollBack
<1> QED
  BY <1>1, <1>2, <1>5, <1>6, <1>7, <1>8 DEF Next, Step, Digest, SendAlert

\* Rows never claim more than was sent.
LEMMA NextSent == WorkInv /\ SentInv /\ [Next]_vars => SentInv'
<1> SUFFICES ASSUME WorkInv, SentInv, [Next]_vars PROVE SentInv'
  OBVIOUS
<1>1. ASSUME NEW t \in Alerts, rows'[t].status = "sent" \/ view'[t].status = "sent"
      PROVE  copies'[t] >= 1
  <2>1. copies[t] \in Nat /\ copies'[t] \in {copies[t], copies[t] + 1}
    BY CopiesStep
  <2>2. copies[t] >= 1
    <3>1. CASE rows[t].status = "sent" \/ view[t].status = "sent"
      BY <3>1 DEF SentInv
    <3>2. CASE view'[t].status = "sent" /\ view[t].status # "sent" /\ rows[t].status # "sent"
      BY <3>2, ViewStep DEF SentInv
    <3> QED
      BY <1>1, <3>1, <3>2, RowsStep
  <2> QED
    BY <2>1, <2>2
<1> QED
  BY <1>1, RecordStep DEF SentInv

\* No row says anything at first.
LEMMA InitSent == Init => SentInv
<1> QED
  BY DEF Init, SentInv, NoRow

----------------------------------------------------------------------------
(* Sends after the channel was closed *)

\* At most one alert has been sent since the channel was closed, and it is
\* the one in work while there is one.
LeakInv ==
  /\ \A s, t \in leaked : s = t
  /\ Closed /\ pc \in {"post", "record", "give up"} => leaked \subseteq {Current}

\* Nothing has leaked at first.
LEMMA InitLeak == Init => LeakInv
<1> QED
  BY DEF Init, LeakInv

\* Only the alert in work slips through.
LEMMA NextLeak == WorkInv /\ LeakInv /\ [Next]_vars => LeakInv'
<1> SUFFICES ASSUME WorkInv, LeakInv, [Next]_vars PROVE LeakInv'
  OBVIOUS
<1> USE DEF LeakInv
<1>1. CASE Mute \/ Unmute \/ Snooze \/ SnoozeEnds
  <2>1. /\ leaked' = IF Closed THEN leaked ELSE {}
        /\ pc' = pc /\ batch' = batch
    BY <1>1 DEF Mute, Unmute, Snooze, SnoozeEnds, Switch, workVars
  <2> QED
    BY <2>1 DEF Current
<1>2. CASE Post \/ PostFails
  <2>1. /\ \/ leaked' = leaked
           \/ leaked' = IF Closed THEN leaked \cup {Current} ELSE leaked
        /\ channel' = channel /\ batch' = batch /\ pc = "post"
    BY <1>2 DEF Post, PostFails, Sent, dataVars, workVars, ghostVars
  <2> QED
    BY <2>1 DEF Current, Closed
<1>3. CASE /\ leaked' = leaked
           /\ \/ pc' \notin {"post", "record", "give up"}
              \/ ~Closed'
              \/ /\ channel' = channel /\ batch' = batch
                 /\ pc \in {"post", "record", "give up"}
  BY <1>3 DEF Current, Closed
<1>4. CASE Raise \/ UNCHANGED vars
  <2>1. UNCHANGED <<leaked, channel, batch, pc>>
    BY <1>4 DEF Raise, vars, dataVars, workVars, ghostVars
  <2> QED
    BY <2>1 DEF Current, Closed
<1>5. CASE Start \/ Digest \/ List \/ DigestPostFails
  BY <1>3, <1>5
  DEF Start, Digest, DigestPost, DigestMark, CommitDigest, Commit, List,
      DigestPostFails, RollBack, ghostVars
<1>6. CASE CheckClosed \/ CheckOpen \/ Record \/ RecordFails \/ GiveUp
  BY <1>3, <1>6
  DEF CheckClosed, CheckOpen, Record, RecordFails, GiveUp, Return, dataVars,
      ghostVars, Closed
<1>7. CASE CommitBatch \/ CommitUnacknowledged \/ LoopDies \/ Interrupt
  BY <1>3, <1>7
  DEF CommitBatch, Commit, CommitUnacknowledged, LoopDies, Interrupt, RollBack, ghostVars
<1> QED
  BY <1>1, <1>2, <1>4, <1>5, <1>6, <1>7 DEF Next, Step, Digest, SendAlert

----------------------------------------------------------------------------
(* Copies in the chat *)

Allowance == Attempts * faults

\* The alerts that are in the chat by right: their row says so, or is about
\* to say so.
Settled(t) ==
  \/ rows[t].status \in Terminal
  \/ view[t].status \in Terminal
  \/ pc = "record" /\ t = Current
  \/ pc = "digest mark" /\ t \in batch

\* Every failure pays for Attempts copies; a settled alert has one more.
CopyBound ==
  \A t \in Alerts : /\ copies[t] <= Allowance + 1
                    /\ ~Settled(t) => copies[t] <= Allowance

\* What is left of that in later attempts to send an alert.
AttemptBound ==
  /\ pc = "post" => \/ attempt = 1
                    \/ Current \in Undeliverable
                    \/ copies[Current] + Attempts <= Allowance + attempt - 1
  /\ pc = "record" => \/ attempt = 1
                      \/ copies[Current] + Attempts <= Allowance + attempt

\* What a broken session wrote does not count: it will be rolled back.
BrokenBound ==
  broken => \A t \in Alerts : rows[t].status \in Terminal \/ copies[t] <= Allowance

CopyInv == CopyBound /\ AttemptBound /\ BrokenBound

\* A failure pays for Attempts copies.
LEMMA AllowanceStep ==
  ASSUME WorkInv
  PROVE  /\ Allowance \in Nat
         /\ UNCHANGED faults => Allowance' = Allowance
         /\ Fault => Allowance' = Allowance + Attempts
<1>1. faults \in Nat /\ Attempts \in Nat
  BY Types, Sizes DEF WorkInv
<1>2. Allowance \in Nat
  BY <1>1 DEF Allowance
<1>3. Attempts * (faults + 1) = Attempts * faults + Attempts
  BY <1>1
<1> QED
  BY <1>2, <1>3 DEF Allowance, Fault

\* Every step is a failure or none.
LEMMA FaultOrNot == [Next]_vars => Fault \/ UNCHANGED faults
<1> SUFFICES ASSUME [Next]_vars PROVE Fault \/ UNCHANGED faults
  OBVIOUS
<1>1. CASE Raise \/ Mute \/ Unmute \/ Snooze \/ SnoozeEnds \/ UNCHANGED vars
  BY <1>1 DEF Raise, Mute, Unmute, Snooze, SnoozeEnds, Switch, vars
<1>2. CASE Start \/ Digest \/ List \/ DigestPostFails
  BY <1>2 DEF Start, Digest, DigestPost, DigestMark, CommitDigest, Commit, List,
              DigestPostFails
<1>3. CASE SendAlert
  BY <1>3, Zenon DEF SendAlert, CheckClosed, CheckOpen, Post, PostFails, Record,
              RecordFails, GiveUp
<1>4. CASE CommitBatch \/ CommitUnacknowledged \/ LoopDies \/ Interrupt
  BY <1>4, Zenon DEF CommitBatch, Commit, CommitUnacknowledged, LoopDies, Interrupt
<1> QED
  BY <1>1, <1>2, <1>3, <1>4 DEF Next, Step

\* Only alerts that are not settled are sent.
LEMMA CopiesGrow ==
  ASSUME WorkInv, CopyInv, [Next]_vars, NEW t \in Alerts
  PROVE  copies'[t] <= Allowance + 1
<1>1. /\ copies[t] \in Nat /\ Allowance \in Nat
      /\ copies'[t] \in {copies[t], copies[t] + 1}
      /\ copies'[t] # copies[t] => t \in batch /\ pc \in {"post", "digest post"}
  BY CopiesStep, AllowanceStep
<1>2. CASE copies'[t] = copies[t]
  BY <1>2 DEF CopyInv, CopyBound
<1>3. CASE t \in batch /\ pc \in {"post", "digest post"}
  <2>1. ~Settled(t)
    BY <1>3 DEF WorkInv, BatchInv, Settled
  <2>2. copies[t] <= Allowance
    BY <2>1 DEF CopyInv, CopyBound
  <2>3. CASE copies'[t] = copies[t] + 1
    <3>1. copies[t] \in Nat /\ Allowance \in Nat
      BY <1>1
    <3>2. copies[t] + 1 <= Allowance + 1
      BY <2>2, <3>1
    <3> QED
      BY <2>3, <3>2, Zenon
  <2> QED
    BY <1>1, <1>2, <2>3, Zenon
<1> QED
  BY <1>1, <1>2, <1>3

\* After a failure every alert is within its allowance.
LEMMA FaultBound ==
  ASSUME WorkInv, CopyInv, [Next]_vars, Fault, NEW t \in Alerts
  PROVE  copies'[t] <= Allowance'
<1>1. copies'[t] \in Nat
  BY NextWork, Zenon DEF WorkInv, TypeOK
<1>2. copies'[t] <= Allowance + 1
  BY CopiesGrow
<1>3. Allowance' = Allowance + Attempts /\ Allowance \in Nat
  BY AllowanceStep
<1> QED
  BY <1>1, <1>2, <1>3, Sizes

\* Without a failure only a settled alert has more than its allowance.
LEMMA SettledStep ==
  ASSUME WorkInv, CopyInv, [Next]_vars, UNCHANGED faults,
         NEW t \in Alerts, ~Settled(t)'
  PROVE  copies'[t] <= Allowance
<1>1. CASE copies' = copies /\ (Settled(t) => Settled(t)')
  BY <1>1 DEF CopyInv, CopyBound
<1>2. CASE Raise \/ Mute \/ Unmute \/ Snooze \/ SnoozeEnds \/ UNCHANGED vars
  <2>1. UNCHANGED <<rows, view, pc, batch, copies>>
    BY <1>2 DEF Raise, Mute, Unmute, Snooze, SnoozeEnds, Switch, vars, workVars, ghostVars
  <2> QED
    BY <1>1, <2>1 DEF Settled, Current
<1>3. CASE Start \/ DigestMark
  <2>1. ASSUME NEW B, NEW status \in Terminal, UpsertBatch(B, status)
        PROVE  /\ view'[t] = view[t] \/ view'[t].status \in Terminal
               /\ t \in B => view'[t].status \in Terminal
    <3>1. view'[t] = IF t \in B THEN [status |-> status, messageId |-> FALSE] ELSE view[t]
      BY <2>1 DEF UpsertBatch
    <3> QED
      BY <2>1, <3>1
  <2>2. CASE Start
    <3>1. view' = view \/ \E B : UpsertBatch(B, "snoozed")
      BY <2>2 DEF Start
    <3>2. view'[t] = view[t] \/ view'[t].status \in Terminal
      BY <2>1, <3>1 DEF Terminal
    <3> QED
      BY <1>1, <2>2, <3>2 DEF Start, Settled, ghostVars
  <2>3. CASE DigestMark
    BY <1>1, <2>1, <2>3 DEF DigestMark, Settled, Terminal, ghostVars
  <2> QED
    BY <1>3, <2>2, <2>3
<1>4. CASE CommitDigest \/ CommitBatch
  BY <1>1, <1>4
  DEF CommitDigest, CommitBatch, Commit, Settled, WorkInv, BatchInv, ghostVars
<1>5. CASE CheckClosed \/ Record \/ GiveUp
  <2>1. ASSUME NEW status, NEW messageId, Upsert(Current, status, messageId)
        PROVE  /\ t # Current => view'[t] = view[t]
               /\ t = Current => view'[t].status = status
    <3>1. view \in [Alerts -> Row \cup {NoRow}]
      BY Types DEF WorkInv
    <3>2. view'[t] = IF t = Current THEN [status |-> status, messageId |-> messageId]
                     ELSE view[t]
      BY <2>1, <3>1 DEF Upsert
    <3> QED
      BY <3>2
  <2>2. CASE CheckClosed \/ Record
    BY <1>1, <2>1, <2>2 DEF CheckClosed, Record, Settled, Terminal, ghostVars
  <2>3. CASE GiveUp
    <3>1. Current \in batch /\ copies' = copies /\ rows' = rows /\ pc = "give up"
      BY <2>3, CurrentInBatch DEF GiveUp, ghostVars, WorkInv, BatchInv, InWork
    <3>2. view[Current].status \notin Terminal
      BY <3>1 DEF WorkInv, BatchInv
    <3> QED
      BY <1>1, <2>1, <2>3, <3>1, <3>2 DEF GiveUp, Settled
  <2> QED
    BY <1>5, <2>2, <2>3
<1>6. CASE CheckOpen \/ List
  BY <1>1, <1>6 DEF CheckOpen, List, Settled, ghostVars
<1>7. CASE Post
  <2>1. pc' = "record" /\ pc = "post" /\ Current' = Current /\ rows' = rows /\ view' = view
    BY <1>7 DEF Post, workVars, Current
  <2>2. t # Current
    BY <2>1 DEF Settled
  <2>3. copies'[t] = copies[t]
    BY <1>7, <2>2, Types DEF Post, Sent, WorkInv
  <2> QED
    BY <2>1, <2>2, <2>3 DEF Settled, CopyInv, CopyBound
<1>8. CASE DigestPost
  <2>1. /\ pc' = "digest mark" /\ pc = "digest post" /\ batch' = batch
        /\ rows' = rows /\ view' = view
    BY <1>8 DEF DigestPost, workVars
  <2>2. t \notin batch
    BY <2>1 DEF Settled
  <2>3. copies[t] \in Nat /\ copies'[t] = copies[t]
    BY <2>2, CopiesStep
  <2> QED
    BY <2>1, <2>2, <2>3 DEF Settled, CopyInv, CopyBound
<1>9. CASE PostFails
  <2>1. /\ copies' = copies /\ rows' = rows /\ view' = view /\ pc = "post"
        /\ pc' \in {"post", "give up"}
    <3>1. faults \in Nat
      BY Types DEF WorkInv
    <3>2. ~Fault
      BY <3>1 DEF Fault
    <3> QED
      BY <1>9, <3>2 DEF PostFails, Retry, ghostVars
  <2> QED
    BY <1>1, <2>1 DEF Settled
<1>10. CASE RecordFails
  <2>1. /\ copies' = copies /\ rows' = rows /\ view' = view /\ pc = "record" /\ broken
    <3>1. faults \in Nat
      BY Types DEF WorkInv
    <3>2. ~Fault
      BY <3>1 DEF Fault
    <3> QED
      BY <1>10, <3>2 DEF RecordFails, ghostVars
  <2>2. CASE t = Current
    <3>1. attempt \in 1..Attempts /\ attempt # 1
      BY <2>1, Sizes DEF WorkInv, AttemptInv
    <3>2. copies[t] + Attempts <= Allowance + attempt
      BY <2>1, <2>2, <3>1 DEF CopyInv, AttemptBound
    <3>3. copies[t] \in Nat /\ Allowance \in Nat
      BY Types, AllowanceStep DEF WorkInv
    <3>4. copies[t] <= Allowance
      BY <3>1, <3>2, <3>3, Sizes
    <3> QED
      BY <2>1, <3>4
  <2>3. CASE t # Current
    BY <1>1, <2>1, <2>3 DEF Settled
  <2> QED
    BY <2>2, <2>3
<1>11. CASE LoopDies
  <2>1. /\ copies' = copies /\ rows' = rows /\ broken
    <3>1. faults \in Nat
      BY Types DEF WorkInv
    <3>2. ~Fault
      BY <3>1 DEF Fault
    <3> QED
      BY <1>11, <3>2 DEF LoopDies, ghostVars
  <2> QED
    BY <2>1 DEF Settled, CopyInv, BrokenBound
<1>12. CASE DigestPostFails \/ CommitUnacknowledged \/ Interrupt
  <2>1. Fault
    BY <1>12 DEF DigestPostFails, CommitUnacknowledged, Interrupt
  <2> QED
    BY <2>1, Types DEF Fault, WorkInv
<1> QED
  BY <1>2, <1>3, <1>4, <1>5, <1>6, <1>7, <1>8, <1>9, <1>10, <1>11, <1>12
  DEF Next, Step, Digest, SendAlert

\* An attempt that fails is paid for by a failure, or is one of those left.
LEMMA AttemptStep ==
  ASSUME WorkInv, CopyInv, [Next]_vars
  PROVE  AttemptBound'
<1>1. /\ UNCHANGED faults => Allowance' = Allowance
      /\ Fault => Allowance' = Allowance + Attempts
  BY AllowanceStep
<1>0. Allowance \in Nat /\ Attempts \in Nat /\ Attempts >= 1
  BY AllowanceStep, Sizes
<1>2. CASE pc' \notin {"post", "record"}
  BY <1>2 DEF AttemptBound
<1>3. CASE UNCHANGED <<pc, batch, attempt, faults, copies>>
  BY <1>1, <1>3 DEF CopyInv, AttemptBound, Current
<1>4. CASE CheckOpen
  BY <1>4 DEF CheckOpen, AttemptBound
<1>5. CASE Post
  <2>1. /\ pc = "post" /\ pc' = "record" /\ Current' = Current
        /\ attempt' = attempt /\ faults' = faults /\ Current \notin Undeliverable
    BY <1>5 DEF Post, workVars, Current
  <2>2. attempt = 1 \/ copies[Current] + Attempts <= Allowance + attempt - 1
    BY <2>1 DEF CopyInv, AttemptBound
  <2>3. /\ Current \in Alerts /\ copies[Current] \in Nat /\ attempt \in Nat
        /\ copies'[Current] = copies[Current] + 1
    <3>1. Current \in Alerts
      BY <2>1, CurrentInBatch DEF WorkInv, BatchInv, InWork
    <3> QED
      BY <1>5, <3>1, Types DEF Post, Sent, WorkInv
  <2>4. attempt = 1 \/ copies[Current] + 1 + Attempts <= Allowance + attempt
    BY <1>0, <2>2, <2>3
  <2>5. attempt = 1 \/ copies'[Current] + Attempts <= Allowance + attempt
    BY <2>3, <2>4, Zenon
  <2> QED
    BY <1>1, <2>1, <2>5 DEF AttemptBound
<1>6. CASE PostFails /\ Current \in Undeliverable
  BY <1>6 DEF PostFails, Retry, AttemptBound, Current
<1>7. CASE Fault /\ (PostFails \/ RecordFails)
  <2>1. /\ pc' \in {"post", "give up"} /\ attempt' = attempt + 1 /\ Current' = Current
        /\ pc \in {"post", "record"}
    BY <1>7, Zenon DEF PostFails, RecordFails, Retry, Current
  <2>6. attempt \in Nat /\ attempt >= 1
    <3>1. attempt \in 1..Attempts
      BY <2>1 DEF WorkInv, AttemptInv
    <3> QED
      BY <1>0, <3>1
  <2>2. Current \in Alerts
    BY <2>1, CurrentInBatch DEF WorkInv, BatchInv, InWork
  <2>3. copies'[Current] \in Nat /\ copies'[Current] <= Allowance + 1
    <3>1. copies'[Current] <= Allowance + 1
      BY <2>2, CopiesGrow
    <3>2. copies' \in [Alerts -> Nat]
      BY NextWork, Zenon DEF WorkInv, TypeOK
    <3> QED
      BY <2>2, <3>1, <3>2
  <2>4. copies'[Current] + Attempts <= Allowance + Attempts + (attempt + 1) - 1
    BY <1>0, <2>3, <2>6
  <2>5. copies'[Current'] + Attempts <= Allowance' + attempt' - 1
    BY <1>1, <1>7, <2>1, <2>4, Zenon
  <2> QED
    BY <2>1, <2>5 DEF AttemptBound
<1>8. CASE RecordFails /\ UNCHANGED faults
  <2>1. /\ pc' \in {"post", "give up"} /\ attempt' = attempt + 1 /\ Current' = Current
        /\ pc = "record" /\ copies' = copies
    BY <1>8, Zenon DEF RecordFails, Retry, Current, ghostVars
  <2>2. broken /\ attempt >= 2
    <3>1. faults \in Nat /\ ~Fault
      BY <1>8, Types DEF Fault, WorkInv
    <3> QED
      BY <1>8, <3>1 DEF RecordFails, WorkInv, AttemptInv
  <2>6. attempt \in Nat
    BY Types DEF WorkInv
  <2>7. attempt # 1
    BY <2>2, <2>6
  <2>3. copies[Current] + Attempts <= Allowance + attempt
    BY <2>1, <2>7, Zenon DEF CopyInv, AttemptBound
  <2>4. Allowance + attempt = Allowance + (attempt + 1) - 1
    BY <1>0, <2>6
  <2>5. copies'[Current'] + Attempts <= Allowance' + attempt' - 1
    BY <1>1, <1>8, <2>1, <2>3, <2>4, Zenon
  <2> QED
    BY <2>1, <2>5 DEF AttemptBound
<1>9. CASE Raise \/ Mute \/ Unmute \/ Snooze \/ SnoozeEnds \/ UNCHANGED vars
  BY <1>3, <1>9
  DEF Raise, Mute, Unmute, Snooze, SnoozeEnds, Switch, vars, workVars, ghostVars
<1>10. CASE Start \/ Digest \/ List \/ DigestPostFails
  BY <1>2, <1>10
  DEF Start, Digest, DigestPost, DigestMark, CommitDigest, Commit, List,
      DigestPostFails, RollBack
<1>11. CASE CheckClosed \/ Record \/ GiveUp
  BY <1>2, <1>11 DEF CheckClosed, Record, GiveUp, Return
<1>12. CASE CommitBatch \/ CommitUnacknowledged \/ LoopDies \/ Interrupt
  BY <1>2, <1>12
  DEF CommitBatch, Commit, CommitUnacknowledged, LoopDies, Interrupt, RollBack
<1>13. CASE PostFails \/ RecordFails
  BY <1>6, <1>7, <1>8, <1>13, FaultOrNot DEF PostFails
<1> QED
  BY <1>4, <1>5, <1>9, <1>10, <1>11, <1>12, <1>13
  DEF Next, Step, Digest, SendAlert

\* A session breaks by a failure; what it sends later is paid for.
LEMMA BrokenStep ==
  ASSUME WorkInv, CopyInv, [Next]_vars
  PROVE  BrokenBound'
<1>1. CASE Fault
  BY <1>1, FaultBound DEF BrokenBound
<1>2. CASE UNCHANGED faults
  <2>1. Allowance' = Allowance /\ ~Fault
    BY <1>2, AllowanceStep, Types DEF Fault, WorkInv
  <2>2. CASE ~broken'
    BY <2>2 DEF BrokenBound
  <2>3. CASE broken' /\ copies' = copies /\ rows' = rows /\ broken
    BY <2>1, <2>3 DEF CopyInv, BrokenBound
  <2>4. CASE Post /\ broken
    <3>1. /\ pc = "post" /\ rows' = rows /\ Current \notin Undeliverable
          /\ Current \in Alerts
      BY <2>4, CurrentInBatch DEF Post, WorkInv, BatchInv, InWork
    <3>2. attempt \in 1..Attempts /\ attempt # 1
      BY <2>4, <3>1 DEF WorkInv, AttemptInv
    <3>3. copies[Current] + Attempts <= Allowance + attempt - 1
      BY <3>1, <3>2 DEF CopyInv, AttemptBound
    <3>4. copies \in [Alerts -> Nat] /\ Allowance \in Nat
      BY Types, AllowanceStep DEF WorkInv
    <3>5. copies[Current] + 1 <= Allowance
      <4>1. copies[Current] \in Nat
        BY <3>1, <3>4
      <4> QED
        BY <3>2, <3>3, <3>4, <4>1, Sizes
    <3>6. copies' = [copies EXCEPT ![Current] = @ + 1]
      BY <2>4 DEF Post, Sent
    <3>7. ASSUME NEW t \in Alerts, rows[t].status \notin Terminal
          PROVE  copies'[t] <= Allowance
      <4>1. CASE t = Current
        <5>1. copies'[t] = copies[Current] + 1
          BY <3>1, <3>4, <3>6, <4>1
        <5> QED
          BY <3>5, <5>1, Zenon
      <4>2. CASE t # Current
        BY <2>4, <3>4, <3>6, <3>7, <4>2 DEF CopyInv, BrokenBound
      <4> QED
        BY <4>1, <4>2
    <3> QED
      BY <2>1, <3>1, <3>7 DEF BrokenBound
  <2>5. CASE SendAlert
    <3>1. CASE Post
      BY <2>2, <2>4, <3>1 DEF Post, workVars, WorkInv, TypeOK
    <3>2. CASE PostFails
      BY <1>2, <2>1, <2>2, <2>3, <3>2, Zenon
      DEF PostFails, ghostVars, WorkInv, TypeOK
    <3>3. CASE RecordFails
      BY <2>1, <2>3, <3>3 DEF RecordFails, ghostVars
    <3>4. CASE CheckClosed \/ CheckOpen \/ Record \/ GiveUp
      BY <2>2, <3>4 DEF CheckClosed, CheckOpen, Record, GiveUp, WorkInv, AttemptInv
    <3> QED
      BY <2>5, <3>1, <3>2, <3>3, <3>4 DEF SendAlert
  <2>6. CASE Raise \/ Mute \/ Unmute \/ Snooze \/ SnoozeEnds \/ UNCHANGED vars
    <3>1. UNCHANGED <<rows, copies, broken>>
      BY <2>6 DEF Raise, Mute, Unmute, Snooze, SnoozeEnds, Switch, vars, workVars, ghostVars
    <3> QED
      BY <2>2, <2>3, <3>1
  <2>7. CASE Start \/ Digest \/ List \/ CommitBatch
    <3>1. ~broken /\ broken' = broken
      BY <2>7
      DEF Start, Digest, DigestPost, DigestMark, CommitDigest, CommitBatch, Commit,
          List, workVars, WorkInv, AttemptInv
    <3> QED
      BY <2>2, <3>1
  <2>8. CASE DigestPostFails \/ CommitUnacknowledged \/ Interrupt
    BY <2>1, <2>8 DEF DigestPostFails, CommitUnacknowledged, Interrupt
  <2>9. CASE LoopDies
    BY <2>2, <2>9 DEF LoopDies, RollBack
  <2> QED
    BY <2>5, <2>6, <2>7, <2>8, <2>9 DEF Next, Step
<1> QED
  BY <1>1, <1>2, FaultOrNot

\* Nothing has been sent at first.
LEMMA InitCopy == Init => CopyInv
<1> SUFFICES ASSUME Init PROVE CopyInv
  OBVIOUS
<1>1. Allowance \in Nat
  BY InitWork, AllowanceStep
<1>2. CopyBound
  BY <1>1 DEF Init, CopyBound
<1>3. AttemptBound /\ BrokenBound
  BY DEF Init, AttemptBound, BrokenBound
<1> QED
  BY <1>2, <1>3 DEF CopyInv

\* The copies are preserved by every step.
LEMMA NextCopy == WorkInv /\ CopyInv /\ [Next]_vars => CopyInv'
<1> SUFFICES ASSUME WorkInv, CopyInv, [Next]_vars PROVE CopyInv'
  OBVIOUS
<1>1. CopyBound'
  <2>1. ASSUME NEW t \in Alerts
        PROVE  /\ copies'[t] <= Allowance' + 1
               /\ ~Settled(t)' => copies'[t] <= Allowance'
    <3>1. CASE Fault
      <4>1. copies'[t] <= Allowance'
        BY <3>1, FaultBound
      <4>2. copies'[t] \in Nat /\ Allowance' \in Nat
        <5>1. copies'[t] \in Nat
          BY NextWork, Zenon DEF WorkInv, TypeOK
        <5>2. Allowance \in Nat /\ Allowance' = Allowance + Attempts
          BY <3>1, AllowanceStep
        <5> QED
          BY <5>1, <5>2, Sizes
      <4>3. copies'[t] <= Allowance' + 1
        BY <4>1, <4>2
      <4> QED
        BY <4>1, <4>3
    <3>2. CASE UNCHANGED faults
      <4>1. Allowance' = Allowance
        BY <3>2, AllowanceStep
      <4>2. copies'[t] <= Allowance + 1
        BY CopiesGrow
      <4>3. ~Settled(t)' => copies'[t] <= Allowance
        BY <3>2, SettledStep
      <4> QED
        BY <4>1, <4>2, <4>3, Zenon
    <3> QED
      BY <3>1, <3>2, FaultOrNot
  <2> QED
    BY <2>1 DEF CopyBound
<1> QED
  BY <1>1, AttemptStep, BrokenStep DEF CopyInv

----------------------------------------------------------------------------
(* The theorems *)

\* The conjunction of the inductive parts.
IInv == WorkInv /\ SentInv /\ LeakInv /\ CopyInv

\* IInv holds in every state the worker reaches.
THEOREM InductiveInvariant == Spec => []IInv
<1>1. Init => IInv
  BY InitWork, InitSent, InitLeak, InitCopy DEF IInv
<1>2. IInv /\ [Next]_vars => IInv'
  BY NextWork, NextSent, NextLeak, NextCopy DEF IInv
<1> QED
  BY <1>1, <1>2, PTL DEF Spec

\* A batch never exceeds the limit of its query, attempts are counted within
\* their number, and every variable keeps its type.
THEOREM TypeCorrect == Spec => []TypeOK
<1>1. IInv => TypeOK
  BY DEF IInv, WorkInv
<1> QED
  BY <1>1, InductiveInvariant, PTL

\* Whatever fails, a row that is committed as sent is about an alert that is
\* in the chat: the upsert follows the send in the same transaction.
THEOREM SentRowsAreTrue == Spec => []SentWasDelivered
<1>1. IInv => SentWasDelivered
  BY DEF IInv, SentInv, SentWasDelivered
<1> QED
  BY <1>1, InductiveInvariant, PTL

\* However often the channel is closed and opened, at most one alert slips
\* through the poller after it was closed: the one in work.
THEOREM MuteLeaksAtMostOne == Spec => []MuteLeaksOneSend
<1>1. ASSUME LeakInv PROVE MuteLeaksOneSend
  <2>1. CASE leaked = {}
    BY <2>1, FS_EmptySet DEF MuteLeaksOneSend
  <2>2. CASE leaked # {}
    <3>1. PICK t \in leaked : leaked = {t}
      BY <1>1, <2>2 DEF LeakInv
    <3>2. Cardinality({t}) = 1
      BY FS_Singleton
    <3> QED
      BY <3>1, <3>2 DEF MuteLeaksOneSend
  <2> QED
    BY <2>1, <2>2
<1>2. IInv => MuteLeaksOneSend
  BY <1>1 DEF IInv
<1> QED
  BY <1>2, InductiveInvariant, PTL

\* An alert appears in the chat once, and again at most as often as failures
\* times attempts allow.
THEOREM CopiesBounded == Spec => []CopiesBoundedByFaults
<1>1. ASSUME IInv PROVE CopiesBoundedByFaults
  <2>1. ASSUME NEW t \in Alerts PROVE copies[t] <= 1 + Allowance
    <3>1. copies[t] <= Allowance + 1 /\ Allowance \in Nat
      BY <1>1, AllowanceStep DEF IInv, CopyInv, CopyBound
    <3>2. Allowance + 1 = 1 + Allowance
      BY <3>1
    <3> QED
      BY <3>1, <3>2, Zenon
  <2> QED
    BY <2>1 DEF CopiesBoundedByFaults, Allowance
<1>2. IInv => CopiesBoundedByFaults
  BY <1>1
<1> QED
  BY <1>2, InductiveInvariant, PTL

\* Once a terminal row is committed neither the row nor the number of its
\* messages changes any more, whatever the operator does and whatever fails.
THEOREM TerminalRowsAreFinal == Spec => TerminalIsFinal
<1>1. ASSUME IInv, [Next]_vars, NEW t \in Alerts, rows[t].status \in Terminal
      PROVE  rows'[t] = rows[t] /\ copies'[t] = copies[t]
  <2>1. WorkInv /\ t \notin batch /\ view[t] = rows[t]
    BY <1>1 DEF IInv, WorkInv, BatchInv
  <2> QED
    BY <1>1, <2>1, CopiesStep, RowsStep
<1>2. IInv /\ [Next]_vars =>
        [\A t \in Alerts : rows[t].status \in Terminal =>
           rows'[t] = rows[t] /\ copies'[t] = copies[t]]_vars
  BY <1>1
<1> QED
  BY <1>2, InductiveInvariant, PTL DEF Spec, TerminalIsFinal

----------------------------------------------------------------------------
(* The refinement *)

\* An alert's phase before and after a step.
LEMMA PhaseValues ==
  ASSUME NEW t \in Alerts
  PROVE  /\ phaseOf[t] = IF rows[t].status \in Terminal THEN "settled"
                         ELSE IF t \in Handed THEN "handed" ELSE "open"
         /\ phaseOf'[t] = IF rows'[t].status \in Terminal THEN "settled"
                          ELSE IF t \in Handed' THEN "handed" ELSE "open"
         /\ t \in Handed <=> \/ view[t].status = "sent"
                             \/ pc = "record" /\ t = Current
                             \/ pc = "digest mark" /\ t \in batch
         /\ t \in Handed' <=> \/ view'[t].status = "sent"
                              \/ pc' = "record" /\ t = Current'
                              \/ pc' = "digest mark" /\ t \in batch'
BY DEF phaseOf, Handed

\* What a step does to one alert.
Keeps(t) == phaseOf'[t] = phaseOf[t] /\ copies'[t] = copies[t]
Hands(t) ==
  /\ phaseOf[t] = "open" /\ phaseOf'[t] = "handed"
  /\ copies'[t] \in {copies[t], copies[t] + 1}
Repeats(t) ==
  /\ phaseOf[t] = "open" /\ phaseOf'[t] = "open"
  /\ copies'[t] \in {copies[t], copies[t] + 1}
Forgets(t) ==
  /\ phaseOf[t] = "handed" /\ phaseOf'[t] = "open" /\ copies'[t] = copies[t]
Settles(t) ==
  /\ phaseOf[t] \in {"open", "handed"} /\ phaseOf'[t] = "settled"
  /\ copies'[t] = copies[t]

\* The functions after a step.
LEMMA PrimedFunctions ==
  ASSUME TypeOK'
  PROVE  /\ phaseOf' = [t \in Alerts |-> phaseOf'[t]]
         /\ copies' = [t \in Alerts |-> copies'[t]]
<1>1. copies' = [t \in Alerts |-> copies'[t]]
  BY DEF TypeOK
<1>2. phaseOf' = [t \in Alerts |-> phaseOf'[t]]
  BY DEF phaseOf
<1> QED
  BY <1>1, <1>2

\* A step that keeps every alert is a stutter.
LEMMA AllKeep ==
  ASSUME TypeOK, TypeOK', \A t \in Alerts : Keeps(t)
  PROVE  UNCHANGED Promise!absvars
<1>1. /\ phaseOf = [t \in Alerts |-> phaseOf[t]] /\ copies = [t \in Alerts |-> copies[t]]
  BY DEF phaseOf, TypeOK
<1> QED
  BY <1>1, PrimedFunctions DEF Keeps, Promise!absvars

\* A step that hands some alerts over.
LEMMA AllHand ==
  ASSUME TypeOK, TypeOK', \A t \in Alerts : Keeps(t) \/ Hands(t)
  PROVE  Promise!HandOver
<1> DEFINE S == {t \in Alerts : Hands(t)}
           R == {t \in S : copies'[t] # copies[t]}
<1>1. S \in SUBSET Promise!In("open") /\ R \in SUBSET S
  BY DEF Hands, Promise!In
<1>2. phaseOf' = [t \in Alerts |-> IF t \in S THEN "handed" ELSE phaseOf[t]]
  BY PrimedFunctions DEF Hands, Keeps
<1>3. copies' = [t \in Alerts |-> IF t \in R THEN copies[t] + 1 ELSE copies[t]]
  BY PrimedFunctions DEF Hands, Keeps
<1>4. Promise!Into("handed", S) /\ Promise!Shown(R)
  BY <1>2, <1>3, Zenon DEF Promise!Into, Promise!Shown
<1> QED
  BY <1>1, <1>4, Zenon DEF Promise!HandOver

\* A step that repeats or forgets some alerts.
LEMMA AllFault ==
  ASSUME TypeOK, TypeOK', \A t \in Alerts : Keeps(t) \/ Repeats(t) \/ Forgets(t)
  PROVE  Promise!Fault
<1> DEFINE R == {t \in Alerts : Repeats(t) /\ copies'[t] # copies[t]}
           S == {t \in Alerts : Forgets(t)}
<1>1. R \in SUBSET Promise!In("open") /\ S \in SUBSET Promise!In("handed")
  BY DEF Repeats, Forgets, Promise!In
<1>2. phaseOf' = [t \in Alerts |-> IF t \in S THEN "open" ELSE phaseOf[t]]
  BY PrimedFunctions DEF Repeats, Forgets, Keeps
<1>3. copies' = [t \in Alerts |-> IF t \in R THEN copies[t] + 1 ELSE copies[t]]
  BY PrimedFunctions DEF Repeats, Forgets, Keeps
<1>4. Promise!Into("open", S) /\ Promise!Shown(R)
  BY <1>2, <1>3, Zenon DEF Promise!Into, Promise!Shown
<1> QED
  BY <1>1, <1>4, Zenon DEF Promise!Fault

\* A step that settles some alerts.
LEMMA AllSettle ==
  ASSUME TypeOK, TypeOK', \A t \in Alerts : Keeps(t) \/ Settles(t)
  PROVE  Promise!Settle
<1> DEFINE S == {t \in Alerts : Settles(t)}
<1>1. S \in SUBSET (Promise!In("open") \cup Promise!In("handed"))
  BY DEF Settles, Promise!In
<1>2. phaseOf' = [t \in Alerts |-> IF t \in S THEN "settled" ELSE phaseOf[t]]
  BY PrimedFunctions DEF Settles, Keeps
<1>3. copies' = copies
  <2>1. copies = [t \in Alerts |-> copies[t]] /\ \A t \in Alerts : copies'[t] = copies[t]
    BY DEF Settles, Keeps, TypeOK
  <2> QED
    BY <2>1, PrimedFunctions, Zenon
<1>4. Promise!Into("settled", S)
  BY <1>2, Zenon DEF Promise!Into
<1> QED
  BY <1>1, <1>3, <1>4, Zenon DEF Promise!Settle

\* What is in a batch and not yet sent is open.
LEMMA OpenInBatch ==
  ASSUME WorkInv, NEW t \in batch, pc \notin {"record", "digest mark"}
  PROVE  t \in Alerts /\ phaseOf[t] = "open" /\ t \notin Handed
<1>1. t \in Alerts
  BY Types DEF WorkInv
<1>2. rows[t].status \notin Terminal /\ view[t].status \notin Terminal
  BY DEF WorkInv, BatchInv
<1>3. t \notin Handed
  BY <1>1, <1>2, PhaseValues DEF Terminal
<1> QED
  BY <1>1, <1>2, <1>3, PhaseValues

\* The table and what left stay as they are: nothing to see.
LEMMA SameHanded ==
  ASSUME WorkInv, TypeOK', UNCHANGED <<rows, copies>>,
         \A t \in Alerts : t \in Handed' <=> t \in Handed
  PROVE  UNCHANGED Promise!absvars
<1>1. \A t \in Alerts : Keeps(t)
  BY PhaseValues, Zenon DEF Keeps
<1> QED
  BY <1>1, AllKeep DEF WorkInv

\* A transaction is committed, acknowledged or not.
LEMMA CommitSettles ==
  ASSUME WorkInv, TypeOK', pc \in {"digest commit", "check"},
         rows' = view, view' = view, copies' = copies, pc' \in {"idle", "dead", "down"}
  PROVE  Promise!Settle
<1>1. ASSUME NEW t \in Alerts PROVE Keeps(t) \/ Settles(t)
  <2>1. rows[t].status \in Terminal => view[t] = rows[t]
    BY DEF WorkInv, BatchInv
  <2>2. t \in Handed <=> view[t].status = "sent"
    BY PhaseValues
  <2>3. t \in Handed' <=> view[t].status = "sent"
    BY PhaseValues
  <2>4. phaseOf'[t] = IF view[t].status \in Terminal THEN "settled" ELSE "open"
    BY <2>3, PhaseValues DEF Terminal
  <2>5. phaseOf[t] = IF rows[t].status \in Terminal THEN "settled"
                     ELSE IF view[t].status = "sent" THEN "handed" ELSE "open"
    BY <2>2, PhaseValues
  <2> QED
    BY <2>1, <2>4, <2>5 DEF Keeps, Settles, Terminal
<1> QED
  BY <1>1, AllSettle DEF WorkInv

\* A transaction is rolled back.
LEMMA RollBackFaults ==
  ASSUME WorkInv, [Next]_vars, TypeOK', rows' = rows, view' = rows, pc' \in {"down", "dead"},
         pc \in {"post", "digest post"} \/ copies' = copies
  PROVE  Promise!Fault
<1>1. ASSUME NEW t \in Alerts PROVE Keeps(t) \/ Repeats(t) \/ Forgets(t)
  <2>1. phaseOf'[t] = IF rows[t].status \in Terminal THEN "settled" ELSE "open"
    BY PhaseValues DEF Terminal
  <2>2. CASE copies'[t] = copies[t]
    <3>1. phaseOf[t] = IF rows[t].status \in Terminal THEN "settled"
                       ELSE IF t \in Handed THEN "handed" ELSE "open"
      BY PhaseValues, Zenon
    <3>2. CASE rows[t].status \in Terminal
      BY <2>1, <2>2, <3>1, <3>2, Zenon DEF Keeps
    <3>3. CASE rows[t].status \notin Terminal /\ t \in Handed
      BY <2>1, <2>2, <3>1, <3>3, Zenon DEF Forgets
    <3>4. CASE rows[t].status \notin Terminal /\ t \notin Handed
      BY <2>1, <2>2, <3>1, <3>4, Zenon DEF Keeps
    <3> QED
      BY <3>2, <3>3, <3>4
  <2>3. CASE copies'[t] # copies[t]
    <3>1. /\ copies'[t] \in {copies[t], copies[t] + 1}
          /\ t \in batch /\ pc \in {"post", "digest post"}
      BY <2>3, CopiesStep
    <3>2. phaseOf[t] = "open" /\ rows[t].status \notin Terminal
      BY <3>1, OpenInBatch DEF WorkInv, BatchInv
    <3> QED
      BY <2>1, <3>1, <3>2 DEF Repeats
  <2> QED
    BY <2>2, <2>3
<1> QED
  BY <1>1, AllFault DEF WorkInv

\* A message is posted, or may have been.
LEMMA PostRefines ==
  ASSUME WorkInv, [Next]_vars, TypeOK', Post \/ DigestPost
  PROVE  Promise!HandOver
<1>1. /\ rows' = rows /\ view' = view /\ batch' = batch /\ Current' = Current
      /\ pc \in {"post", "digest post"}
  BY DEF Post, DigestPost, workVars, Current
<1>2. batch # {} /\ Current \in batch
  BY <1>1, CurrentInBatch DEF WorkInv, BatchInv, InWork
<1>3. ASSUME NEW t \in Alerts PROVE Keeps(t) \/ Hands(t)
  <2>1. copies'[t] \in {copies[t], copies[t] + 1}
    BY CopiesStep
  <2>2. CASE Post
    <3>1. pc' = "record" /\ pc = "post"
      BY <2>2 DEF Post
    <3>2. CASE t = Current
      <4>1. phaseOf[t] = "open" /\ rows[t].status \notin Terminal
        BY <1>2, <3>1, <3>2, OpenInBatch DEF WorkInv, BatchInv
      <4>2. phaseOf'[t] = "handed"
        BY <1>1, <3>1, <3>2, <4>1, PhaseValues
      <4> QED
        BY <2>1, <4>1, <4>2 DEF Hands
    <3>3. CASE t # Current
      <4>1. copies'[t] = copies[t]
        BY <2>2, <3>3, Types DEF Post, Sent, WorkInv
      <4>2. t \in Handed' <=> t \in Handed
        BY <1>1, <3>1, <3>3, PhaseValues
      <4> QED
        BY <1>1, <4>1, <4>2, PhaseValues, Zenon DEF Keeps
    <3> QED
      BY <3>2, <3>3
  <2>3. CASE DigestPost
    <3>1. pc' = "digest mark" /\ pc = "digest post"
      BY <2>3 DEF DigestPost
    <3>2. CASE t \in batch
      <4>1. phaseOf[t] = "open" /\ rows[t].status \notin Terminal
        BY <3>1, <3>2, OpenInBatch DEF WorkInv, BatchInv
      <4>2. phaseOf'[t] = "handed"
        BY <1>1, <3>1, <3>2, <4>1, PhaseValues
      <4> QED
        BY <2>1, <4>1, <4>2 DEF Hands
    <3>3. CASE t \notin batch
      <4>1. copies'[t] = copies[t]
        BY <3>3, CopiesStep
      <4>2. t \in Handed' <=> t \in Handed
        BY <1>1, <3>1, <3>3, PhaseValues
      <4> QED
        BY <1>1, <4>1, <4>2, PhaseValues, Zenon DEF Keeps
    <3> QED
      BY <3>2, <3>3
  <2> QED
    BY <2>2, <2>3
<1> QED
  BY <1>3, AllHand DEF WorkInv

\* A post that fails may have reached the chat all the same.
LEMMA PostFailsRefines ==
  ASSUME WorkInv, [Next]_vars, TypeOK', PostFails
  PROVE  Promise!Fault
<1>1. rows' = rows /\ view' = view /\ pc = "post" /\ pc' \in {"post", "give up"}
  BY DEF PostFails, Retry
<1>2. ASSUME NEW t \in Alerts PROVE Keeps(t) \/ Repeats(t)
  <2>1. t \in Handed' <=> t \in Handed
    BY <1>1, PhaseValues
  <2>2. phaseOf'[t] = phaseOf[t]
    BY <1>1, <2>1, PhaseValues, Zenon
  <2>3. CASE copies'[t] = copies[t]
    BY <2>2, <2>3 DEF Keeps
  <2>4. CASE copies'[t] # copies[t]
    <3>1. copies'[t] \in {copies[t], copies[t] + 1} /\ t \in batch
      BY <2>4, CopiesStep
    <3>2. phaseOf[t] = "open"
      BY <1>1, <3>1, OpenInBatch
    <3> QED
      BY <2>2, <3>1, <3>2 DEF Repeats
  <2> QED
    BY <2>3, <2>4
<1> QED
  BY <1>2, AllFault DEF WorkInv

\* The upsert raises: the message will be sent again.
LEMMA RecordFailsRefines ==
  ASSUME WorkInv, TypeOK', RecordFails
  PROVE  Promise!Fault
<1>1. /\ rows' = rows /\ view' = view /\ copies' = copies
      /\ pc = "record" /\ pc' \in {"post", "give up"}
  BY DEF RecordFails, Retry, ghostVars
<1>2. ASSUME NEW t \in Alerts PROVE Keeps(t) \/ Forgets(t)
  <2>1. /\ t \in Handed <=> view[t].status = "sent" \/ t = Current
        /\ t \in Handed' <=> view[t].status = "sent"
    BY <1>1, PhaseValues
  <2> QED
    BY <1>1, <2>1, PhaseValues DEF Keeps, Forgets
<1> QED
  BY <1>2, AllFault DEF WorkInv

\* Rows that are written into the open transaction show nothing: what was sent
\* is handed over already, what is snoozed or failed was not sent.
LEMMA WriteStutters ==
  ASSUME WorkInv, TypeOK', CheckClosed \/ Record \/ GiveUp
  PROVE  UNCHANGED Promise!absvars
<1>1. /\ UNCHANGED <<rows, copies>> /\ pc' = "check" /\ batch # {}
      /\ Current \in batch /\ pc \in {"check", "record", "give up"}
  BY CurrentInBatch
  DEF CheckClosed, Record, GiveUp, Return, ghostVars, WorkInv, BatchInv, InWork
<1>2. view[Current].status \notin Terminal
  BY <1>1 DEF WorkInv, BatchInv
<1>3. ASSUME NEW t \in Alerts PROVE t \in Handed' <=> t \in Handed
  <2>1. ASSUME NEW status, NEW messageId, Upsert(Current, status, messageId)
        PROVE  /\ t # Current => view'[t] = view[t]
               /\ t = Current => view'[t].status = status
    <3>1. view \in [Alerts -> Row \cup {NoRow}]
      BY Types DEF WorkInv
    <3>2. view'[t] = IF t = Current THEN [status |-> status, messageId |-> messageId]
                     ELSE view[t]
      BY <2>1, <3>1 DEF Upsert
    <3> QED
      BY <3>2
  <2>2. t \in Handed' <=> view'[t].status = "sent"
    BY <1>1, PhaseValues
  <2>3. t \in Handed <=> view[t].status = "sent" \/ (pc = "record" /\ t = Current)
    BY <1>1, PhaseValues
  <2>4. CASE Record
    BY <2>1, <2>2, <2>3, <2>4 DEF Record
  <2>5. CASE CheckClosed \/ GiveUp
    <3>1. Upsert(Current, "snoozed", FALSE) \/ Upsert(Current, "failed", FALSE)
      BY <2>5 DEF CheckClosed, GiveUp
    <3>2. /\ t # Current => view'[t] = view[t]
          /\ t = Current => view'[t].status \in {"snoozed", "failed"}
      BY <2>1, <3>1
    <3>3. pc # "record"
      BY <2>5 DEF CheckClosed, GiveUp
    <3> QED
      BY <1>2, <2>2, <2>3, <3>2, <3>3 DEF Terminal
  <2> QED
    BY <2>4, <2>5
<1> QED
  BY <1>1, <1>3, SameHanded

\* The rows of the digest are those of alerts that were sent, or were not.
LEMMA DigestStutters ==
  ASSUME WorkInv, TypeOK', Start \/ DigestMark
  PROVE  UNCHANGED Promise!absvars
<1>1. UNCHANGED <<rows, copies>>
  BY DEF Start, DigestMark, ghostVars
<1>2. ASSUME NEW B, NEW status, NEW t \in Alerts, UpsertBatch(B, status)
      PROVE  /\ t \notin B => view'[t] = view[t]
             /\ t \in B => view'[t].status = status
  <2>1. view'[t] = IF t \in B THEN [status |-> status, messageId |-> FALSE] ELSE view[t]
    BY <1>2 DEF UpsertBatch
  <2> QED
    BY <2>1
<1>3. ASSUME NEW t \in Alerts PROVE t \in Handed' <=> t \in Handed
  <2>1. CASE DigestMark
    <3>1. t \in Handed' <=> view'[t].status = "sent"
      BY <2>1, PhaseValues DEF DigestMark
    <3>2. t \in Handed <=> view[t].status = "sent" \/ t \in batch
      BY <2>1, PhaseValues DEF DigestMark
    <3>3. UpsertBatch(batch, "sent")
      BY <2>1 DEF DigestMark
    <3>4. /\ t \notin batch => view'[t] = view[t]
          /\ t \in batch => view'[t].status = "sent"
      BY <1>2, <3>3
    <3> QED
      BY <3>1, <3>2, <3>4
  <2>2. CASE Start
    <3>1. pc = "down" /\ pc' \in {"idle", "digest commit", "digest post"}
      BY <2>2 DEF Start
    <3>2. /\ t \in Handed <=> view[t].status = "sent"
          /\ t \in Handed' <=> view'[t].status = "sent"
      BY <3>1, PhaseValues
    <3>3. CASE view' = view
      BY <3>2, <3>3
    <3>4. CASE view' # view
      <4>1. PICK a \in Alerts : UpsertBatch(Oldest(UndeliveredFrom(a), DigestLimit), "snoozed")
        BY <2>2, <3>4 DEF Start
      <4>2. \A x \in Oldest(UndeliveredFrom(a), DigestLimit) : view[x].status \notin Terminal
        BY Undelivered, Sizes DEF WorkInv, Alerts
      <4> QED
        BY <1>2, <3>2, <4>1, <4>2 DEF Terminal
    <3> QED
      BY <3>3, <3>4
  <2> QED
    BY <2>1, <2>2
<1> QED
  BY <1>1, <1>3, SameHanded

\* The operator's commands, the clock and the reading steps show nothing.
LEMMA OthersStutter ==
  ASSUME WorkInv, TypeOK',
         \/ Raise \/ Mute \/ Unmute \/ Snooze \/ SnoozeEnds \/ UNCHANGED vars
         \/ List \/ CheckOpen
  PROVE  UNCHANGED Promise!absvars
<1>1. UNCHANGED <<rows, view, copies>>
  BY DEF Raise, Mute, Unmute, Snooze, SnoozeEnds, Switch, vars, List, CheckOpen, ghostVars
<1>2. \/ pc' = pc /\ batch' = batch
      \/ {pc, pc'} \cap {"record", "digest mark"} = {}
  BY DEF Raise, Mute, Unmute, Snooze, SnoozeEnds, Switch, vars, workVars, List, CheckOpen
<1>3. ASSUME NEW t \in Alerts PROVE t \in Handed' <=> t \in Handed
  BY <1>1, <1>2, PhaseValues DEF Current
<1> QED
  BY <1>1, <1>3, SameHanded

\* Every step of the worker is one of the abstract specification or a stutter.
LEMMA StepRefines == WorkInv /\ [Next]_vars => [Promise!Next]_(Promise!absvars)
<1> SUFFICES ASSUME WorkInv, [Next]_vars
             PROVE  Promise!Next \/ UNCHANGED Promise!absvars
  OBVIOUS
<1>1. TypeOK'
  BY NextWork DEF WorkInv
<1>2. CASE CommitDigest \/ CommitBatch \/ CommitUnacknowledged
  BY <1>1, <1>2, CommitSettles
  DEF CommitDigest, CommitBatch, Commit, CommitUnacknowledged, ghostVars, Promise!Next
<1>3. CASE DigestPostFails \/ LoopDies \/ Interrupt
  BY <1>1, <1>3, RollBackFaults
  DEF DigestPostFails, LoopDies, Interrupt, RollBack, ghostVars, Promise!Next
<1>4. CASE Post \/ DigestPost
  BY <1>1, <1>4, PostRefines DEF Promise!Next
<1>5. CASE PostFails \/ RecordFails
  BY <1>1, <1>5, PostFailsRefines, RecordFailsRefines DEF Promise!Next
<1>6. CASE Start \/ DigestMark \/ CheckClosed \/ Record \/ GiveUp
  BY <1>1, <1>6, WriteStutters, DigestStutters
<1> QED
  BY <1>1, <1>2, <1>3, <1>4, <1>5, <1>6, OthersStutter DEF Next, Step, Digest, SendAlert

\* The worker implements at-least-once delivery, whatever fails and whatever
\* the operator does: a message is sent again only after a fault, and never
\* after a terminal row is committed.
THEOREM Refinement == Spec => ImplementsAtLeastOnce
<1>1. Init => Promise!Init
  BY DEF Init, Promise!Init, phaseOf, Handed, NoRow, Terminal
<1>2. IInv /\ [Next]_vars => [Promise!Next]_(Promise!absvars)
  BY StepRefines DEF IInv
<1> QED
  BY <1>1, <1>2, InductiveInvariant, PTL DEF Spec, ImplementsAtLeastOnce, Promise!Spec

==============================================================================
