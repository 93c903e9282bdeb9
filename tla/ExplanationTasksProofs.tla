------------------------ MODULE ExplanationTasksProofs ------------------------
(***************************************************************************)
(* Proofs about ExplanationTasks, for any number of workers and tasks, any *)
(* cache keys, caps, windows and batch size.                               *)
(***************************************************************************)
EXTENDS ExplanationTasks, BatchLemmas

----------------------------------------------------------------------------
(* The inductive invariant *)

\* Where a worker has a task in work; only a claimed one is running.
Asking == {"check", "lookup", "budget", "call"}
Working == Asking \cup {"send"}

\* The reply of t is still to leave.
Unsent(w, t) == pc[w] = "send" /\ t = Current(w)

\* A worker in work has a task, and that task's row tells how far it is; a
\* worker out of work holds no row.
WorkInv ==
  \A w \in Workers :
    /\ pc[w] = "idle" => \A t \in Tasks : own[w][t] = NoRow
    /\ pc[w] \in Working => batch[w] # {}
    /\ pc[w] \in Asking => own[w][Current(w)].status = "running"
    /\ pc[w] = "send" => own[w][Current(w)].status \in Cached
                         /\ own[w][Current(w)].text # {}

\* What a transaction holds: rows that are pending outside it, of which only
\* the one in work may be running.
OwnInv ==
  \A w \in Workers, t \in Tasks :
    own[w][t] # NoRow =>
      /\ rows[t].status = "pending"
      /\ own[w][t].status # "pending"
      /\ own[w][t].status = "running" => pc[w] \in Asking /\ t = Current(w)

\* No transaction holds a row that another one holds.
Exclusive ==
  \A w1, w2 \in Workers, t \in Tasks :
    own[w1][t] # NoRow /\ own[w2][t] # NoRow => w1 = w2

\* The task is over, or its reply is recorded by a transaction that sent it.
Answered(t) ==
  \/ rows[t].status \in Settled
  \/ \E w \in Workers : own[w][t].status \in Cached /\ ~Unsent(w, t)

\* A rollback forgets at most one reply of each task.
CopiesInv ==
  \A t \in Tasks : copies[t] <= aborts + (IF Answered(t) THEN 1 ELSE 0)

Shown(t) == copies[t] >= 1 \/ t \in missed

\* A recorded text is in the chat, about to be sent, or was to be sent when it
\* had no base message.
ShownInv ==
  \A t \in Tasks :
    /\ rows[t].status \in Cached /\ rows[t].text # {} => Shown(t)
    /\ \A w \in Workers :
         own[w][t].status \in Cached /\ own[w][t].text # {} =>
           Unsent(w, t) \/ Shown(t)

Fits(t, row) == \A s \in row.text : CacheKey[s] = CacheKey[t]

\* Texts fit their tasks, committed or not.
FitInv ==
  \A t \in Tasks : Fits(t, rows[t]) /\ \A w \in Workers : Fits(t, own[w][t])

IInv ==
  /\ TypeOK
  /\ WorkInv
  /\ OwnInv
  /\ Exclusive
  /\ RunningNeverCommitted
  /\ CopiesInv
  /\ ShownInv
  /\ FitInv

----------------------------------------------------------------------------
(* Rows *)

Statuses == Settled \cup Retryable \cup {"pending", "running"}

\* An absent row is no row.
LEMMA NoRowIsNoRow == NoRow \notin Row
<1> QED
  BY DEF NoRow, Row, Settled, Retryable, Cached

\* What an absent row looks like.
LEMMA NoRowFacts == NoRow.status = "absent" /\ NoRow.text = {}
<1> QED
  BY DEF NoRow

\* Rows have a status and a text.
LEMMA RowFacts ==
  ASSUME NEW row \in Row
  PROVE  row.status \in Statuses /\ row.text \in SUBSET Tasks /\ row # NoRow
<1> QED
  BY NoRowIsNoRow DEF Row, Statuses

\* A row whose status, time and text are replaced is a row.
LEMMA RowUpdated ==
  ASSUME NEW row \in Row, NEW status \in Statuses, NEW at \in 0..MaxClock,
         NEW text \in SUBSET Tasks
  PROVE  /\ [row EXCEPT !.status = status, !.at = at, !.text = text] \in Row
         /\ [row EXCEPT !.status = status, !.at = at, !.text = text].status = status
         /\ [row EXCEPT !.status = status, !.at = at, !.text = text].text = text
<1> QED
  BY DEF Row, Statuses

\* The task in work is one of the tasks of the batch.
LEMMA CurrentInBatch ==
  ASSUME TypeOK, NEW w \in Workers, batch[w] # {}
  PROVE  Current(w) \in batch[w] /\ Current(w) \in Tasks
<1>1. batch[w] \in SUBSET Tasks /\ batch[w] \in SUBSET Nat
  BY SizesAssumption DEF TypeOK, Tasks
<1> QED
  BY <1>1, FirstInBatch DEF Current

\* The rest of a batch is a batch.
LEMMA RestOfBatch ==
  ASSUME TypeOK, NEW w \in Workers, NEW t
  PROVE  /\ batch[w] \ {t} \in SUBSET Tasks
         /\ Cardinality(batch[w] \ {t}) <= BatchSize
<1>1. batch[w] \in SUBSET (1..NumTasks) /\ Cardinality(batch[w]) <= BatchSize
  BY DEF TypeOK, Tasks
<1>2. NumTasks \in Nat /\ BatchSize \in Nat
  BY SizesAssumption
<1> QED
  BY <1>1, <1>2, RestBounded DEF Tasks

----------------------------------------------------------------------------
(* Steps that touch the row of the task in work *)

\* The worker records row for its task and goes on to label, with the rest
\* of its batch when that is no longer about the task.
Records(w, row, label) ==
  /\ own' = [own EXCEPT ![w][Current(w)] = row]
  /\ pc' = [pc EXCEPT ![w] = label]
  /\ batch' = IF label \in Working THEN batch
              ELSE [batch EXCEPT ![w] = batch[w] \ {Current(w)}]

\* What may be recorded, and where the worker may go with it.
Recordable(t, row, label) ==
  /\ row \in Row
  /\ row.status # "pending"
  /\ row.status = "running" <=> label \in Asking
  /\ label = "send" => row.status \in Cached /\ row.text # {}
  /\ row.status \in Cached /\ row.text # {} => label = "send"
  /\ label \in Working \cup {"claim"}
  /\ Fits(t, row)

\* Such a step keeps the invariant, if the task was not answered before.
LEMMA RecordIInv ==
  ASSUME IInv, NEW w \in Workers, batch[w] # {},
         NEW row, NEW label,
         Records(w, row, label), Recordable(Current(w), row, label),
         pc[w] \in Asking \/ (pc[w] = "claim" /\ own[w][Current(w)] = NoRow),
         rows[Current(w)].status = "pending",
         \A other \in Workers \ {w} : own[other][Current(w)] = NoRow,
         calls' \in Nat,
         UNCHANGED <<clock, rows, base, copies, missed, aborts, resets>>
  PROVE  IInv'
<1> DEFINE c == Current(w)
<1> USE DEF IInv
<1>1. c \in Tasks /\ c \in batch[w]
  BY CurrentInBatch
<1>2. /\ own' \in [Workers -> [Tasks -> Row \cup {NoRow}]]
      /\ own'[w][c] = row
      /\ \A t \in Tasks \ {c} : own'[w][t] = own[w][t]
      /\ \A other \in Workers \ {w} : own'[other] = own[other]
  <2> HIDE DEF c
  <2> QED
    BY <1>1 DEF Records, Recordable, TypeOK, c
<1>3. /\ pc' \in [Workers -> PCs]
      /\ pc'[w] = label
      /\ \A other \in Workers \ {w} : pc'[other] = pc[other]
  BY DEF Records, Recordable, TypeOK, PCs, Working, Asking
<1>4. /\ batch' \in [Workers -> SUBSET Tasks]
      /\ label \in Working => batch'[w] = batch[w]
      /\ \A other \in Workers \ {w} : batch'[other] = batch[other]
      /\ \A v \in Workers : Cardinality(batch'[v]) <= BatchSize
  <2> HIDE DEF c
  <2>1. CASE label \in Working
    BY <2>1 DEF Records, TypeOK
  <2>2. CASE label \notin Working
    <3>1. batch' = [batch EXCEPT ![w] = batch[w] \ {c}]
      BY <2>2 DEF Records, c
    <3>2. batch[w] \ {c} \in SUBSET Tasks /\ Cardinality(batch[w] \ {c}) <= BatchSize
      BY RestOfBatch
    <3> QED
      BY <2>2, <3>1, <3>2 DEF TypeOK
  <2> QED
    BY <2>1, <2>2
<1>5. /\ label \in Working => Current(w)' = c
      /\ \A other \in Workers \ {w} : Current(other)' = Current(other)
  BY <1>4 DEF Current
<1>6. row # NoRow /\ row.status \in Statuses
  BY RowFacts DEF Recordable
<1>7. own[w][c] = NoRow \/ own[w][c].status = "running"
  BY DEF WorkInv
<1> HIDE DEF c
<1>8. TypeOK'
  BY <1>2, <1>3, <1>4 DEF TypeOK
<1>9. WorkInv'
  <2>1. c \in Tasks /\ (label \in Working => batch'[w] # {})
    BY <1>1, <1>4
  <2> QED
    BY <1>2, <1>3, <1>4, <1>5, <2>1 DEF WorkInv, Recordable, Working, Asking
<1>10. OwnInv'
  BY <1>1, <1>2, <1>3, <1>4, <1>5, <1>6 DEF OwnInv, Recordable, Working, Asking, c
<1>11. Exclusive'
  BY <1>1, <1>2 DEF Exclusive, c
<1>12. RunningNeverCommitted'
  BY DEF RunningNeverCommitted
<1>13. CopiesInv'
  <2>1. ASSUME NEW t \in Tasks, Answered(t) PROVE Answered(t)'
    <3>1. CASE rows[t].status \in Settled
      BY <3>1 DEF Answered
    <3>2. ASSUME NEW v \in Workers, own[v][t].status \in Cached, ~Unsent(v, t)
          PROVE  Answered(t)'
      <4>1. CASE v = w
        <5>1. t # c
          BY <1>7, <3>2, <4>1, NoRowFacts DEF Cached
        <5>2. own'[w][t].status \in Cached /\ ~Unsent(w, t)'
          BY <1>2, <1>3, <1>5, <3>2, <4>1, <5>1 DEF Unsent, Working
        <5> QED
          BY <5>2 DEF Answered
      <4>2. CASE v # w
        BY <1>2, <1>3, <1>5, <3>2, <4>2 DEF Answered, Unsent
      <4> QED
        BY <4>1, <4>2
    <3> QED
      BY <2>1, <3>1, <3>2 DEF Answered
  <2>2. copies \in [Tasks -> Nat] /\ aborts \in Nat
    BY SizesAssumption DEF TypeOK
  <2> QED
    BY <2>1, <2>2 DEF CopiesInv
<1>14. ShownInv'
  <2>1. ASSUME NEW t \in Tasks, NEW v \in Workers,
               own'[v][t].status \in Cached, own'[v][t].text # {}
        PROVE  Unsent(v, t)' \/ Shown(t)'
    <3>1. CASE v = w /\ t = c
      BY <1>2, <1>3, <1>5, <2>1, <3>1 DEF Recordable, Unsent, Working
    <3>2. CASE v # w \/ t # c
      <4>1. own'[v][t] = own[v][t]
        BY <1>1, <1>2, <3>2
      <4>2. Unsent(v, t) => Unsent(v, t)'
        BY <1>3, <1>5, <3>2 DEF Unsent, c, Asking
      <4> QED
        BY <2>1, <4>1, <4>2 DEF ShownInv, Shown
    <3> QED
      BY <3>1, <3>2
  <2> QED
    BY <2>1 DEF ShownInv, Shown
<1>15. FitInv'
  <2>1. ASSUME NEW t \in Tasks, NEW v \in Workers PROVE Fits(t, own'[v][t])
    BY <1>1, <1>2 DEF FitInv, Recordable, Fits, c
  <2> QED
    BY <2>1 DEF FitInv, Fits
<1> QED
  BY <1>8, <1>9, <1>10, <1>11, <1>12, <1>13, <1>14, <1>15

\* The task in work is held by its worker alone, and pending for the others.
LEMMA InWork ==
  ASSUME IInv, NEW w \in Workers, pc[w] \in Working
  PROVE  /\ batch[w] # {} /\ Current(w) \in Tasks
         /\ own[w][Current(w)] \in Row
         /\ View(w, Current(w)) = own[w][Current(w)]
         /\ rows[Current(w)].status = "pending"
         /\ \A other \in Workers \ {w} : own[other][Current(w)] = NoRow
         /\ pc[w] \in Asking => own[w][Current(w)].status = "running"
         /\ pc[w] = "send" => own[w][Current(w)].status \in Cached
                              /\ own[w][Current(w)].text # {}
<1> USE DEF IInv
<1>1. batch[w] # {}
  BY DEF WorkInv
<1>2. Current(w) \in Tasks
  BY <1>1, CurrentInBatch
<1>3. /\ pc[w] \in Asking => own[w][Current(w)].status = "running"
      /\ pc[w] = "send" => own[w][Current(w)].status \in Cached
                           /\ own[w][Current(w)].text # {}
  BY DEF WorkInv
<1>4. own[w][Current(w)] # NoRow
  BY <1>3, NoRowFacts DEF Working, Cached
<1>5. own[w][Current(w)] \in Row
  BY <1>2, <1>4 DEF TypeOK
<1>6. /\ rows[Current(w)].status = "pending"
      /\ \A other \in Workers \ {w} : own[other][Current(w)] = NoRow
  BY <1>2, <1>4 DEF OwnInv, Exclusive
<1>7. View(w, Current(w)) = own[w][Current(w)]
  BY <1>2, <1>4 DEF View, Touched
<1> QED
  BY <1>1, <1>2, <1>3, <1>5, <1>6, <1>7

\* A finished row of the task in work.
LEMMA FinishedRow ==
  ASSUME IInv, NEW w \in Workers, pc[w] \in Asking,
         NEW status \in Statuses, NEW text \in SUBSET Tasks
  PROVE  /\ Finished(w, status, text) \in Row
         /\ Finished(w, status, text).status = status
         /\ Finished(w, status, text).text = text
<1>1. own[w][Current(w)] \in Row /\ View(w, Current(w)) = own[w][Current(w)]
  BY InWork DEF Working
<1>2. clock \in 0..MaxClock
  BY SizesAssumption DEF IInv, TypeOK
<1> DEFINE row == own[w][Current(w)]
<1>3. Finished(w, status, text) =
        [row EXCEPT !.status = status, !.at = clock, !.text = text]
  BY <1>1 DEF Finished
<1> HIDE DEF row
<1>4. row \in Row
  BY <1>1 DEF row
<1>5. /\ [row EXCEPT !.status = status, !.at = clock, !.text = text] \in Row
      /\ [row EXCEPT !.status = status, !.at = clock, !.text = text].status = status
      /\ [row EXCEPT !.status = status, !.at = clock, !.text = text].text = text
  BY <1>2, <1>4 DEF Row, Statuses
<1> QED
  BY <1>3, <1>5, Zenon

\* Finishing the task in work, and passing on to the next one or to the reply.
LEMMA FinishIInv ==
  ASSUME IInv, NEW w \in Workers, pc[w] \in Asking,
         NEW status \in Settled \cup Retryable, NEW text \in SUBSET Tasks,
         text # {} => status \in Cached,
         \A s \in text : CacheKey[s] = CacheKey[Current(w)],
         Put(w, Finished(w, status, text)), SendOrPass(w, text),
         calls' \in Nat,
         UNCHANGED <<clock, rows, base, copies, missed, aborts, resets>>
  PROVE  IInv'
<1> DEFINE label == IF text = {} THEN "claim" ELSE "send"
<1>1. status \in Statuses /\ status \notin {"pending", "running"}
  BY DEF Statuses, Settled, Retryable, Cached
<1>2. Recordable(Current(w), Finished(w, status, text), label)
  <2>1. /\ Finished(w, status, text) \in Row
        /\ Finished(w, status, text).status = status
        /\ Finished(w, status, text).text = text
    BY <1>1, FinishedRow
  <2>2. label \in Working \cup {"claim"} /\ label \notin Asking
    BY DEF Working, Asking
  <2> QED
    BY <1>1, <2>1, <2>2 DEF Recordable, Fits
<1>3. Records(w, Finished(w, status, text), label)
  BY DEF Records, Put, SendOrPass, Pass, Goto, Working, Asking
<1> HIDE DEF label
<1> QED
  BY <1>2, <1>3, InWork, RecordIInv DEF Working

\* A step that leaves the row of the task in work as it is.
LEMMA ProceedIInv ==
  ASSUME IInv, NEW w \in Workers, pc[w] \in Asking, NEW label \in Asking,
         Goto(w, label), UNCHANGED <<batch, own>>, calls' \in Nat,
         UNCHANGED <<clock, rows, base, copies, missed, aborts, resets>>
  PROVE  IInv'
<1> DEFINE row == own[w][Current(w)]
<1>1. /\ row \in Row /\ row.status = "running" /\ Current(w) \in Tasks
      /\ batch[w] # {} /\ rows[Current(w)].status = "pending"
      /\ \A other \in Workers \ {w} : own[other][Current(w)] = NoRow
  BY InWork DEF Working
<1>2. Recordable(Current(w), row, label)
  BY <1>1 DEF Recordable, Working, Asking, Cached, IInv, FitInv
<1>3. Records(w, row, label)
  <2>1. own \in [Workers -> [Tasks -> Row \cup {NoRow}]]
    BY DEF IInv, TypeOK
  <2>2. own = [own EXCEPT ![w][Current(w)] = row]
    BY <1>1, <2>1
  <2> QED
    BY <2>2 DEF Records, Goto, Working
<1> HIDE DEF row
<1> QED
  BY <1>1, <1>2, <1>3, RecordIInv

----------------------------------------------------------------------------
(* process_task *)

\* A worker checks the feature flag and the base message.
LEMMA CheckIInv ==
  ASSUME IInv, NEW w \in Workers, Check(w)
  PROVE  IInv'
<1>1. pc[w] \in Asking /\ calls' \in Nat
  BY DEF Check, Asking, ghostVars, IInv, TypeOK
<1>2. CASE Goto(w, "lookup") /\ UNCHANGED <<batch, own>>
  BY <1>1, <1>2, ProceedIInv DEF Check, Asking, ghostVars
<1>3. ASSUME NEW status \in {"skipped_no_base_message", "skipped_disabled"},
             Put(w, Finished(w, status, {})), Pass(w)
      PROVE  IInv'
  <2>1. status \in Settled \cup Retryable
    BY DEF Settled
  <2>2. SendOrPass(w, {})
    BY <1>3 DEF SendOrPass
  <2> QED
    BY <1>1, <1>3, <2>1, <2>2, FinishIInv DEF Check, ghostVars
<1> QED
  BY <1>2, <1>3 DEF Check

\* A worker looks a reusable text up.
LEMMA LookupIInv ==
  ASSUME IInv, NEW w \in Workers, Lookup(w)
  PROVE  IInv'
<1>1. pc[w] \in Asking /\ calls' \in Nat
  BY DEF Lookup, Asking, ghostVars, IInv, TypeOK
<1>2. CASE Goto(w, "budget") /\ UNCHANGED <<batch, own>>
  BY <1>1, <1>2, ProceedIInv DEF Lookup, Asking, ghostVars
<1>3. ASSUME NEW t \in NewestHits(w),
             Put(w, Finished(w, "reused_cache", View(w, t).text)),
             SendOrPass(w, View(w, t).text)
      PROVE  IInv'
  <2>1. /\ t \in Tasks /\ View(w, t).status \in Cached
        /\ CacheKey[t] = CacheKey[Current(w)]
    BY DEF NewestHits, Hits
  <2>2. View(w, t) \in Row \cup {NoRow} /\ Fits(t, View(w, t))
    BY <2>1 DEF View, IInv, TypeOK, FitInv
  <2>3. View(w, t).text \in SUBSET Tasks
    BY <2>2, RowFacts, NoRowFacts
  <2>4. \A s \in View(w, t).text : CacheKey[s] = CacheKey[Current(w)]
    BY <2>1, <2>2 DEF Fits
  <2>5. "reused_cache" \in Settled /\ "reused_cache" \in Cached
    BY DEF Settled, Cached
  <2> QED
    BY <1>1, <1>3, <2>3, <2>4, <2>5, FinishIInv DEF Lookup, ghostVars
<1> QED
  BY <1>2, <1>3 DEF Lookup

\* A worker checks its budgets.
LEMMA BudgetIInv ==
  ASSUME IInv, NEW w \in Workers, Budget(w)
  PROVE  IInv'
<1>1. pc[w] \in Asking /\ calls' \in Nat
  BY DEF Budget, Asking, ghostVars, IInv, TypeOK
<1>2. CASE Goto(w, "call") /\ UNCHANGED <<batch, own>>
  BY <1>1, <1>2, ProceedIInv DEF Budget, Asking, ghostVars
<1>3. CASE Put(w, Finished(w, "skipped_cost_cap", {})) /\ Pass(w)
  <2>1. "skipped_cost_cap" \in Settled \cup Retryable
    BY DEF Retryable
  <2>2. SendOrPass(w, {})
    BY <1>3 DEF SendOrPass
  <2> QED
    BY <1>1, <1>3, <2>1, <2>2, FinishIInv DEF Budget, ghostVars
<1> QED
  BY <1>2, <1>3 DEF Budget

\* A worker calls the model.
LEMMA CallModelIInv ==
  ASSUME IInv, NEW w \in Workers, CallModel(w)
  PROVE  IInv'
<1>1. pc[w] \in Asking /\ calls' \in Nat
  BY DEF CallModel, Asking, IInv, TypeOK
<1>2. CASE Put(w, Finished(w, "failed", {})) /\ Pass(w)
  <2>1. "failed" \in Settled \cup Retryable
    BY DEF Retryable
  <2>2. SendOrPass(w, {})
    BY <1>2 DEF SendOrPass
  <2> QED
    BY <1>1, <1>2, <2>1, <2>2, FinishIInv DEF CallModel
<1>3. ASSUME NEW text \in {{}, {Current(w)}},
             Put(w, Finished(w, "completed", text)), SendOrPass(w, text)
      PROVE  IInv'
  <2>1. "completed" \in Settled /\ "completed" \in Cached
    BY DEF Settled, Cached
  <2>2. Current(w) \in Tasks
    BY <1>1, InWork DEF Working
  <2>3. text \in SUBSET Tasks /\ \A s \in text : CacheKey[s] = CacheKey[Current(w)]
    BY <2>2
  <2> QED
    BY <1>1, <1>3, <2>1, <2>3, FinishIInv DEF CallModel
<1> QED
  BY <1>2, <1>3 DEF CallModel

\* The claim: a pending row nobody holds becomes the worker's.
LEMMA ClaimIInv ==
  ASSUME IInv, NEW w \in Workers, Claim(w)
  PROVE  IInv'
<1> DEFINE c == Current(w)
           row == [View(w, c) EXCEPT !.status = "running", !.at = clock]
<1>1. c \in Tasks /\ batch[w] # {}
  BY CurrentInBatch DEF Claim, IInv
<1>2. own[w][c] = NoRow /\ View(w, c) = rows[c] /\ rows[c].status = "pending"
  BY <1>1 DEF Claim, Claimable, View, Touched, IInv, OwnInv
<1>3. \A other \in Workers \ {w} : own[other][c] = NoRow
  BY <1>1 DEF Claim, Claimable, Locked, Touched
<1>4. rows[c] \in Row /\ Fits(c, rows[c])
  BY <1>1, <1>2, NoRowFacts DEF IInv, TypeOK, FitInv
<1>5. row \in Row /\ row.status = "running" /\ row.text = rows[c].text
  <2>1. clock \in 0..MaxClock
    BY SizesAssumption DEF IInv, TypeOK
  <2> QED
    BY <1>2, <1>4, <2>1 DEF Row
<1>6. Recordable(c, row, "check")
  <2> HIDE DEF row
  <2> QED
    BY <1>4, <1>5 DEF Recordable, Fits, Working, Asking, Cached
<1>7. Records(w, row, "check")
  BY DEF Claim, Records, Put, Goto, Working, Asking
<1>8. pc[w] = "claim" /\ calls' \in Nat
      /\ UNCHANGED <<clock, rows, base, copies, missed, aborts, resets>>
  BY DEF Claim, ghostVars, IInv, TypeOK
<1> HIDE DEF row
<1> QED
  BY <1>1, <1>2, <1>3, <1>6, <1>7, <1>8, RecordIInv DEF c

\* Before its reply leaves, a task is not answered.
LEMMA NotAnswered ==
  ASSUME IInv, NEW w \in Workers, pc[w] = "send"
  PROVE  ~Answered(Current(w)) /\ copies[Current(w)] <= aborts
<1>1. /\ Current(w) \in Tasks
      /\ rows[Current(w)].status = "pending"
      /\ \A other \in Workers \ {w} : own[other][Current(w)] = NoRow
  BY InWork DEF Working
<1>2. ~Answered(Current(w))
  BY <1>1, NoRowFacts DEF Answered, Unsent, Settled, Cached
<1>3. copies \in [Tasks -> Nat] /\ aborts \in Nat
  BY SizesAssumption DEF IInv, TypeOK
<1> QED
  BY <1>1, <1>2, <1>3 DEF IInv, CopiesInv

\* The reply leaves, or its base message is gone.
LEMMA SendIInv ==
  ASSUME IInv, NEW w \in Workers, Send(w)
  PROVE  IInv'
<1> USE DEF IInv
<1>0. PICK c \in Tasks : c = Current(w)
  BY InWork DEF Send, Working
<1>1. /\ pc[w] = "send" /\ c \in Tasks /\ batch[w] # {}
      /\ own[w][c].status \in Cached
      /\ UNCHANGED <<clock, rows, base, own, calls, aborts, resets>>
  BY <1>0, InWork DEF Send, Working
<1>2. /\ pc' \in [Workers -> PCs] /\ pc'[w] = "claim"
      /\ \A other \in Workers \ {w} : pc'[other] = pc[other]
  BY DEF Send, Pass, Goto, TypeOK, PCs
<1>3. /\ batch' \in [Workers -> SUBSET Tasks]
      /\ \A other \in Workers \ {w} : batch'[other] = batch[other]
      /\ \A v \in Workers : Cardinality(batch'[v]) <= BatchSize
  <2>1. batch' = [batch EXCEPT ![w] = batch[w] \ {c}]
    BY <1>0 DEF Send, Pass
  <2>2. batch[w] \ {c} \in SUBSET Tasks /\ Cardinality(batch[w] \ {c}) <= BatchSize
    BY RestOfBatch
  <2> QED
    BY <2>1, <2>2 DEF TypeOK
<1>4. \A other \in Workers \ {w} : Current(other)' = Current(other)
  BY <1>3 DEF Current
<1>5. /\ copies' \in [Tasks -> Nat] /\ missed' \subseteq Tasks
      /\ \/ copies'[c] = copies[c] + 1 /\ missed' = missed
         \/ copies'[c] = copies[c] /\ missed' = missed \cup {c}
      /\ \A t \in Tasks \ {c} : copies'[t] = copies[t]
  BY <1>0 DEF Send, TypeOK
<1>6. copies[c] <= aborts
  BY <1>0, <1>1, NotAnswered
<1>7. copies \in [Tasks -> Nat] /\ aborts \in Nat /\ base \in [Tasks -> BOOLEAN]
  BY SizesAssumption DEF TypeOK
<1>8. TypeOK'
  BY <1>1, <1>2, <1>3, <1>5 DEF TypeOK
<1>9. WorkInv' /\ OwnInv' /\ Exclusive' /\ RunningNeverCommitted' /\ FitInv'
  <2>1. WorkInv'
    BY <1>1, <1>2, <1>3, <1>4 DEF WorkInv, Working, Asking
  <2>2. OwnInv'
    BY <1>1, <1>2, <1>4 DEF OwnInv, Asking
  <2> QED
    BY <1>1, <2>1, <2>2 DEF Exclusive, RunningNeverCommitted, FitInv, Fits
<1>10. \A t \in Tasks, v \in Workers : ~Unsent(v, t) => ~Unsent(v, t)'
  BY <1>1, <1>2, <1>4 DEF Unsent
<1>11. CopiesInv'
  <2>1. Answered(c)'
    BY <1>1, <1>2 DEF Answered, Unsent
  <2>2. \A t \in Tasks : Answered(t) => Answered(t)'
    BY <1>1, <1>10 DEF Answered
  <2> QED
    BY <1>1, <1>5, <1>6, <1>7, <2>1, <2>2 DEF CopiesInv
<1>12. ShownInv'
  <2>1. \A t \in Tasks : Shown(t) => Shown(t)'
    BY <1>1, <1>5, <1>7 DEF Shown
  <2>2. Shown(c)'
    BY <1>1, <1>5, <1>7 DEF Shown
  <2>3. \A t \in Tasks \ {c}, v \in Workers : Unsent(v, t) => Unsent(v, t)'
    BY <1>0, <1>1, <1>2, <1>4 DEF Unsent
  <2> QED
    BY <1>1, <2>1, <2>2, <2>3 DEF ShownInv
<1> QED
  BY <1>8, <1>9, <1>11, <1>12

----------------------------------------------------------------------------
(* The tick around its tasks *)

\* A worker that holds nothing any more, after a rollback or before a tick.
LEMMA RollBackIInv ==
  ASSUME IInv, NEW w \in Workers, RollBack(w),
         copies' \in [Tasks -> Nat],
         \A t \in Tasks : copies[t] <= copies'[t] /\ copies'[t] <= aborts + 1,
         UNCHANGED <<clock, rows, base, calls, missed, resets>>
  PROVE  IInv'
<1> USE DEF IInv
<1>1. /\ own' \in [Workers -> [Tasks -> Row \cup {NoRow}]]
      /\ \A t \in Tasks : own'[w][t] = NoRow
      /\ \A other \in Workers \ {w} : own'[other] = own[other]
  BY DEF RollBack, TypeOK
<1>2. /\ pc' \in [Workers -> PCs] /\ pc'[w] = "idle"
      /\ \A other \in Workers \ {w} : pc'[other] = pc[other]
  BY DEF RollBack, Goto, TypeOK, PCs
<1>3. /\ batch' \in [Workers -> SUBSET Tasks]
      /\ \A other \in Workers \ {w} : batch'[other] = batch[other]
      /\ \A v \in Workers : Cardinality(batch'[v]) <= BatchSize
  BY FS_EmptySet, SizesAssumption DEF RollBack, TypeOK
<1>4. \A other \in Workers \ {w} : Current(other)' = Current(other)
  BY <1>3 DEF Current
<1>5. aborts' = aborts + 1 /\ aborts \in Nat /\ aborts' \in 0..MaxAborts
  BY SizesAssumption DEF RollBack, TypeOK
<1>6. TypeOK'
  BY <1>1, <1>2, <1>3, <1>5 DEF TypeOK
<1>7. WorkInv'
  BY <1>1, <1>2, <1>3, <1>4 DEF WorkInv, Working, Asking
<1>8. OwnInv' /\ Exclusive' /\ RunningNeverCommitted'
  BY <1>1, <1>2, <1>4 DEF OwnInv, Exclusive, RunningNeverCommitted
<1>9. CopiesInv'
  <2>1. \A t \in Tasks : copies'[t] \in Nat
    OBVIOUS
  <2> QED
    BY <1>5, <2>1 DEF CopiesInv
<1>10. ShownInv'
  <2>1. \A t \in Tasks : Shown(t) => Shown(t)'
    BY DEF Shown, TypeOK
  <2>2. \A t \in Tasks, v \in Workers \ {w} : Unsent(v, t) => Unsent(v, t)'
    BY <1>2, <1>4 DEF Unsent
  <2> QED
    BY <1>1, <2>1, <2>2, NoRowFacts DEF ShownInv
<1>11. FitInv'
  BY <1>1, NoRowFacts DEF FitInv, Fits
<1> QED
  BY <1>6, <1>7, <1>8, <1>9, <1>10, <1>11

\* A transaction is rolled back.
LEMMA AbortIInv ==
  ASSUME IInv, NEW w \in Workers, Abort(w)
  PROVE  IInv'
<1>1. copies' = copies /\ copies \in [Tasks -> Nat] /\ aborts \in Nat
  BY SizesAssumption DEF Abort, ghostVars, IInv, TypeOK
<1>2. \A t \in Tasks : copies[t] <= copies'[t] /\ copies'[t] <= aborts + 1
  BY <1>1 DEF IInv, CopiesInv
<1> QED
  BY <1>1, <1>2, RollBackIInv DEF Abort, ghostVars

\* The reply fails.
LEMMA SendFailsIInv ==
  ASSUME IInv, NEW w \in Workers, SendFails(w)
  PROVE  IInv'
<1>1. copies \in [Tasks -> Nat] /\ aborts \in Nat
  BY SizesAssumption DEF IInv, TypeOK
<1>2. PICK c \in Tasks : c = Current(w)
  BY InWork DEF SendFails, Working
<1>3. copies[c] <= aborts
  BY <1>2, NotAnswered DEF SendFails
<1>4. \A t \in Tasks : copies[t] <= aborts + 1
  BY <1>1 DEF IInv, CopiesInv
<1>5. PICK reached \in BOOLEAN :
        copies' = [copies EXCEPT ![c] = IF reached THEN @ + 1 ELSE @]
  BY <1>2 DEF SendFails
<1>6. /\ copies' \in [Tasks -> Nat]
      /\ copies'[c] \in {copies[c], copies[c] + 1}
      /\ \A t \in Tasks \ {c} : copies'[t] = copies[t]
  BY <1>1, <1>5
<1>7. \A t \in Tasks : copies[t] <= copies'[t] /\ copies'[t] <= aborts + 1
  BY <1>1, <1>3, <1>4, <1>6
<1> QED
  BY <1>6, <1>7, RollBackIInv DEF SendFails

\* No committed row is running, so the stale reclaim finds nothing.
LEMMA ReclaimIInv ==
  ASSUME IInv, NEW w \in Workers, Reclaim(w)
  PROVE  IInv'
<1> USE DEF IInv
<1>1. pc[w] = "idle" /\ pc' = [pc EXCEPT ![w] = "list"]
      /\ UNCHANGED <<clock, rows, base, batch, calls, copies, missed, aborts, resets>>
  BY DEF Reclaim, Goto, ghostVars
<1>2. own' = [own EXCEPT ![w] = [t \in Tasks |-> NoRow]]
  BY DEF Reclaim, RunningNeverCommitted
<1>3. own' = own
  <2>1. own \in [Workers -> [Tasks -> Row \cup {NoRow}]]
    BY DEF TypeOK
  <2>2. \A t \in Tasks : own[w][t] = NoRow
    BY <1>1 DEF WorkInv
  <2>3. own[w] = [t \in Tasks |-> NoRow]
    BY <2>1, <2>2
  <2> QED
    BY <1>2, <2>1, <2>3
<1>4. /\ pc' \in [Workers -> PCs] /\ pc'[w] = "list"
      /\ \A other \in Workers \ {w} : pc'[other] = pc[other]
  BY <1>1 DEF TypeOK, PCs
<1>5. \A v \in Workers : Current(v)' = Current(v)
  BY <1>1 DEF Current
<1>6. \A v \in Workers, t \in Tasks : Unsent(v, t)' = Unsent(v, t)
  BY <1>1, <1>4, <1>5 DEF Unsent
<1>7. TypeOK'
  BY <1>1, <1>3, <1>4 DEF TypeOK
<1>8. WorkInv' /\ OwnInv'
  BY <1>1, <1>3, <1>4, <1>5 DEF WorkInv, OwnInv, Working, Asking
<1>9. Exclusive' /\ RunningNeverCommitted' /\ FitInv'
  BY <1>1, <1>3 DEF Exclusive, RunningNeverCommitted, FitInv, Fits
<1>10. CopiesInv' /\ ShownInv'
  BY <1>1, <1>3, <1>6 DEF CopiesInv, Answered, ShownInv, Shown
<1> QED
  BY <1>7, <1>8, <1>9, <1>10

\* A worker out of work changes its batch and stays out of work.
LEMMA BatchIInv ==
  ASSUME IInv, NEW w \in Workers, pc[w] \in {"list", "claim"}, Goto(w, "claim"),
         NEW B \in SUBSET Tasks, Cardinality(B) <= BatchSize,
         batch' = [batch EXCEPT ![w] = B],
         UNCHANGED <<clock, rows, base, own, calls, copies, missed, aborts, resets>>
  PROVE  IInv'
<1> USE DEF IInv
<1>1. /\ pc' \in [Workers -> PCs] /\ pc'[w] = "claim"
      /\ \A other \in Workers \ {w} : pc'[other] = pc[other]
  BY DEF TypeOK, PCs, Goto
<1>2. /\ batch' \in [Workers -> SUBSET Tasks]
      /\ \A v \in Workers : Cardinality(batch'[v]) <= BatchSize
      /\ \A other \in Workers \ {w} : batch'[other] = batch[other]
  BY DEF TypeOK
<1>3. \A other \in Workers \ {w} : Current(other)' = Current(other)
  BY <1>2 DEF Current
<1>4. \A v \in Workers, t \in Tasks : Unsent(v, t)' = Unsent(v, t)
  BY <1>1, <1>3 DEF Unsent
<1>5. TypeOK'
  BY <1>1, <1>2 DEF TypeOK
<1>6. WorkInv' /\ OwnInv'
  BY <1>1, <1>2, <1>3 DEF WorkInv, OwnInv, Working, Asking
<1>7. Exclusive' /\ RunningNeverCommitted' /\ FitInv'
  BY DEF Exclusive, RunningNeverCommitted, FitInv, Fits
<1>8. CopiesInv' /\ ShownInv'
  BY <1>4 DEF CopiesInv, Answered, ShownInv, Shown
<1> QED
  BY <1>5, <1>6, <1>7, <1>8

\* A worker lists pending tasks.
LEMMA ListIInv ==
  ASSUME IInv, NEW w \in Workers, List(w)
  PROVE  IInv'
<1> DEFINE B == Oldest(Pending(w), BatchSize)
<1>1. B \in SUBSET Tasks /\ Cardinality(B) <= BatchSize
  <2>1. Pending(w) \in SUBSET (1..NumTasks)
    BY DEF Pending, Tasks
  <2>2. NumTasks \in Nat /\ BatchSize \in Nat
    BY SizesAssumption
  <2> QED
    BY <2>1, <2>2, OldestBounded DEF Tasks
<1>2. batch' = [batch EXCEPT ![w] = B]
  BY DEF List
<1> HIDE DEF B
<1> QED
  BY <1>1, <1>2, BatchIInv DEF List, ghostVars

\* A claim finds nothing: another worker has the row or finished it.
LEMMA MissIInv ==
  ASSUME IInv, NEW w \in Workers, Miss(w)
  PROVE  IInv'
<1> DEFINE B == batch[w] \ {Current(w)}
<1>1. B \in SUBSET Tasks /\ Cardinality(B) <= BatchSize
  BY RestOfBatch DEF IInv
<1>2. batch' = [batch EXCEPT ![w] = B]
  BY DEF Miss, Pass
<1> HIDE DEF B
<1> QED
  BY <1>1, <1>2, BatchIInv DEF Miss, Pass, ghostVars

\* The commit publishes what the transaction holds.
LEMMA CommitIInv ==
  ASSUME IInv, NEW w \in Workers, Commit(w)
  PROVE  IInv'
<1> USE DEF IInv
<1>1. /\ pc[w] = "claim" /\ pc' = [pc EXCEPT ![w] = "idle"]
      /\ UNCHANGED <<clock, base, batch, calls, copies, missed, aborts, resets>>
  BY DEF Commit, Goto, ghostVars
<1>2. /\ own' \in [Workers -> [Tasks -> Row \cup {NoRow}]]
      /\ \A t \in Tasks : own'[w][t] = NoRow
      /\ \A other \in Workers \ {w} : own'[other] = own[other]
  BY DEF Commit, TypeOK
<1>3. /\ rows' \in [Tasks -> Row \cup {NoRow}]
      /\ \A t \in Tasks : rows'[t] = IF own[w][t] = NoRow THEN rows[t] ELSE own[w][t]
  BY DEF Commit, View, Touched, TypeOK
<1>4. /\ pc' \in [Workers -> PCs] /\ pc'[w] = "idle"
      /\ \A other \in Workers \ {w} : pc'[other] = pc[other]
  BY <1>1 DEF TypeOK, PCs
<1>5. \A v \in Workers : Current(v)' = Current(v)
  BY <1>1 DEF Current
<1>6. \A v \in Workers, t \in Tasks : Unsent(v, t)' = Unsent(v, t)
  BY <1>1, <1>4, <1>5 DEF Unsent
<1>7. TypeOK'
  BY <1>1, <1>2, <1>3, <1>4 DEF TypeOK
<1>8. WorkInv'
  BY <1>1, <1>2, <1>4, <1>5 DEF WorkInv, Working, Asking
<1>9. OwnInv' /\ Exclusive'
  <2>1. OwnInv'
    BY <1>2, <1>3, <1>4, <1>5 DEF OwnInv, Exclusive
  <2>2. Exclusive'
    BY <1>2 DEF Exclusive
  <2> QED
    BY <2>1, <2>2
<1>10. RunningNeverCommitted'
  BY <1>1, <1>3 DEF RunningNeverCommitted, OwnInv, Asking
<1>11. CopiesInv'
  <2>1. ASSUME NEW t \in Tasks, Answered(t) PROVE Answered(t)'
    <3>1. CASE rows[t].status \in Settled
      <4>1. own[w][t] = NoRow
        BY <3>1 DEF OwnInv, Settled, Cached
      <4> QED
        BY <1>3, <3>1, <4>1 DEF Answered
    <3>2. ASSUME NEW v \in Workers, own[v][t].status \in Cached, ~Unsent(v, t)
          PROVE  Answered(t)'
      <4>1. CASE v = w
        BY <1>3, <3>2, <4>1, NoRowFacts DEF Answered, Settled, Cached
      <4>2. CASE v # w
        BY <1>2, <1>6, <3>2, <4>2 DEF Answered
      <4> QED
        BY <4>1, <4>2
    <3> QED
      BY <2>1, <3>1, <3>2 DEF Answered
  <2>2. copies \in [Tasks -> Nat] /\ aborts \in Nat
    BY SizesAssumption DEF TypeOK
  <2> QED
    BY <1>1, <2>1, <2>2 DEF CopiesInv
<1>12. ShownInv'
  <2>1. \A t \in Tasks : Shown(t)' = Shown(t)
    BY <1>1 DEF Shown
  <2>2. \A t \in Tasks : ~Unsent(w, t)
    BY <1>1 DEF Unsent
  <2> QED
    BY <1>2, <1>3, <1>6, <2>1, <2>2, NoRowFacts DEF ShownInv
<1>13. FitInv'
  BY <1>2, <1>3, NoRowFacts DEF FitInv, Fits
<1> QED
  BY <1>7, <1>8, <1>9, <1>10, <1>11, <1>12, <1>13

----------------------------------------------------------------------------
(* The environment *)

\* Nothing in a transaction changes; the worker-side facts carry over.
LEMMA SameWorkers ==
  ASSUME IInv, UNCHANGED workerVars
  PROVE  /\ WorkInv' /\ Exclusive'
         /\ \A w \in Workers : Current(w)' = Current(w)
         /\ \A w \in Workers, t \in Tasks : Unsent(w, t)' = Unsent(w, t)
<1> USE DEF IInv, workerVars
<1>1. \A w \in Workers : Current(w)' = Current(w)
  BY DEF Current
<1>2. \A w \in Workers, t \in Tasks : Unsent(w, t)' = Unsent(w, t)
  BY <1>1 DEF Unsent
<1>3. WorkInv' /\ Exclusive'
  BY <1>1 DEF WorkInv, Exclusive
<1> QED
  BY <1>1, <1>2, <1>3

\* The clock ticks.
LEMMA TickIInv == IInv /\ (Tick \/ UNCHANGED vars) => IInv'
<1> SUFFICES ASSUME IInv, Tick \/ UNCHANGED vars PROVE IInv'
  OBVIOUS
<1>1. UNCHANGED <<rows, base, copies, missed, aborts, resets>> /\ UNCHANGED workerVars
  BY DEF Tick, vars, workerVars
<1>2. clock' \in 1..MaxClock /\ calls' \in Nat
  BY SizesAssumption DEF Tick, vars, IInv, TypeOK
<1>3. TypeOK'
  BY <1>1, <1>2 DEF IInv, TypeOK, workerVars
<1>4. OwnInv' /\ RunningNeverCommitted' /\ FitInv'
  BY <1>1, SameWorkers DEF IInv, OwnInv, RunningNeverCommitted, FitInv, Fits, workerVars
<1>5. CopiesInv' /\ ShownInv'
  BY <1>1, SameWorkers
  DEF IInv, CopiesInv, Answered, ShownInv, Shown, workerVars
<1> QED
  BY <1>1, <1>3, <1>4, <1>5, SameWorkers DEF IInv

\* A row outside all transactions becomes pending.
LEMMA PendingIInv ==
  ASSUME IInv, NEW t \in Tasks, rows[t].status \notin Settled \cup {"pending"},
         NEW row \in Row, row.status = "pending", row.text = {},
         rows' = [rows EXCEPT ![t] = row],
         base' \in [Tasks -> BOOLEAN],
         \A s \in Tasks \ {t} : base'[s] = base[s],
         UNCHANGED <<clock, pc, batch, own, calls, copies, missed, aborts>>,
         resets' \in 0..MaxResets
  PROVE  IInv'
<1> USE DEF IInv
<1>1. /\ rows' \in [Tasks -> Row \cup {NoRow}]
      /\ rows'[t] = row /\ \A s \in Tasks \ {t} : rows'[s] = rows[s]
  BY DEF TypeOK
<1>2. \A w \in Workers : own[w][t] = NoRow
  BY DEF OwnInv
<1>3. TypeOK'
  BY <1>1 DEF TypeOK
<1>4. OwnInv' /\ RunningNeverCommitted' /\ FitInv'
  BY <1>1, <1>2, SameWorkers
  DEF OwnInv, RunningNeverCommitted, FitInv, Fits, workerVars
<1>5. CopiesInv'
  <2>1. \A s \in Tasks : Answered(s) => Answered(s)'
    BY <1>1, SameWorkers DEF Answered, workerVars
  <2>2. copies \in [Tasks -> Nat] /\ aborts \in Nat
    BY SizesAssumption DEF TypeOK
  <2> QED
    BY <2>1, <2>2 DEF CopiesInv
<1>6. ShownInv'
  <2>1. \A s \in Tasks \ {t} : Shown(s)' = Shown(s)
    BY DEF Shown
  <2> QED
    BY <1>1, <1>2, <2>1, SameWorkers, NoRowFacts DEF ShownInv, workerVars
<1> QED
  BY <1>3, <1>4, <1>5, <1>6, SameWorkers DEF workerVars

\* The pattern tick creates a task.
LEMMA CreateIInv ==
  ASSUME IInv, NEW t \in Tasks, Create(t)
  PROVE  IInv'
<1> DEFINE row == [status |-> "pending", at |-> 0, createdAt |-> clock, text |-> {}]
<1>1. row \in Row /\ row.status = "pending" /\ row.text = {}
  BY SizesAssumption DEF Row, IInv, TypeOK
<1>2. rows[t].status \notin Settled \cup {"pending"}
  BY NoRowFacts DEF Create, Settled, Cached
<1>3. /\ base' \in [Tasks -> BOOLEAN] /\ \A s \in Tasks \ {t} : base'[s] = base[s]
      /\ resets' \in 0..MaxResets
  BY DEF Create, IInv, TypeOK
<1>4. rows' = [rows EXCEPT ![t] = row]
  BY DEF Create
<1> HIDE DEF row
<1> QED
  BY <1>1, <1>2, <1>3, <1>4, PendingIInv DEF Create, workerVars, ghostVars

\* A repeated delivery starts a retryable task over, or keeps its row.
Restarts(t) ==
  /\ Resend(t)
  /\ rows[t].status \in Retryable
  /\ rows' = [rows EXCEPT ![t].status = "pending", ![t].at = 0, ![t].text = {}]

\* A retryable task becomes pending again.
LEMMA RestartsIInv ==
  ASSUME IInv, NEW t \in Tasks, Restarts(t)
  PROVE  IInv'
<1> DEFINE row == [rows[t] EXCEPT !.status = "pending", !.at = 0, !.text = {}]
<1>1. rows[t] \in Row /\ rows[t].status \in Retryable
  BY NoRowFacts DEF Restarts, Resend, Retryable, IInv, TypeOK
<1>2. row \in Row /\ row.status = "pending" /\ row.text = {}
  <2>1. PICK r \in Row : r = rows[t]
    BY <1>1
  <2>2. PICK s \in Statuses : s = "pending"
    BY DEF Statuses
  <2>3. PICK n \in 0..MaxClock : n = 0
    BY SizesAssumption
  <2>4. PICK none \in SUBSET Tasks : none = {}
    OBVIOUS
  <2>5. row = [r EXCEPT !.status = s, !.at = n, !.text = none]
    BY <2>1, <2>2, <2>3, <2>4
  <2> HIDE DEF row
  <2>6. row \in Row /\ row.status = s /\ row.text = none
    BY <2>5 DEF Row, Statuses
  <2> QED
    BY <2>2, <2>4, <2>6
<1>3. rows[t].status \notin Settled \cup {"pending"}
  BY <1>1 DEF Retryable, Settled, Cached
<1>4. /\ base' \in [Tasks -> BOOLEAN] /\ \A s \in Tasks \ {t} : base'[s] = base[s]
      /\ resets' \in 0..MaxResets
  BY SizesAssumption DEF Restarts, Resend, IInv, TypeOK
<1>5. rows' = [rows EXCEPT ![t] = row]
  <2>1. rows \in [Tasks -> Row \cup {NoRow}]
    BY DEF IInv, TypeOK
  <2> QED
    BY <1>1, <2>1 DEF Restarts
<1> HIDE DEF row
<1> QED
  BY <1>2, <1>3, <1>4, <1>5, PendingIInv DEF Restarts, Resend, workerVars, ghostVars

\* A delivery row loses its message id, or gets another one.
LEMMA BaseIInv ==
  ASSUME IInv, base' \in [Tasks -> BOOLEAN], resets' \in 0..MaxResets,
         UNCHANGED <<clock, rows, pc, batch, own, copies, missed, calls, aborts>>
  PROVE  IInv'
<1> USE DEF IInv
<1>1. UNCHANGED workerVars
  BY DEF workerVars
<1>2. TypeOK'
  BY DEF TypeOK
<1>3. OwnInv' /\ RunningNeverCommitted' /\ FitInv'
  BY <1>1, SameWorkers DEF OwnInv, RunningNeverCommitted, FitInv, Fits
<1>4. CopiesInv'
  BY <1>1, SameWorkers DEF CopiesInv, Answered
<1>5. ShownInv'
  BY <1>1, SameWorkers DEF ShownInv, Shown
<1> QED
  BY <1>1, <1>2, <1>3, <1>4, <1>5, SameWorkers

\* An alert is delivered again.
LEMMA ResendIInv ==
  ASSUME IInv, NEW t \in Tasks, Resend(t)
  PROVE  IInv'
<1>1. CASE Restarts(t)
  BY <1>1, RestartsIInv
<1>2. CASE ~Restarts(t)
  <2>1. UNCHANGED <<clock, rows, pc, batch, own, copies, missed, calls, aborts>>
    BY <1>2 DEF Resend, Restarts, workerVars, ghostVars
  <2>2. base' \in [Tasks -> BOOLEAN] /\ resets' \in 0..MaxResets
    BY SizesAssumption DEF Resend, IInv, TypeOK
  <2> QED
    BY <2>1, <2>2, BaseIInv
<1> QED
  BY <1>1, <1>2

\* The delivery row loses its message id.
LEMMA LoseBaseIInv ==
  ASSUME IInv, NEW t \in Tasks, LoseBase(t)
  PROVE  IInv'
<1>1. UNCHANGED <<clock, rows, pc, batch, own, copies, missed, calls, aborts>>
  BY DEF LoseBase, workerVars, ghostVars
<1>2. base' \in [Tasks -> BOOLEAN] /\ resets' \in 0..MaxResets
  BY DEF LoseBase, IInv, TypeOK
<1> QED
  BY <1>1, <1>2, BaseIInv

\* No task exists at first.
LEMMA InitIInv == Init => IInv
<1> SUFFICES ASSUME Init PROVE IInv
  OBVIOUS
<1> USE NoRowFacts DEF Init
<1>1. TypeOK
  BY SizesAssumption, FS_EmptySet DEF TypeOK, PCs
<1>2. WorkInv /\ OwnInv /\ Exclusive /\ RunningNeverCommitted
  BY DEF WorkInv, OwnInv, Exclusive, RunningNeverCommitted, Working, Asking
<1>3. CopiesInv /\ ShownInv /\ FitInv
  BY DEF CopiesInv, ShownInv, FitInv, Fits, Cached
<1> QED
  BY <1>1, <1>2, <1>3 DEF IInv

\* Every step preserves the invariant.
LEMMA NextIInv == IInv /\ [Next]_vars => IInv'
<1> SUFFICES ASSUME IInv, [Next]_vars PROVE IInv'
  OBVIOUS
<1>1. CASE Tick \/ UNCHANGED vars
  BY <1>1, TickIInv
<1>2. ASSUME NEW t \in Tasks, Create(t) \/ Resend(t) \/ LoseBase(t) PROVE IInv'
  BY <1>2, CreateIInv, ResendIInv, LoseBaseIInv
<1>3. ASSUME NEW w \in Workers, Process(w) PROVE IInv'
  BY <1>3, CheckIInv, LookupIInv, BudgetIInv, CallModelIInv, SendIInv DEF Process
<1>4. ASSUME NEW w \in Workers, Step(w) PROVE IInv'
  BY <1>3, <1>4, ReclaimIInv, ListIInv, ClaimIInv, MissIInv, CommitIInv DEF Step
<1>5. ASSUME NEW w \in Workers, SendFails(w) \/ Abort(w) PROVE IInv'
  BY <1>5, SendFailsIInv, AbortIInv
<1> QED
  BY <1>1, <1>2, <1>4, <1>5 DEF Next

----------------------------------------------------------------------------
(* The invariants of every execution *)

\* The conjunction above is an invariant of any number of workers.
THEOREM InductiveInvariant == Spec => []IInv
<1> QED
  BY InitIInv, NextIInv, PTL DEF Spec

\* Every variable keeps its type, and no batch exceeds its limit.
THEOREM TypeCorrect == Spec => []TypeOK
<1>1. IInv => TypeOK
  BY DEF IInv
<1> QED
  BY <1>1, InductiveInvariant, PTL

\* Two workers never hold the same task.
THEOREM ExclusiveClaims == Spec => []ClaimsExclusive
<1>1. IInv => ClaimsExclusive
  BY DEF IInv, Exclusive, ClaimsExclusive, Touched
<1> QED
  BY <1>1, InductiveInvariant, PTL

\* Only a rollback lets a second explanation of an alert through.
THEOREM RepliesBounded == Spec => []RepliesBoundedByAborts
<1>1. ASSUME IInv PROVE RepliesBoundedByAborts
  <2>1. copies \in [Tasks -> Nat] /\ aborts \in Nat
    BY <1>1, SizesAssumption DEF IInv, TypeOK
  <2> QED
    BY <1>1, <2>1 DEF IInv, CopiesInv, RepliesBoundedByAborts
<1> QED
  BY <1>1, InductiveInvariant, PTL

\* A committed text was sent, whatever became of its delivery afterwards, unless
\* the worker that was to send it found no base message.
THEOREM CommittedText == Spec => []CommittedTextWasSent
<1>1. IInv => CommittedTextWasSent
  BY DEF IInv, ShownInv, Shown, CommittedTextWasSent
<1> QED
  BY <1>1, InductiveInvariant, PTL

\* No committed row is running: the stale reclaim has nothing to reclaim.
THEOREM NeverRunning == Spec => []RunningNeverCommitted
<1>1. IInv => RunningNeverCommitted
  BY DEF IInv
<1> QED
  BY <1>1, InductiveInvariant, PTL

\* However long a chain of reuse is, it stays within one cache key.
THEOREM ReuseFits == Spec => []ReusedTextFits
<1>1. IInv => ReusedTextFits
  BY DEF IInv, FitInv, Fits, ReusedTextFits
<1> QED
  BY <1>1, InductiveInvariant, PTL

\* A worker only changes rows that were pending, and only answers for them.
LEMMA SettledStep ==
  ASSUME IInv, [Next]_vars, NEW t \in Tasks, rows[t].status \in Settled
  PROVE  rows'[t] = rows[t] /\ copies'[t] = copies[t]
<1> USE DEF IInv
<1>1. rows[t].status \notin Retryable \cup {"pending", "running"} /\ rows[t] # NoRow
  BY NoRowFacts DEF Settled, Cached, Retryable
<1>2. \A w \in Workers : own[w][t] = NoRow
  BY <1>1 DEF OwnInv
<1>3. \A w \in Workers : pc[w] = "send" => t # Current(w)
  BY <1>1, InWork DEF Working
<1>4. copies \in [Tasks -> Nat] /\ rows \in [Tasks -> Row \cup {NoRow}]
  BY DEF TypeOK
<1>5. CASE Tick \/ UNCHANGED vars
  BY <1>5 DEF Tick, vars
<1>6. ASSUME NEW s \in Tasks, Create(s) \/ Resend(s) \/ LoseBase(s)
      PROVE  rows'[t] = rows[t] /\ copies'[t] = copies[t]
  BY <1>1, <1>4, <1>6 DEF Create, Resend, LoseBase, ghostVars
<1>7. ASSUME NEW w \in Workers, Step(w) \/ SendFails(w) \/ Abort(w)
      PROVE  rows'[t] = rows[t] /\ copies'[t] = copies[t]
  <2>1. CASE Commit(w)
    BY <1>2, <2>1 DEF Commit, View, Touched, ghostVars
  <2>2. CASE Send(w) \/ SendFails(w)
    <3>1. rows' = rows /\ t # Current(w)
      BY <1>3, <2>2 DEF Send, SendFails
    <3> QED
      BY <1>4, <2>2, <3>1 DEF Send, SendFails
  <2>3. CASE Reclaim(w) \/ List(w) \/ Claim(w) \/ Miss(w) \/ Abort(w)
    BY <2>3 DEF Reclaim, List, Claim, Miss, Abort, ghostVars
  <2>4. CASE Check(w) \/ Lookup(w) \/ Budget(w) \/ CallModel(w)
    BY <2>4 DEF Check, Lookup, Budget, CallModel, ghostVars
  <2> QED
    BY <1>7, <2>1, <2>2, <2>3, <2>4 DEF Step, Process
<1> QED
  BY <1>5, <1>6, <1>7 DEF Next

\* A task whose settled row is committed is over.
THEOREM SettledForGood == Spec => SettledIsFinal
<1>1. IInv /\ [Next]_vars =>
        [\A t \in Tasks : rows[t].status \in Settled =>
           rows'[t] = rows[t] /\ copies'[t] = copies[t]]_vars
  BY SettledStep
<1> QED
  BY <1>1, InductiveInvariant, PTL DEF Spec, SettledIsFinal

----------------------------------------------------------------------------
(* The refinement *)

\* The text of t has left in the transaction of w, or found no message to
\* reply to.
Out(w, t) ==
  /\ own[w][t].status \in Cached /\ own[w][t].text # {}
  /\ ~Unsent(w, t)

\* A task's phase before and after a step.
LEMMA PhaseValues ==
  ASSUME NEW t \in Tasks
  PROVE  /\ phaseOf[t] = IF rows[t].status \in Settled THEN "settled"
                         ELSE IF t \in Handed THEN "handed" ELSE "open"
         /\ phaseOf'[t] = IF rows'[t].status \in Settled THEN "settled"
                          ELSE IF t \in Handed' THEN "handed" ELSE "open"
         /\ t \in Handed <=> \E w \in Workers : Out(w, t)
         /\ t \in Handed' <=> \E w \in Workers : Out(w, t)'
<1> QED
  BY DEF phaseOf, Handed, Out, Unsent

\* What a step does to one task.
Keeps(t) == phaseOf'[t] = phaseOf[t] /\ copies'[t] = copies[t]
Hands(t) ==
  /\ phaseOf[t] = "open" /\ phaseOf'[t] = "handed"
  /\ copies'[t] \in {copies[t], copies[t] + 1}
Repeats(t) ==
  /\ phaseOf[t] = "open" /\ phaseOf'[t] = "open"
  /\ copies'[t] \in {copies[t], copies[t] + 1}
Forgets(t) ==
  /\ phaseOf[t] = "handed" /\ phaseOf'[t] = "open" /\ copies'[t] = copies[t]
Settles(t) ==
  /\ phaseOf[t] \in {"open", "handed"} /\ phaseOf'[t] = "settled"
  /\ copies'[t] = copies[t]

\* The functions after a step.
LEMMA PrimedFunctions ==
  ASSUME TypeOK'
  PROVE  /\ phaseOf' = [t \in Tasks |-> phaseOf'[t]]
         /\ copies' = [t \in Tasks |-> copies'[t]]
<1>1. copies' = [t \in Tasks |-> copies'[t]]
  BY DEF TypeOK
<1>2. phaseOf' = [t \in Tasks |-> phaseOf'[t]]
  BY DEF phaseOf
<1> QED
  BY <1>1, <1>2

\* A step that keeps every task is a stutter.
LEMMA AllKeep ==
  ASSUME TypeOK, TypeOK', \A t \in Tasks : Keeps(t)
  PROVE  UNCHANGED Promise!absvars
<1>1. phaseOf = [t \in Tasks |-> phaseOf[t]] /\ copies = [t \in Tasks |-> copies[t]]
  BY DEF phaseOf, TypeOK
<1> QED
  BY <1>1, PrimedFunctions DEF Keeps, Promise!absvars

\* A step that hands some tasks over.
LEMMA AllHand ==
  ASSUME TypeOK, TypeOK', \A t \in Tasks : Keeps(t) \/ Hands(t)
  PROVE  Promise!HandOver
<1> DEFINE S == {t \in Tasks : Hands(t)}
           R == {t \in S : copies'[t] # copies[t]}
<1>1. S \in SUBSET Promise!In("open") /\ R \in SUBSET S
  BY DEF Hands, Promise!In
<1>2. phaseOf' = [t \in Tasks |-> IF t \in S THEN "handed" ELSE phaseOf[t]]
  BY PrimedFunctions DEF Hands, Keeps
<1>3. copies' = [t \in Tasks |-> IF t \in R THEN copies[t] + 1 ELSE copies[t]]
  BY PrimedFunctions DEF Hands, Keeps
<1>4. Promise!Into("handed", S) /\ Promise!Shown(R)
  BY <1>2, <1>3, Zenon DEF Promise!Into, Promise!Shown
<1> QED
  BY <1>1, <1>4, Zenon DEF Promise!HandOver

\* A step that repeats or forgets some tasks.
LEMMA AllFault ==
  ASSUME TypeOK, TypeOK', \A t \in Tasks : Keeps(t) \/ Repeats(t) \/ Forgets(t)
  PROVE  Promise!Fault
<1> DEFINE R == {t \in Tasks : Repeats(t) /\ copies'[t] # copies[t]}
           S == {t \in Tasks : Forgets(t)}
<1>1. R \in SUBSET Promise!In("open") /\ S \in SUBSET Promise!In("handed")
  BY DEF Repeats, Forgets, Promise!In
<1>2. phaseOf' = [t \in Tasks |-> IF t \in S THEN "open" ELSE phaseOf[t]]
  BY PrimedFunctions DEF Repeats, Forgets, Keeps
<1>3. copies' = [t \in Tasks |-> IF t \in R THEN copies[t] + 1 ELSE copies[t]]
  BY PrimedFunctions DEF Repeats, Forgets, Keeps
<1>4. Promise!Into("open", S) /\ Promise!Shown(R)
  BY <1>2, <1>3, Zenon DEF Promise!Into, Promise!Shown
<1> QED
  BY <1>1, <1>4, Zenon DEF Promise!Fault

\* A step that settles some tasks.
LEMMA AllSettle ==
  ASSUME TypeOK, TypeOK', \A t \in Tasks : Keeps(t) \/ Settles(t)
  PROVE  Promise!Settle
<1> DEFINE S == {t \in Tasks : Settles(t)}
<1>1. S \in SUBSET (Promise!In("open") \cup Promise!In("handed"))
  BY DEF Settles, Promise!In
<1>2. phaseOf' = [t \in Tasks |-> IF t \in S THEN "settled" ELSE phaseOf[t]]
  BY PrimedFunctions DEF Settles, Keeps
<1>3. copies' = copies
  <2>1. copies = [t \in Tasks |-> copies[t]] /\ \A t \in Tasks : copies'[t] = copies[t]
    BY DEF Settles, Keeps, TypeOK
  <2> QED
    BY <2>1, PrimedFunctions, Zenon
<1>4. Promise!Into("settled", S)
  BY <1>2, Zenon DEF Promise!Into
<1> QED
  BY <1>1, <1>3, <1>4, Zenon DEF Promise!Settle

\* What is settled is settled, and what left is what left: nothing to see.
LEMMA SameOut ==
  ASSUME TypeOK, TypeOK', copies' = copies,
         \A t \in Tasks : rows'[t].status \in Settled <=> rows[t].status \in Settled,
         \A w \in Workers, t \in Tasks : Out(w, t)' <=> Out(w, t)
  PROVE  UNCHANGED Promise!absvars
<1>1. \A t \in Tasks : t \in Handed' <=> t \in Handed
  BY PhaseValues
<1>2. \A t \in Tasks : Keeps(t)
  BY <1>1, PhaseValues DEF Keeps
<1> QED
  BY <1>2, AllKeep

\* The environment changes no settled row and no transaction.
LEMMA EnvironmentStutters ==
  ASSUME TypeOK, TypeOK',
         \/ Tick \/ UNCHANGED vars
         \/ \E t \in Tasks : Create(t) \/ Resend(t) \/ LoseBase(t)
  PROVE  UNCHANGED Promise!absvars
<1>1. UNCHANGED <<pc, batch, own, copies>>
  BY DEF Tick, vars, workerVars, ghostVars, Create, Resend, LoseBase
<1>2. \A w \in Workers, t \in Tasks : Out(w, t)' <=> Out(w, t)
  BY <1>1 DEF Out, Unsent, Current
<1>3. ASSUME NEW t \in Tasks
      PROVE  rows'[t].status \in Settled <=> rows[t].status \in Settled
  <2>1. rows \in [Tasks -> Row \cup {NoRow}]
    BY DEF TypeOK
  <2>2. CASE rows'[t] = rows[t]
    BY <2>2
  <2>3. CASE rows'[t] # rows[t]
    <3>1. Create(t) \/ Restarts(t)
      BY <2>1, <2>3 DEF Tick, vars, Create, Restarts, Resend, LoseBase
    <3>2. rows'[t].status = "pending"
      <4>1. CASE Create(t)
        BY <2>1, <4>1 DEF Create
      <4>2. CASE Restarts(t)
        <5>1. rows[t] \in Row
          BY <2>1, <4>2, NoRowFacts DEF Restarts, Retryable
        <5> QED
          BY <2>1, <4>2, <5>1 DEF Restarts, Row
      <4> QED
        BY <3>1, <4>1, <4>2
    <3>3. rows[t].status \notin Settled
      BY <3>1, NoRowFacts DEF Create, Restarts, Retryable, Settled, Cached
    <3> QED
      BY <3>2, <3>3 DEF Settled, Cached
  <2> QED
    BY <2>2, <2>3
<1> QED
  BY <1>1, <1>2, <1>3, SameOut

\* Listing the tasks and passing one over sends nothing.
LEMMA ListStutters ==
  ASSUME IInv, TypeOK', NEW w \in Workers, Reclaim(w) \/ List(w) \/ Miss(w)
  PROVE  UNCHANGED Promise!absvars
<1>1. TypeOK /\ UNCHANGED <<rows, copies>>
  BY DEF IInv, Reclaim, List, Miss, ghostVars
<1>2. /\ pc[w] # "send" /\ pc'[w] # "send"
      /\ \A v \in Workers \ {w} : pc'[v] = pc[v] /\ batch'[v] = batch[v]
  BY <1>1 DEF Reclaim, List, Miss, Pass, Goto, TypeOK
<1>3. ASSUME NEW v \in Workers, NEW t \in Tasks PROVE own'[v][t] = own[v][t]
  <2>1. CASE Reclaim(w)
    <3>1. own[w][t] = NoRow /\ rows[t].status # "running"
      BY <2>1 DEF IInv, WorkInv, RunningNeverCommitted, Reclaim
    <3> QED
      BY <1>1, <2>1, <3>1 DEF Reclaim, TypeOK
  <2> QED
    BY <2>1 DEF List, Miss
<1>4. \A v \in Workers, t \in Tasks : Out(v, t)' <=> Out(v, t)
  BY <1>2, <1>3 DEF Out, Unsent, Current
<1> QED
  BY <1>1, <1>4, SameOut

\* What a worker records of its task before the reply: no text, or one that
\* is about to leave.
LEMMA RecordedUnsent ==
  ASSUME IInv, TypeOK', NEW w \in Workers, NEW c \in Tasks, c = Current(w),
         Claim(w) \/ Check(w) \/ Lookup(w) \/ Budget(w) \/ CallModel(w),
         own'[w][c].status \in Cached, own'[w][c].text # {}
  PROVE  pc'[w] = "send"
<1>1. TypeOK
  BY DEF IInv
<1>2. own \in [Workers -> [Tasks -> Row \cup {NoRow}]] /\ pc \in [Workers -> PCs]
  BY <1>1 DEF TypeOK
<1>3. ASSUME pc[w] \in Asking, NEW status \in Statuses, NEW text \in SUBSET Tasks,
             Put(w, Finished(w, status, text))
      PROVE  text # {}
  <2>1. own'[w][c] = Finished(w, status, text)
    BY <1>2, <1>3 DEF Put
  <2> QED
    BY <1>3, <2>1, FinishedRow
<1>4. ASSUME pc[w] \in Asking, own' = own PROVE FALSE
  BY <1>4, InWork DEF Working, Cached
<1>5. ASSUME NEW text, text # {}, SendOrPass(w, text) PROVE pc'[w] = "send"
  BY <1>2, <1>5 DEF SendOrPass, Goto
<1>6. CASE Claim(w)
  <2>1. View(w, c) \in Row
    BY <1>2, <1>6, NoRowFacts DEF Claim, Claimable, View, TypeOK, IInv
  <2>2. own'[w][c] = [View(w, c) EXCEPT !.status = "running", !.at = clock]
    BY <1>2, <1>6 DEF Claim, Put
  <2>3. own'[w][c].status = "running"
    BY <2>1, <2>2 DEF Row
  <2> QED
    BY <2>3 DEF Cached
<1>7. CASE Check(w)
  <2>1. pc[w] \in Asking /\ {"skipped_no_base_message", "skipped_disabled"} \subseteq Statuses
    BY <1>7 DEF Check, Asking, Statuses, Settled
  <2> QED
    BY <1>3, <1>4, <1>7, <2>1 DEF Check
<1>8. CASE Lookup(w)
  <2>1. pc[w] \in Asking /\ "reused_cache" \in Statuses
    BY <1>8 DEF Lookup, Asking, Statuses, Settled, Cached
  <2>2. ASSUME NEW t \in NewestHits(w),
               Put(w, Finished(w, "reused_cache", View(w, t).text)),
               SendOrPass(w, View(w, t).text)
        PROVE  pc'[w] = "send"
    <3>1. t \in Tasks /\ View(w, t) \in Row \cup {NoRow}
      BY <1>1 DEF NewestHits, Hits, View, TypeOK
    <3>2. View(w, t).text \in SUBSET Tasks
      BY <3>1, RowFacts, NoRowFacts
    <3> QED
      BY <1>3, <1>5, <2>1, <2>2, <3>2
  <2> QED
    BY <1>4, <1>8, <2>1, <2>2 DEF Lookup
<1>9. CASE Budget(w)
  <2>1. pc[w] \in Asking /\ "skipped_cost_cap" \in Statuses
    BY <1>9 DEF Budget, Asking, Statuses, Retryable
  <2> QED
    BY <1>3, <1>4, <1>9, <2>1 DEF Budget
<1>10. CASE CallModel(w)
  <2>1. pc[w] \in Asking /\ {"failed", "completed"} \subseteq Statuses
    BY <1>10 DEF CallModel, Asking, Statuses, Settled, Retryable, Cached
  <2>2. ASSUME NEW text \in {{}, {c}},
               Put(w, Finished(w, "completed", text)), SendOrPass(w, text)
        PROVE  pc'[w] = "send"
    BY <1>3, <1>5, <2>1, <2>2
  <2>3. ~Put(w, Finished(w, "failed", {}))
    BY <1>3, <2>1
  <2> QED
    BY <1>10, <2>2, <2>3 DEF CallModel
<1> QED
  BY <1>6, <1>7, <1>8, <1>9, <1>10

\* A claim, and all that process_task does up to the reply, sends nothing.
LEMMA TaskStutters ==
  ASSUME IInv, TypeOK', NEW w \in Workers,
         Claim(w) \/ Check(w) \/ Lookup(w) \/ Budget(w) \/ CallModel(w)
  PROVE  UNCHANGED Promise!absvars
<1>1. TypeOK /\ UNCHANGED <<rows, copies>>
  BY DEF IInv, Claim, Check, Lookup, Budget, CallModel, ghostVars
<1>2. /\ own \in [Workers -> [Tasks -> Row \cup {NoRow}]] /\ pc \in [Workers -> PCs]
      /\ batch \in [Workers -> SUBSET Tasks]
  BY <1>1 DEF TypeOK
<1>3. pc[w] \in Asking \cup {"claim"} /\ batch[w] # {}
  BY InWork DEF Claim, Check, Lookup, Budget, CallModel, Asking, Working
<1>4. PICK c \in Tasks : c = Current(w)
  BY <1>1, <1>3, CurrentInBatch
<1>5. \/ own' = own
      \/ \E row : own' = [own EXCEPT ![w][c] = row]
  BY <1>4 DEF Claim, Check, Lookup, Budget, CallModel, Put
<1>6. /\ \A v \in Workers \ {w} : pc'[v] = pc[v] /\ batch'[v] = batch[v]
      /\ pc'[w] = "send" => batch'[w] = batch[w]
  BY <1>2 DEF Claim, Check, Lookup, Budget, CallModel, Pass, SendOrPass, Goto
<1>7. ASSUME NEW v \in Workers, NEW t \in Tasks PROVE Out(v, t)' <=> Out(v, t)
  <2>1. CASE v # w
    <3>1. own'[v] = own[v] /\ Current(v)' = Current(v)
      BY <1>2, <1>5, <1>6, <2>1 DEF Current
    <3> QED
      BY <1>6, <2>1, <3>1 DEF Out, Unsent
  <2>2. CASE v = w /\ t # c
    <3>1. own'[w][t] = own[w][t]
      BY <1>2, <1>5, <2>2
    <3>2. pc'[w] = "send" => Current(w)' = c
      BY <1>4, <1>6 DEF Current
    <3>3. ~Unsent(w, t) /\ ~Unsent(w, t)'
      BY <1>3, <2>2, <3>2 DEF Unsent, Asking
    <3> QED
      BY <2>2, <3>1, <3>3 DEF Out
  <2>3. CASE v = w /\ t = c
    <3>1. ~Out(w, c)
      <4>1. CASE pc[w] \in Asking
        BY <1>4, <4>1, InWork DEF Out, Working, Cached
      <4>2. CASE pc[w] = "claim"
        <5>1. View(w, c).status = "pending"
          BY <1>4, <4>2 DEF Claim, Claimable, Check, Lookup, Budget, CallModel
        <5>2. own[w][c] = NoRow
          BY <5>1 DEF View, Touched, IInv, OwnInv
        <5> QED
          BY <5>2, NoRowFacts DEF Out
      <4> QED
        BY <1>3, <4>1, <4>2
    <3>2. ~Out(w, c)'
      <4>1. own'[w][c].status \in Cached /\ own'[w][c].text # {} => pc'[w] = "send"
        BY <1>4, RecordedUnsent
      <4>2. pc'[w] = "send" => Current(w)' = c
        BY <1>4, <1>6 DEF Current
      <4> QED
        BY <4>1, <4>2 DEF Out, Unsent
    <3> QED
      BY <2>3, <3>1, <3>2
  <2> QED
    BY <2>1, <2>2, <2>3
<1> QED
  BY <1>1, <1>7, SameOut

\* A task that is about to be replied to is open, whoever else works.
LEMMA UnsentIsOpen ==
  ASSUME IInv, NEW w \in Workers, pc[w] = "send", NEW c \in Tasks, c = Current(w)
  PROVE  /\ phaseOf[c] = "open" /\ rows[c].status \notin Settled
         /\ \A v \in Workers : ~Out(v, c)
         /\ \A v \in Workers \ {w} : own[v][c] = NoRow
<1>1. /\ rows[c].status = "pending"
      /\ \A v \in Workers \ {w} : own[v][c] = NoRow
  BY InWork DEF Working
<1>2. \A v \in Workers : ~Out(v, c)
  BY <1>1, NoRowFacts DEF Out, Unsent
<1>3. rows[c].status \notin Settled
  BY <1>1 DEF Settled, Cached
<1> QED
  BY <1>1, <1>2, <1>3, PhaseValues

\* The reply leaves: the task is handed over.
LEMMA SendRefines ==
  ASSUME IInv, TypeOK', NEW w \in Workers, Send(w)
  PROVE  Promise!HandOver
<1>1. PICK c \in Tasks : c = Current(w)
  BY InWork DEF Send, Working
<1>2. TypeOK /\ pc[w] = "send" /\ UNCHANGED <<rows, own>>
  BY DEF IInv, Send
<1>3. /\ own[w][c].status \in Cached /\ own[w][c].text # {}
      /\ phaseOf[c] = "open" /\ rows[c].status \notin Settled
  BY <1>1, <1>2, InWork, UnsentIsOpen DEF Working
<1>4. /\ pc'[w] = "claim"
      /\ \A v \in Workers \ {w} : pc'[v] = pc[v] /\ batch'[v] = batch[v]
  BY <1>2 DEF Send, Pass, Goto, TypeOK
<1>5. /\ copies'[c] \in {copies[c], copies[c] + 1}
      /\ \A t \in Tasks \ {c} : copies'[t] = copies[t]
  BY <1>1, <1>2 DEF Send, TypeOK
<1>6. ASSUME NEW t \in Tasks \ {c} PROVE Keeps(t)
  <2>1. ASSUME NEW v \in Workers PROVE Out(v, t)' <=> Out(v, t)
    <3>1. CASE v = w
      BY <1>1, <1>2, <1>4, <3>1 DEF Out, Unsent
    <3>2. CASE v # w
      BY <1>2, <1>4, <3>2 DEF Out, Unsent, Current
    <3> QED
      BY <3>1, <3>2
  <2>2. t \in Handed' <=> t \in Handed
    BY <2>1, PhaseValues
  <2> QED
    BY <1>2, <1>5, <2>2, PhaseValues DEF Keeps
<1>7. Hands(c)
  <2>1. Out(w, c)'
    BY <1>2, <1>3, <1>4 DEF Out, Unsent
  <2>2. c \in Handed'
    BY <2>1, PhaseValues
  <2>3. phaseOf'[c] = "handed"
    BY <1>2, <1>3, <2>2, PhaseValues
  <2> QED
    BY <1>3, <1>5, <2>3 DEF Hands
<1> QED
  BY <1>2, <1>6, <1>7, AllHand

\* A rollback forgets what left, and the reply that failed may have left.
LEMMA RollBackRefines ==
  ASSUME IInv, TypeOK', NEW w \in Workers, SendFails(w) \/ Abort(w)
  PROVE  Promise!Fault
<1>1. TypeOK /\ RollBack(w) /\ rows' = rows
  BY DEF IInv, SendFails, Abort
<1>2. /\ \A t \in Tasks : own'[w][t] = NoRow
      /\ \A v \in Workers \ {w} :
           own'[v] = own[v] /\ pc'[v] = pc[v] /\ batch'[v] = batch[v]
  BY <1>1 DEF RollBack, Goto, TypeOK
<1>3. ASSUME NEW t \in Tasks
      PROVE  /\ ~Out(w, t)'
             /\ \A v \in Workers \ {w} : Out(v, t)' <=> Out(v, t)
  BY <1>2, NoRowFacts DEF Out, Unsent, Current
<1>4. ASSUME NEW t \in Tasks PROVE Keeps(t) \/ Repeats(t) \/ Forgets(t)
  <2>1. CASE Out(w, t)
    <3>1. own[w][t] # NoRow
      BY <2>1, NoRowFacts DEF Out
    <3>2. /\ rows[t].status \notin Settled
          /\ \A v \in Workers \ {w} : own[v][t] = NoRow
      BY <3>1 DEF IInv, OwnInv, Exclusive, Settled, Cached
    <3>3. \A v \in Workers \ {w} : ~Out(v, t)
      BY <3>2, NoRowFacts DEF Out
    <3>4. t \in Handed /\ t \notin Handed'
      BY <1>3, <2>1, <3>3, PhaseValues
    <3>5. copies'[t] = copies[t]
      <4>1. CASE SendFails(w)
        <5>1. t # Current(w)
          BY <2>1, <4>1 DEF Out, Unsent, SendFails
        <5> QED
          BY <1>1, <4>1, <5>1 DEF SendFails, TypeOK
      <4>2. CASE Abort(w)
        BY <4>2 DEF Abort, ghostVars
      <4> QED
        BY <4>1, <4>2
    <3> QED
      BY <1>1, <3>2, <3>4, <3>5, PhaseValues DEF Forgets
  <2>2. CASE ~Out(w, t)
    <3>1. t \in Handed' <=> t \in Handed
      BY <1>3, <2>2, PhaseValues
    <3>2. phaseOf'[t] = phaseOf[t]
      BY <1>1, <3>1, PhaseValues
    <3>3. CASE copies'[t] = copies[t]
      BY <3>2, <3>3 DEF Keeps
    <3>4. CASE copies'[t] # copies[t]
      <4>1. SendFails(w) /\ t = Current(w) /\ copies'[t] \in {copies[t], copies[t] + 1}
        BY <1>1, <3>4 DEF SendFails, Abort, ghostVars, TypeOK
      <4>2. phaseOf[t] = "open"
        BY <4>1, UnsentIsOpen DEF SendFails
      <4> QED
        BY <3>2, <4>1, <4>2 DEF Repeats
    <3> QED
      BY <3>3, <3>4
  <2> QED
    BY <2>1, <2>2
<1> QED
  BY <1>1, <1>4, AllFault

\* The commit settles what ended for good; the retryable rows stay open.
LEMMA CommitRefines ==
  ASSUME IInv, TypeOK', NEW w \in Workers, Commit(w)
  PROVE  Promise!Settle
<1>1. TypeOK /\ copies' = copies
  BY DEF IInv, Commit, ghostVars
<1>2. /\ \A t \in Tasks : own'[w][t] = NoRow
      /\ \A t \in Tasks : rows'[t] = IF own[w][t] = NoRow THEN rows[t] ELSE own[w][t]
      /\ \A v \in Workers \ {w} :
           own'[v] = own[v] /\ pc'[v] = pc[v] /\ batch'[v] = batch[v]
  BY <1>1 DEF Commit, Goto, View, Touched, TypeOK
<1>3. ASSUME NEW t \in Tasks
      PROVE  /\ ~Out(w, t)'
             /\ \A v \in Workers \ {w} : Out(v, t)' <=> Out(v, t)
  BY <1>2, NoRowFacts DEF Out, Unsent, Current
<1>4. ASSUME NEW t \in Tasks PROVE Keeps(t) \/ Settles(t)
  <2>1. CASE own[w][t] = NoRow
    <3>1. ~Out(w, t)
      BY <2>1, NoRowFacts DEF Out
    <3>2. t \in Handed' <=> t \in Handed
      BY <1>3, <3>1, PhaseValues
    <3> QED
      BY <1>1, <1>2, <2>1, <3>2, PhaseValues DEF Keeps
  <2>2. CASE own[w][t] # NoRow
    <3>1. /\ rows'[t] = own[w][t] /\ rows[t].status \notin Settled
          /\ \A v \in Workers \ {w} : own[v][t] = NoRow
      BY <1>2, <2>2 DEF IInv, OwnInv, Exclusive, Settled, Cached
    <3>2. \A v \in Workers \ {w} : ~Out(v, t)
      BY <3>1, NoRowFacts DEF Out
    <3>3. t \notin Handed'
      BY <1>3, <3>2, PhaseValues
    <3>4. CASE own[w][t].status \in Settled
      <4>1. phaseOf'[t] = "settled" /\ phaseOf[t] \in {"open", "handed"}
        BY <3>1, <3>4, PhaseValues
      <4> QED
        BY <1>1, <4>1 DEF Settles
    <3>5. CASE own[w][t].status \notin Settled
      <4>1. ~Out(w, t)
        BY <3>5 DEF Out, Settled
      <4>2. t \notin Handed
        BY <3>2, <4>1, PhaseValues
      <4> QED
        BY <1>1, <3>1, <3>3, <3>5, <4>2, PhaseValues DEF Keeps
    <3> QED
      BY <3>4, <3>5
  <2> QED
    BY <2>1, <2>2
<1> QED
  BY <1>1, <1>4, AllSettle

\* Every step is one of the abstract specification or a stutter.
LEMMA StepRefines == IInv /\ [Next]_vars => [Promise!Next]_(Promise!absvars)
<1> SUFFICES ASSUME IInv, [Next]_vars
             PROVE  Promise!Next \/ UNCHANGED Promise!absvars
  OBVIOUS
<1>1. TypeOK /\ TypeOK'
  BY NextIInv DEF IInv
<1>2. CASE \/ Tick \/ UNCHANGED vars
           \/ \E t \in Tasks : Create(t) \/ Resend(t) \/ LoseBase(t)
  BY <1>1, <1>2, EnvironmentStutters
<1>3. ASSUME NEW w \in Workers, Step(w) \/ SendFails(w) \/ Abort(w)
      PROVE  Promise!Next \/ UNCHANGED Promise!absvars
  <2>1. CASE Reclaim(w) \/ List(w) \/ Miss(w)
    BY <1>1, <2>1, ListStutters
  <2>2. CASE Claim(w) \/ Check(w) \/ Lookup(w) \/ Budget(w) \/ CallModel(w)
    BY <1>1, <2>2, TaskStutters
  <2>3. CASE Send(w)
    BY <1>1, <2>3, SendRefines DEF Promise!Next
  <2>4. CASE SendFails(w) \/ Abort(w)
    BY <1>1, <2>4, RollBackRefines DEF Promise!Next
  <2>5. CASE Commit(w)
    BY <1>1, <2>5, CommitRefines DEF Promise!Next
  <2> QED
    BY <1>3, <2>1, <2>2, <2>3, <2>4, <2>5 DEF Step, Process
<1> QED
  BY <1>2, <1>3 DEF Next

\* Any number of workers together implement at-least-once delivery: each
\* explanation is sent once and its task then settled, a second one takes a
\* rollback, and none follows the commit.
THEOREM Refinement == Spec => ImplementsAtLeastOnce
<1>1. Init => Promise!Init
  BY NoRowFacts DEF Init, Promise!Init, phaseOf, Handed, Settled, Cached
<1>2. IInv /\ [Next]_vars => [Promise!Next]_(Promise!absvars)
  BY StepRefines
<1> QED
  BY <1>1, <1>2, InductiveInvariant, PTL DEF Spec, ImplementsAtLeastOnce, Promise!Spec

----------------------------------------------------------------------------
(* The caps of a single worker *)

\* Rows of f that consumed budget in the len units up to x, or after x.
Ended(f, x, len) ==
  {t \in Tasks : f[t].status \in Counted /\ x - len < f[t].at /\ f[t].at <= x}
Since(f, x) == {t \in Tasks : f[t].status \in Counted /\ f[t].at > x}

\* The table as the transaction of w sees it.
Table(w) == [t \in Tasks |-> View(w, t)]

\* Whatever consumes budget in g does so in f.
Within(g, f) ==
  \A t \in Tasks : g[t].status \in Counted => f[t].status \in Counted /\ f[t].at = g[t].at

\* A cap holds outside the transactions and in each of them, and a worker
\* about to ask is below it.
CapInv(len, cap) ==
  /\ \A x \in 1..MaxClock : Cardinality(Ended(rows, x, len)) <= cap
  /\ \A w \in Workers :
       /\ \A x \in 1..MaxClock : Cardinality(Ended(Table(w), x, len)) <= cap
       /\ pc[w] = "call" => Cardinality(Since(Table(w), clock - len)) < cap

\* Fewer tasks, smaller numbers.
LEMMA FewerTasks ==
  ASSUME NEW S \in SUBSET Tasks, NEW T \in SUBSET S
  PROVE  Cardinality(T) <= Cardinality(S) /\ Cardinality(S) \in Nat /\ Cardinality(T) \in Nat
<1>1. S \in SUBSET (1..NumTasks) /\ T \in SUBSET (1..NumTasks) /\ NumTasks \in Nat
  BY SizesAssumption DEF Tasks
<1> QED
  BY <1>1, FiniteBatch, FS_Subset

\* A table with no more consumption counts no more of it.
LEMMA WithinEnded ==
  ASSUME NEW f, NEW g, Within(g, f), NEW len, NEW x
  PROVE  /\ Cardinality(Ended(g, x, len)) <= Cardinality(Ended(f, x, len))
         /\ Cardinality(Ended(g, x, len)) \in Nat /\ Cardinality(Ended(f, x, len)) \in Nat
<1>1. Ended(f, x, len) \in SUBSET Tasks
  BY DEF Ended
<1>2. Ended(g, x, len) \in SUBSET Ended(f, x, len)
  BY DEF Ended, Within
<1> QED
  BY <1>1, <1>2, FewerTasks

\* What is within the caps stays within them.
LEMMA WithinSince ==
  ASSUME NEW f, NEW g, Within(g, f), NEW x \in Int, NEW y \in Int, x <= y,
         \A t \in Tasks : f[t].at \in Int
  PROVE  /\ Cardinality(Since(g, y)) <= Cardinality(Since(f, x))
         /\ Cardinality(Since(g, y)) \in Nat /\ Cardinality(Since(f, x)) \in Nat
<1>1. Since(f, x) \in SUBSET Tasks
  BY DEF Since
<1>2. Since(g, y) \in SUBSET Since(f, x)
  BY DEF Since, Within
<1> QED
  BY <1>1, <1>2, FewerTasks

\* Rows have times.
LEMMA TableTimes ==
  ASSUME TypeOK
  PROVE  /\ \A t \in Tasks : rows[t].at \in Int
         /\ \A w \in Workers, t \in Tasks : Table(w)[t].at \in Int
<1>1. \A row \in Row \cup {NoRow} : row.at \in Int
  BY SizesAssumption DEF Row, NoRow
<1> QED
  BY <1>1 DEF Table, View, TypeOK

\* A step after which every table is within one it was within before keeps
\* the cap.
LEMMA CapStep ==
  ASSUME TypeOK, TypeOK', NEW len \in Nat, NEW cap \in Nat, CapInv(len, cap),
         clock <= clock',
         Within(rows', rows) \/ \E w \in Workers : Within(rows', Table(w)),
         \A w \in Workers :
           /\ Within(Table(w)', Table(w)) \/ Within(Table(w)', rows)
           /\ pc'[w] = "call" =>
                \/ pc[w] = "call" /\ Within(Table(w)', Table(w))
                \/ Cardinality(Since(Table(w)', clock' - len)) < cap
  PROVE  CapInv(len, cap)'
<1>1. clock \in Int /\ clock' \in Int /\ \A x \in 1..MaxClock : x \in Int
  BY SizesAssumption DEF TypeOK
<1>2. ASSUME NEW x \in 1..MaxClock PROVE Cardinality(Ended(rows', x, len)) <= cap
  <2>1. CASE Within(rows', rows)
    <3>1. /\ Cardinality(Ended(rows', x, len)) <= Cardinality(Ended(rows, x, len))
          /\ Cardinality(Ended(rows', x, len)) \in Nat
          /\ Cardinality(Ended(rows, x, len)) \in Nat
      BY <2>1, WithinEnded, Zenon
    <3>2. Cardinality(Ended(rows, x, len)) <= cap
      BY <2>1 DEF CapInv
    <3> QED
      BY <3>1, <3>2
  <2>2. ASSUME NEW w \in Workers, Within(rows', Table(w))
        PROVE  Cardinality(Ended(rows', x, len)) <= cap
    <3>1. /\ Cardinality(Ended(rows', x, len)) <= Cardinality(Ended(Table(w), x, len))
          /\ Cardinality(Ended(rows', x, len)) \in Nat
          /\ Cardinality(Ended(Table(w), x, len)) \in Nat
      BY <2>2, WithinEnded, Zenon
    <3>2. Cardinality(Ended(Table(w), x, len)) <= cap
      BY <2>2 DEF CapInv
    <3> QED
      BY <3>1, <3>2
  <2> QED
    BY <2>1, <2>2
<1>3. ASSUME NEW x \in 1..MaxClock, NEW w \in Workers
      PROVE  Cardinality(Ended(Table(w)', x, len)) <= cap
  <2>1. CASE Within(Table(w)', rows)
    BY <1>1, <2>1, WithinEnded DEF CapInv
  <2>2. CASE Within(Table(w)', Table(w))
    BY <1>1, <2>2, WithinEnded DEF CapInv
  <2> QED
    BY <2>1, <2>2
<1>4. ASSUME NEW w \in Workers, pc'[w] = "call"
      PROVE  Cardinality(Since(Table(w)', clock' - len)) < cap
  <2>1. CASE pc[w] = "call" /\ Within(Table(w)', Table(w))
    <3>1. clock - len \in Int /\ clock' - len \in Int /\ clock - len <= clock' - len
      <4> DEFINE a == clock
                 b == clock'
      <4>1. a \in Int /\ b \in Int /\ a <= b
        BY <1>1
      <4> HIDE DEF a, b
      <4>2. a - len \in Int /\ b - len \in Int /\ a - len <= b - len
        BY <4>1
      <4> QED
        BY <4>2 DEF a, b
    <3>2. /\ Cardinality(Since(Table(w)', clock' - len)) <= Cardinality(Since(Table(w), clock - len))
          /\ Cardinality(Since(Table(w)', clock' - len)) \in Nat
          /\ Cardinality(Since(Table(w), clock - len)) \in Nat
      BY <2>1, <3>1, WithinSince, TableTimes
    <3>3. Cardinality(Since(Table(w), clock - len)) < cap
      BY <2>1 DEF CapInv
    <3> QED
      BY <3>2, <3>3
  <2> QED
    BY <1>4, <2>1
<1> QED
  BY <1>2, <1>3, <1>4 DEF CapInv, Ended, Since

\* The worker that is deployed, without another one beside it.
Alone == \E w : Workers = {w}

\* Steps that leave the committed rows alone, and put nothing into a
\* transaction that consumes budget.
LEMMA QuietStep ==
  ASSUME TypeOK, TypeOK', NEW len \in Nat, NEW cap \in Nat, CapInv(len, cap),
         clock <= clock', rows' = rows,
         \A w \in Workers :
           /\ own'[w] = own[w] \/ \A t \in Tasks :
                own'[w][t] = own[w][t] \/ own'[w][t].status \notin Counted \cup {"absent"}
           /\ pc'[w] = "call" => pc[w] = "call"
  PROVE  CapInv(len, cap)'
<1>1. ASSUME NEW w \in Workers PROVE Within(Table(w)', Table(w))
  <2>1. ASSUME NEW t \in Tasks, View(w, t)'.status \in Counted PROVE View(w, t)' = View(w, t)
    BY <2>1, NoRowFacts DEF View, Touched
  <2> QED
    BY <2>1 DEF Within, Table
<1>2. Within(rows', rows)
  BY DEF Within
<1> QED
  BY <1>1, <1>2, CapStep

\* Rows that become pending do not consume budget.
LEMMA PendingCap ==
  ASSUME TypeOK, TypeOK', NEW len \in Nat, NEW cap \in Nat, CapInv(len, cap),
         NEW t \in Tasks, rows'[t].status = "pending",
         \A s \in Tasks \ {t} : rows'[s] = rows[s],
         UNCHANGED <<clock, pc, own>>
  PROVE  CapInv(len, cap)'
<1>1. "pending" \notin Counted /\ clock <= clock'
  BY SizesAssumption DEF Counted, TypeOK
<1>2. Within(rows', rows)
  BY <1>1 DEF Within
<1>3. ASSUME NEW w \in Workers PROVE Within(Table(w)', Table(w))
  BY <1>1 DEF Within, Table, View, Touched
<1> QED
  BY <1>1, <1>2, <1>3, CapStep

\* A rollback shows the worker the committed rows again.
LEMMA RollBackCap ==
  ASSUME TypeOK, TypeOK', NEW len \in Nat, NEW cap \in Nat, CapInv(len, cap),
         NEW w \in Workers, RollBack(w), UNCHANGED <<clock, rows>>
  PROVE  CapInv(len, cap)'
<1>1. clock <= clock' /\ Within(rows', rows)
  BY SizesAssumption DEF TypeOK, Within
<1>2. /\ \A t \in Tasks : own'[w][t] = NoRow
      /\ \A v \in Workers \ {w} : own'[v] = own[v]
      /\ pc'[w] = "idle" /\ \A v \in Workers \ {w} : pc'[v] = pc[v]
  BY DEF RollBack, Goto, TypeOK
<1>3. Within(Table(w)', rows)
  BY <1>2 DEF Within, Table, View, Touched
<1>4. ASSUME NEW v \in Workers \ {w} PROVE Within(Table(v)', Table(v))
  BY <1>2 DEF Within, Table, View, Touched
<1> QED
  BY <1>1, <1>2, <1>3, <1>4, CapStep

\* The commit makes what the only worker sees the committed rows.
LEMMA CommitCap ==
  ASSUME TypeOK, TypeOK', NEW len \in Nat, NEW cap \in Nat, CapInv(len, cap),
         Alone, NEW w \in Workers, Commit(w)
  PROVE  CapInv(len, cap)'
<1>1. clock <= clock' /\ \A v \in Workers : v = w
  BY SizesAssumption DEF TypeOK, Commit, Alone
<1>2. pc'[w] = "idle"
  BY DEF Commit, Goto, TypeOK
<1>3. rows' = Table(w) /\ \A t \in Tasks : own'[w][t] = NoRow
  BY DEF Commit, Table, TypeOK
<1>4. Within(rows', Table(w))
  BY <1>3 DEF Within
<1>5. Within(Table(w)', Table(w))
  BY <1>3 DEF Within, Table, View, Touched
<1> QED
  BY <1>1, <1>2, <1>4, <1>5, CapStep

\* check_budget counts what Since has.
LEMMA CountIsSince ==
  ASSUME NEW w \in Workers, NEW x
  PROVE  CountSince(w, x) = Cardinality(Since(Table(w), x))
<1>1. {t \in Tasks : View(w, t).status \in Counted /\ View(w, t).at > x} =
        Since(Table(w), x)
  BY DEF Since, Table
<1> QED
  BY <1>1 DEF CountSince

\* The budget check lets a worker ask only below the cap.
LEMMA BudgetCap ==
  ASSUME IInv, TypeOK', NEW len \in Nat, NEW cap \in Nat, CapInv(len, cap),
         NEW w \in Workers, Budget(w),
         Exhausted(w) \/ CountSince(w, clock - len) < cap
  PROVE  CapInv(len, cap)'
<1>1. /\ TypeOK /\ clock <= clock' /\ clock' = clock /\ rows' = rows
      /\ Within(rows', rows) /\ pc[w] \in Asking
  BY SizesAssumption DEF IInv, TypeOK, Budget, Within, Asking
<1>2. CASE Exhausted(w)
  <2>1. /\ own' = [own EXCEPT ![w][Current(w)] = Finished(w, "skipped_cost_cap", {})]
        /\ pc' = [pc EXCEPT ![w] = "claim"]
    BY <1>2 DEF Budget, Put, Pass, Goto
  <2>2. Finished(w, "skipped_cost_cap", {}).status \notin Counted \cup {"absent"}
    BY <1>1, FinishedRow DEF Counted, Statuses, Retryable
  <2>3. \A v \in Workers, t \in Tasks :
          own'[v][t] = own[v][t] \/ own'[v][t].status \notin Counted \cup {"absent"}
    BY <1>1, <2>1, <2>2 DEF TypeOK
  <2>4. \A v \in Workers : pc'[v] = "call" => pc[v] = "call"
    BY <1>1, <2>1 DEF TypeOK
  <2> QED
    BY <1>1, <2>3, <2>4, QuietStep
<1>3. CASE ~Exhausted(w)
  <2>1. own' = own /\ pc' = [pc EXCEPT ![w] = "call"]
    BY <1>3 DEF Budget, Goto
  <2>2. \A v \in Workers : Table(v)' = Table(v) /\ Within(Table(v)', Table(v))
    BY <1>1, <2>1 DEF Within, Table, View, Touched
  <2>3. Cardinality(Since(Table(w)', clock' - len)) < cap
    BY <1>1, <1>3, <2>2, CountIsSince
  <2>4. \A v \in Workers \ {w} : pc'[v] = pc[v]
    BY <1>1, <2>1 DEF TypeOK
  <2> QED
    BY <1>1, <2>2, <2>3, <2>4, CapStep
<1> QED
  BY <1>2, <1>3

\* The attempt is counted in the windows that end now or later, and those
\* held less than the cap when the budget was checked.
LEMMA CallCap ==
  ASSUME IInv, TypeOK', NEW len \in Nat, NEW cap \in Nat, CapInv(len, cap),
         NEW w \in Workers, CallModel(w)
  PROVE  CapInv(len, cap)'
<1>1. PICK c \in Tasks : c = Current(w)
  BY InWork DEF CallModel, Working, Asking
<1>2. TypeOK /\ pc[w] = "call" /\ pc[w] \in Asking /\ clock' = clock /\ rows' = rows
  BY DEF IInv, CallModel, Asking
<1>3. PICK row : own' = [own EXCEPT ![w][c] = row]
  BY <1>1 DEF CallModel, Put
<1>4. /\ own'[w][c] = row /\ \A t \in Tasks \ {c} : own'[w][t] = own[w][t]
      /\ \A v \in Workers \ {w} : own'[v] = own[v]
  BY <1>2, <1>3 DEF TypeOK
<1>5. /\ pc'[w] \in {"claim", "send"}
      /\ \A v \in Workers \ {w} : pc'[v] = pc[v]
  BY <1>2 DEF CallModel, Pass, SendOrPass, Goto, TypeOK
<1>6. row.at = clock /\ row # NoRow
  <2>1. own[w][c] \in Row /\ View(w, c) = own[w][c]
    BY <1>1, <1>2, InWork DEF Working
  <2>2. ASSUME NEW status, NEW text, row = Finished(w, status, text), status # "absent"
        PROVE  row.at = clock /\ row # NoRow
    BY <1>1, <2>1, <2>2, NoRowFacts DEF Finished, Row
  <2>3. \E status, text : own'[w][c] = Finished(w, status, text) /\ status # "absent"
    BY <1>1, <1>2 DEF CallModel, Put, TypeOK
  <2> QED
    BY <1>4, <2>2, <2>3
<1>7. /\ Table(w)'[c].at = clock
      /\ \A t \in Tasks \ {c} : Table(w)'[t] = Table(w)[t]
  BY <1>2, <1>4, <1>6 DEF Table, View, Touched
<1>8. ASSUME NEW x \in 1..MaxClock
      PROVE  Cardinality(Ended(Table(w)', x, len)) <= cap
  <2>1. clock \in Nat /\ x \in Nat
    BY <1>2 DEF TypeOK
  <2>2. \A t \in Tasks : Table(w)[t].at \in Int
    BY <1>2, TableTimes
  <2>3. CASE x < clock
    <3>1. Ended(Table(w)', x, len) \in SUBSET Ended(Table(w), x, len)
      BY <1>7, <2>1, <2>3 DEF Ended
    <3>2. Ended(Table(w), x, len) \in SUBSET Tasks
      BY DEF Ended
    <3>3. Cardinality(Ended(Table(w), x, len)) <= cap
      BY DEF CapInv
    <3> QED
      BY <3>1, <3>2, <3>3, FewerTasks
  <2>4. CASE clock <= x
    <3> DEFINE S == Since(Table(w), clock - len)
    <3>1. Cardinality(S) < cap
      BY <1>2 DEF CapInv
    <3>2. Ended(Table(w)', x, len) \in SUBSET (S \cup {c})
      BY <1>7, <2>1, <2>2, <2>4 DEF Ended, Since
    <3>3. S \in SUBSET Tasks /\ S \cup {c} \in SUBSET Tasks
      BY DEF Since
    <3> HIDE DEF S
    <3>4. IsFiniteSet(S) /\ Cardinality(S) \in Nat
      BY <3>3, FiniteBatch, SizesAssumption DEF Tasks
    <3>5. Cardinality(S \cup {c}) <= Cardinality(S) + 1
      BY <3>4, FS_AddElement
    <3>6. /\ Cardinality(Ended(Table(w)', x, len)) <= Cardinality(S \cup {c})
          /\ Cardinality(S \cup {c}) \in Nat
          /\ Cardinality(Ended(Table(w)', x, len)) \in Nat
      BY <3>2, <3>3, FewerTasks
    <3> QED
      BY <3>1, <3>4, <3>5, <3>6
  <2> QED
    BY <2>1, <2>3, <2>4
<1>9. ASSUME NEW v \in Workers \ {w} PROVE Table(v)' = Table(v)
  BY <1>2, <1>4 DEF Table, View, Touched
<1> QED
  BY <1>2, <1>5, <1>8, <1>9 DEF CapInv, Ended, Since

\* The other steps of a task consume no budget.
LEMMA TaskCap ==
  ASSUME IInv, TypeOK', NEW len \in Nat, NEW cap \in Nat, CapInv(len, cap),
         NEW w \in Workers, Check(w) \/ Lookup(w) \/ Claim(w)
  PROVE  CapInv(len, cap)'
<1>1. /\ TypeOK /\ clock <= clock' /\ rows' = rows
  BY SizesAssumption DEF IInv, TypeOK, Check, Lookup, Claim
<1>2. own \in [Workers -> [Tasks -> Row \cup {NoRow}]] /\ pc \in [Workers -> PCs]
  BY <1>1 DEF TypeOK
<1>3. \/ own' = own
      \/ \E row : own' = [own EXCEPT ![w][Current(w)] = row]
                  /\ row.status \notin Counted \cup {"absent"}
  <2>1. CASE Check(w)
    <3>1. \A status \in {"skipped_no_base_message", "skipped_disabled"} :
            Finished(w, status, {}).status \notin Counted \cup {"absent"}
      BY <2>1, FinishedRow DEF Check, Asking, Statuses, Settled, Counted
    <3> QED
      BY <2>1, <3>1 DEF Check, Put
  <2>2. CASE Lookup(w)
    <3>1. ASSUME NEW t \in NewestHits(w)
          PROVE  Finished(w, "reused_cache", View(w, t).text).status
                   \notin Counted \cup {"absent"}
      <4>1. t \in Tasks /\ View(w, t) \in Row \cup {NoRow}
        BY <1>2 DEF NewestHits, Hits, View, IInv, TypeOK
      <4>2. View(w, t).text \in SUBSET Tasks
        BY <4>1, RowFacts, NoRowFacts
      <4>3. "reused_cache" \in Statuses /\ "reused_cache" \notin Counted \cup {"absent"}
        BY DEF Statuses, Settled, Cached, Counted
      <4> QED
        BY <2>2, <4>2, <4>3, FinishedRow DEF Lookup, Asking
    <3> QED
      BY <2>2, <3>1 DEF Lookup, Put
  <2>3. CASE Claim(w)
    <3>1. View(w, Current(w)) \in Row
      <4>1. Current(w) \in Tasks
        BY <1>1, <2>3, CurrentInBatch DEF Claim
      <4> QED
        BY <1>1, <2>3, <4>1, NoRowFacts DEF Claim, Claimable, View, TypeOK
    <3>2. [View(w, Current(w)) EXCEPT !.status = "running", !.at = clock].status = "running"
      BY <3>1 DEF Row
    <3> QED
      BY <2>3, <3>2 DEF Claim, Put, Counted
  <2> QED
    BY <2>1, <2>2, <2>3
<1>4. \A v \in Workers, t \in Tasks :
        own'[v][t] = own[v][t] \/ own'[v][t].status \notin Counted \cup {"absent"}
  BY <1>2, <1>3
<1>5. \A v \in Workers : pc'[v] = "call" => pc[v] = "call"
  BY <1>2 DEF Check, Lookup, Claim, Pass, SendOrPass, Goto
<1> QED
  BY <1>1, <1>4, <1>5, QuietStep

\* The steps around the tasks, but for the commit.
LEMMA TickCap ==
  ASSUME IInv, TypeOK', NEW len \in Nat, NEW cap \in Nat, CapInv(len, cap),
         NEW w \in Workers,
         Reclaim(w) \/ List(w) \/ Miss(w) \/ Send(w) \/ SendFails(w) \/ Abort(w)
  PROVE  CapInv(len, cap)'
<1>1. TypeOK
  BY DEF IInv
<1>2. CASE SendFails(w) \/ Abort(w)
  BY <1>1, <1>2, RollBackCap DEF SendFails, Abort
<1>3. CASE Reclaim(w) \/ List(w) \/ Miss(w) \/ Send(w)
  <2>1. clock <= clock' /\ rows' = rows
    <3>1. clock' = clock /\ rows' = rows
      BY <1>3 DEF Reclaim, List, Miss, Send
    <3> QED
      BY <1>1, <3>1, SizesAssumption DEF TypeOK
  <2>2. \A v \in Workers : pc'[v] = "call" => pc[v] = "call"
    BY <1>1, <1>3 DEF TypeOK, Reclaim, List, Miss, Send, Pass, Goto
  <2>3. \A v \in Workers, t \in Tasks : own'[v][t] = own[v][t]
    <3>1. CASE Reclaim(w)
      <4>1. \A t \in Tasks : own[w][t] = NoRow /\ rows[t].status # "running"
        BY <3>1 DEF IInv, WorkInv, RunningNeverCommitted, Reclaim
      <4> QED
        BY <1>1, <3>1, <4>1 DEF Reclaim, TypeOK
    <3> QED
      BY <1>3, <3>1 DEF List, Miss, Send
  <2> QED
    BY <1>1, <2>1, <2>2, <2>3, QuietStep
<1> QED
  BY <1>2, <1>3

\* The environment consumes no budget.
LEMMA EnvironmentCap ==
  ASSUME IInv, TypeOK', NEW len \in Nat, NEW cap \in Nat, CapInv(len, cap),
         \/ Tick \/ UNCHANGED vars
         \/ \E t \in Tasks : Create(t) \/ Resend(t) \/ LoseBase(t)
  PROVE  CapInv(len, cap)'
<1>1. TypeOK
  BY DEF IInv
<1>2. CASE \/ Tick \/ UNCHANGED vars
           \/ \E t \in Tasks : LoseBase(t) \/ (Resend(t) /\ ~Restarts(t))
  <2>1. clock <= clock' /\ rows' = rows /\ own' = own /\ pc' = pc
    <3>1. clock \in Int
      BY <1>1, SizesAssumption DEF TypeOK
    <3>2. CASE Tick \/ UNCHANGED vars
      BY <3>1, <3>2 DEF Tick, vars, workerVars
    <3>3. ASSUME NEW t \in Tasks, LoseBase(t) \/ (Resend(t) /\ ~Restarts(t))
          PROVE  UNCHANGED <<clock, rows, own, pc>>
      BY <3>3 DEF LoseBase, Resend, Restarts, workerVars
    <3> QED
      BY <1>2, <3>1, <3>2, <3>3
  <2> QED
    BY <1>1, <2>1, QuietStep
<1>3. ASSUME NEW t \in Tasks, Create(t) \/ Restarts(t) PROVE CapInv(len, cap)'
  <2>1. rows \in [Tasks -> Row \cup {NoRow}]
    BY <1>1 DEF TypeOK
  <2>2. /\ rows'[t].status = "pending"
        /\ \A s \in Tasks \ {t} : rows'[s] = rows[s]
    <3>1. CASE Create(t)
      BY <2>1, <3>1 DEF Create
    <3>2. CASE Restarts(t)
      <4>1. rows[t] \in Row
        BY <2>1, <3>2, NoRowFacts DEF Restarts, Retryable
      <4> QED
        BY <2>1, <3>2, <4>1 DEF Restarts, Row
    <3> QED
      BY <1>3, <3>1, <3>2
  <2>3. UNCHANGED <<clock, pc, own>>
    BY <1>3 DEF Create, Restarts, Resend, workerVars
  <2> QED
    BY <1>1, <2>2, <2>3, PendingCap
<1> QED
  BY <1>2, <1>3

\* Both caps.
Caps == CapInv(HourLen, HourCap) /\ CapInv(DayLen, DayCap)

AloneInv == IInv /\ (Alone => Caps)

\* A worker alone has spent nothing at first.
LEMMA InitAloneInv == Init => AloneInv
<1> SUFFICES ASSUME Init PROVE Caps
  BY InitIInv DEF AloneInv
<1>1. ASSUME NEW len, NEW x PROVE Ended(rows, x, len) = {}
  BY NoRowFacts DEF Init, Ended, Counted
<1>2. ASSUME NEW len, NEW x, NEW w \in Workers PROVE Ended(Table(w), x, len) = {}
  BY NoRowFacts DEF Init, Ended, Counted, Table, View
<1>3. ASSUME NEW w \in Workers PROVE pc[w] # "call"
  BY DEF Init
<1> QED
  BY <1>1, <1>2, <1>3, FS_EmptySet, SizesAssumption DEF Caps, CapInv

\* Every step of a worker alone stays within the caps.
LEMMA NextAloneInv == AloneInv /\ [Next]_vars => AloneInv'
<1> SUFFICES ASSUME AloneInv, [Next]_vars, Alone PROVE Caps'
  BY NextIInv DEF AloneInv, Alone
<1>1. IInv /\ Caps /\ TypeOK /\ TypeOK'
  BY NextIInv DEF AloneInv, IInv
<1>2. /\ HourLen \in Nat /\ HourCap \in Nat /\ DayLen \in Nat /\ DayCap \in Nat
  BY SizesAssumption
<1>3. CASE \/ Tick \/ UNCHANGED vars
           \/ \E t \in Tasks : Create(t) \/ Resend(t) \/ LoseBase(t)
  BY <1>1, <1>2, <1>3, EnvironmentCap DEF Caps
<1>4. ASSUME NEW w \in Workers, Step(w) \/ SendFails(w) \/ Abort(w)
      PROVE  Caps'
  <2>1. CASE Budget(w)
    <3>1. /\ CountSince(w, clock - HourLen) \in Nat
          /\ CountSince(w, clock - DayLen) \in Nat
      <4>1. \A x : Since(Table(w), x) \in SUBSET Tasks
        BY DEF Since
      <4> QED
        BY <4>1, CountIsSince, FewerTasks
    <3>2. /\ Exhausted(w) \/ CountSince(w, clock - HourLen) < HourCap
          /\ Exhausted(w) \/ CountSince(w, clock - DayLen) < DayCap
      BY <1>2, <3>1 DEF Exhausted
    <3> QED
      BY <1>1, <1>2, <2>1, <3>2, BudgetCap DEF Caps
  <2>2. CASE CallModel(w)
    BY <1>1, <1>2, <2>2, CallCap DEF Caps
  <2>3. CASE Check(w) \/ Lookup(w) \/ Claim(w)
    BY <1>1, <1>2, <2>3, TaskCap DEF Caps
  <2>4. CASE Reclaim(w) \/ List(w) \/ Miss(w) \/ Send(w) \/ SendFails(w) \/ Abort(w)
    BY <1>1, <1>2, <2>4, TickCap DEF Caps
  <2>5. CASE Commit(w)
    BY <1>1, <1>2, <2>5, CommitCap DEF Caps
  <2> QED
    BY <1>4, <2>1, <2>2, <2>3, <2>4, <2>5 DEF Step, Process
<1> QED
  BY <1>3, <1>4 DEF Next

\* A worker without another one beside it keeps the recorded attempts of
\* every rolling hour and day within the caps, whatever rolls back.
THEOREM CapsOfOneWorker == Spec => [](Alone => RecordedWithinCaps)
<1>1. ASSUME AloneInv PROVE Alone => RecordedWithinCaps
  <2>1. \A x \in 1..MaxClock : /\ EndedIn(x, HourLen) = Ended(rows, x, HourLen)
                               /\ EndedIn(x, DayLen) = Ended(rows, x, DayLen)
    BY DEF EndedIn, Ended
  <2> QED
    BY <1>1, <2>1 DEF AloneInv, Caps, CapInv, RecordedWithinCaps
<1> QED
  BY <1>1, InitAloneInv, NextAloneInv, PTL DEF Spec

==============================================================================
