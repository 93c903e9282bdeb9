--------------------------- MODULE ExplanationTasks ---------------------------
(***************************************************************************)
(* The AI explanation tasks of day 8: ExplanationWorker.run_once over the  *)
(* alert_explanations table, ExplanationService.process_task for each      *)
(* claimed row, and create_pending_explanation, which enqueues them.       *)
(*                                                                         *)
(* A worker runs one tick in ONE transaction that it commits at the end:   *)
(* claims, results and statuses are its own until then, while its calls    *)
(* of the model and its Telegram replies leave at once.  Statements of     *)
(* different workers interleave (READ COMMITTED with row locks).           *)
(***************************************************************************)
EXTENDS Integers, FiniteSets, Batches

CONSTANTS Workers,       \* worker processes (the daemon, a --run-once next to it)
          NumTasks,      \* alerts an explanation may be asked for
          CacheKey,      \* CacheKey[t]: the cache_key of t's prompt
          ServiceModes,  \* values of "enabled and api_key_configured" in use
          BatchSize,     \* batch_size
          HourCap,       \* max_per_hour
          DayCap,        \* max_per_day
          HourLen,       \* one hour, in clock units
          DayLen,        \* one day, in clock units
          CacheLen,      \* cache_window_minutes
          StaleLen,      \* running_stale_minutes
          MaxClock,      \* bound of the clock (model bound)
          MaxAborts,     \* bound on ticks that roll back (model bound)
          MaxResets      \* bound on alerts delivered again (model bound)

Tasks == 1..NumTasks     \* numbered in the order of their rows' ids

ASSUME SizesAssumption ==
  /\ {NumTasks, BatchSize, HourLen, DayLen, MaxClock} \subseteq Nat \ {0}
  /\ {HourCap, DayCap, CacheLen, StaleLen, MaxAborts, MaxResets} \subseteq Nat
ASSUME WindowsAssumption == HourLen <= DayLen
ASSUME ServiceModesAssumption == ServiceModes \subseteq BOOLEAN

VARIABLES
  clock,
  rows,    \* rows[t]: the committed alert_explanations row of t, or NoRow
  base,    \* base[t]: the delivery row of t has a telegram_message_id
  pc,      \* pc[w]: where the tick of w stands
  batch,   \* batch[w]: tasks still to process, the oldest one in work
  own,     \* own[w][t]: w's uncommitted version of the row of t, or NoRow
  calls,   \* requests for an explanation made at the present time (ghost)
  copies,  \* copies[t]: explanation messages of t in the chat (ghost)
  missed,  \* tasks whose text found no base message to reply to (ghost)
  aborts,  \* ticks rolled back so far
  resets   \* alerts delivered again so far

workerVars == <<pc, batch, own>>
ghostVars == <<calls, copies, missed>>
vars == <<clock, rows, base, pc, batch, own, calls, copies, missed, aborts, resets>>

----------------------------------------------------------------------------
(* Rows *)

\* AI_EXPLANATION_RETRYABLE_TERMINAL_STATUSES
Retryable == {"failed", "failed_stale", "skipped_cost_cap"}

\* COUNTED_STATUSES of the cost limiter
Counted == {"completed", "failed", "failed_stale"}

\* CACHE_STATUSES
Cached == {"completed", "reused_cache"}

\* Terminal and not retryable: the row is never touched again.
Settled == Cached \cup {"skipped_disabled", "skipped_no_base_message"}

\* at: started_at while the row is running, completed_at once it is terminal.
\* text: {} for a missing or an empty text, else {the task it was written for}.
Row == [status : Settled \cup Retryable \cup {"pending", "running"},
        at : 0..MaxClock, createdAt : 1..MaxClock, text : SUBSET Tasks]
NoRow == [status |-> "absent", at |-> 0, createdAt |-> 0, text |-> {}]

Touched(w) == {t \in Tasks : own[w][t] # NoRow}

\* The row of t as the transaction of w sees it.
View(w, t) == IF t \in Touched(w) THEN own[w][t] ELSE rows[t]

Locked(w, t) == \E other \in Workers \ {w} : t \in Touched(other)

Current(w) == First(batch[w])

Finished(w, status, text) ==
  [View(w, Current(w)) EXCEPT !.status = status, !.at = clock, !.text = text]

Put(w, row) == own' = [own EXCEPT ![w][Current(w)] = row]

Goto(w, label) == pc' = [pc EXCEPT ![w] = label]

----------------------------------------------------------------------------
(* Initial state *)

Init ==
  /\ clock = 1
  /\ rows = [t \in Tasks |-> NoRow]
  /\ base = [t \in Tasks |-> FALSE]
  /\ pc = [w \in Workers |-> "idle"]
  /\ batch = [w \in Workers |-> {}]
  /\ own = [w \in Workers |-> [t \in Tasks |-> NoRow]]
  /\ calls = 0
  /\ copies = [t \in Tasks |-> 0]
  /\ missed = {}
  /\ aborts = 0
  /\ resets = 0

----------------------------------------------------------------------------
(* The environment *)

Tick ==
  /\ clock < MaxClock
  /\ clock' = clock + 1
  /\ calls' = 0
  /\ UNCHANGED <<rows, base, workerVars, copies, missed, aborts, resets>>

\* create_pending_explanation of a new alert, committed with its delivery.
Create(t) ==
  /\ rows[t] = NoRow
  /\ \A s \in 1..(t - 1) : rows[s] # NoRow
  /\ rows' = [rows EXCEPT ![t] = [status |-> "pending", at |-> 0,
                                  createdAt |-> clock, text |-> {}]]
  /\ base' = [base EXCEPT ![t] = TRUE]
  /\ UNCHANGED <<clock, workerVars, ghostVars, aborts, resets>>

\* The alert is sent once more: its delivery had ended failed or snoozed and
\* the next poll of the delivery worker found it undelivered, or another worker
\* was late.  The delivery row gets the id of the new base message.
\* create_pending_explanation starts a task over that ended retryably and
\* keeps every other row; it is not called with explanations switched off.
Resend(t) ==
  /\ rows[t] # NoRow
  /\ resets < MaxResets
  /\ base' = [base EXCEPT ![t] = TRUE]
  /\ \/ /\ rows[t].status \in Retryable
        /\ rows' = [rows EXCEPT ![t].status = "pending", ![t].at = 0, ![t].text = {}]
     \/ UNCHANGED rows
  /\ resets' = resets + 1
  /\ UNCHANGED <<clock, workerVars, ghostVars, aborts>>

\* Another delivery worker, late with its batch, writes the delivery row of a
\* sent alert again as snoozed or failed, or a digest writes it as sent: none
\* of them has a message id.
LoseBase(t) ==
  /\ base[t]
  /\ base' = [base EXCEPT ![t] = FALSE]
  /\ UNCHANGED <<clock, rows, workerVars, ghostVars, aborts, resets>>

----------------------------------------------------------------------------
(* ExplanationWorker.run_once *)

\* reclaim_stale_explanations; its UPDATE waits for rows another worker locks.
Reclaim(w) ==
  LET stale == {t \in Tasks : /\ rows[t].status = "running"
                              /\ rows[t].at < clock - StaleLen}
  IN /\ pc[w] = "idle"
     /\ \A t \in stale : ~Locked(w, t)
     /\ own' = [own EXCEPT ![w] = [t \in Tasks |->
          IF t \in stale
          THEN [rows[t] EXCEPT !.status = "failed_stale", !.at = clock]
          ELSE NoRow]]
     /\ Goto(w, "list")
     /\ UNCHANGED <<clock, rows, base, batch, ghostVars, aborts, resets>>

Pending(w) == {t \in Tasks : View(w, t).status = "pending"}

\* MUTANT: the LIMIT is forgotten.
ListAll(w) ==
  /\ pc[w] = "list"
  /\ batch' = [batch EXCEPT ![w] = Pending(w)]
  /\ Goto(w, "claim")
  /\ UNCHANGED <<clock, rows, base, own, ghostVars, aborts, resets>>

\* pending_explanation_ids
List(w) ==
  /\ pc[w] = "list"
  /\ batch' = [batch EXCEPT ![w] = Oldest(Pending(w), BatchSize)]
  /\ Goto(w, "claim")
  /\ UNCHANGED <<clock, rows, base, own, ghostVars, aborts, resets>>

\* MUTANTS: the claim trusts the list, or locks without SKIP LOCKED's effect.
ClaimableUnchecked(w, t) == ~Locked(w, t)
ClaimableUnlocked(w, t) == View(w, t).status = "pending"

\* The row is still pending, and FOR UPDATE SKIP LOCKED gets it.
Claimable(w, t) == View(w, t).status = "pending" /\ ~Locked(w, t)

\* MUTANT: the claim is committed on its own.
ClaimAndCommit(w) ==
  /\ pc[w] = "claim" /\ batch[w] # {}
  /\ Claimable(w, Current(w))
  /\ rows' = [rows EXCEPT ![Current(w)].status = "running", ![Current(w)].at = clock]
  /\ Put(w, [View(w, Current(w)) EXCEPT !.status = "running", !.at = clock])
  /\ Goto(w, "check")
  /\ UNCHANGED <<clock, base, batch, ghostVars, aborts, resets>>

\* _claim_explanation
Claim(w) ==
  /\ pc[w] = "claim" /\ batch[w] # {}
  /\ Claimable(w, Current(w))
  /\ Put(w, [View(w, Current(w)) EXCEPT !.status = "running", !.at = clock])
  /\ Goto(w, "check")
  /\ UNCHANGED <<clock, rows, base, batch, ghostVars, aborts, resets>>

Pass(w) == batch' = [batch EXCEPT ![w] = @ \ {Current(w)}] /\ Goto(w, "claim")

\* The claim finds nothing; process_task returns None.
Miss(w) ==
  /\ pc[w] = "claim" /\ batch[w] # {}
  /\ ~Claimable(w, Current(w))
  /\ Pass(w)
  /\ UNCHANGED <<clock, rows, base, own, ghostVars, aborts, resets>>

\* The one commit of the tick.
Commit(w) ==
  /\ pc[w] = "claim" /\ batch[w] = {}
  /\ rows' = [t \in Tasks |-> View(w, t)]
  /\ own' = [own EXCEPT ![w] = [t \in Tasks |-> NoRow]]
  /\ Goto(w, "idle")
  /\ UNCHANGED <<clock, base, batch, ghostVars, aborts, resets>>

\* MUTANT: the exception ends run_forever.
RollBackAndStop(w) ==
  /\ own' = [own EXCEPT ![w] = [t \in Tasks |-> NoRow]]
  /\ batch' = [batch EXCEPT ![w] = {}]
  /\ Goto(w, "stopped")
  /\ aborts < MaxAborts
  /\ aborts' = aborts + 1

RollBack(w) ==
  /\ own' = [own EXCEPT ![w] = [t \in Tasks |-> NoRow]]
  /\ batch' = [batch EXCEPT ![w] = {}]
  /\ Goto(w, "idle")
  /\ aborts < MaxAborts
  /\ aborts' = aborts + 1

\* The process dies, or a statement raises and run_forever logs the tick.
Abort(w) ==
  /\ pc[w] # "idle"
  /\ RollBack(w)
  /\ UNCHANGED <<clock, rows, base, ghostVars, resets>>

----------------------------------------------------------------------------
(* ExplanationService.process_task, after the claim *)

\* The feature flag and the base message id.
Check(w) ==
  /\ pc[w] = "check"
  /\ \E on \in ServiceModes :
       IF on /\ base[Current(w)]
       THEN Goto(w, "lookup") /\ UNCHANGED <<batch, own>>
       ELSE /\ Put(w, Finished(w, IF on THEN "skipped_no_base_message"
                                        ELSE "skipped_disabled", {}))
            /\ Pass(w)
  /\ UNCHANGED <<clock, rows, base, ghostVars, aborts, resets>>

\* MUTANT: the lookup forgets the cache key.
HitsOfAnyKey(w) ==
  {t \in Tasks : /\ View(w, t).status \in Cached
                 /\ View(w, t).createdAt > clock - CacheLen}

\* Rows that lookup_cached_explanation may return, the newest wins.
Hits(w) ==
  {t \in Tasks : /\ View(w, t).status \in Cached
                 /\ CacheKey[t] = CacheKey[Current(w)]
                 /\ View(w, t).createdAt > clock - CacheLen}

NewestHits(w) ==
  {t \in Hits(w) : \A s \in Hits(w) : View(w, s).createdAt <= View(w, t).createdAt}

\* MUTANT: a text is recorded but never sent.
NeverSend(w, text) == Pass(w)

\* _send_if_possible: an empty text is not sent.
SendOrPass(w, text) ==
  IF text = {} THEN Pass(w) ELSE Goto(w, "send") /\ UNCHANGED batch

Lookup(w) ==
  /\ pc[w] = "lookup"
  /\ IF Hits(w) = {}
     THEN Goto(w, "budget") /\ UNCHANGED <<batch, own>>
     ELSE \E t \in NewestHits(w) :
            /\ Put(w, Finished(w, "reused_cache", View(w, t).text))
            /\ SendOrPass(w, View(w, t).text)
  /\ UNCHANGED <<clock, rows, base, ghostVars, aborts, resets>>

\* MUTANT: the window goes by created_at, as docs/specs/day8 section 8 has it.
CountCreatedSince(w, since) ==
  Cardinality({t \in Tasks : /\ View(w, t).status \in Counted
                             /\ View(w, t).createdAt > since})

\* _count_since: rows that consume budget and ended after the given time.
CountSince(w, since) ==
  Cardinality({t \in Tasks : View(w, t).status \in Counted /\ View(w, t).at > since})

Exhausted(w) ==
  CountSince(w, clock - HourLen) >= HourCap \/ CountSince(w, clock - DayLen) >= DayCap

Budget(w) ==
  /\ pc[w] = "budget"
  /\ IF Exhausted(w)
     THEN Put(w, Finished(w, "skipped_cost_cap", {})) /\ Pass(w)
     ELSE Goto(w, "call") /\ UNCHANGED <<batch, own>>
  /\ UNCHANGED <<clock, rows, base, ghostVars, aborts, resets>>

\* create_message, with its fallback attempt, and what becomes of the answer.
CallModel(w) ==
  /\ pc[w] = "call"
  /\ calls' = calls + 1
  /\ \/ Put(w, Finished(w, "failed", {})) /\ Pass(w)
     \/ \E text \in {{}, {Current(w)}} :
          Put(w, Finished(w, "completed", text)) /\ SendOrPass(w, text)
  /\ UNCHANGED <<clock, rows, base, copies, missed, aborts, resets>>

\* send_explanation, which reads the delivery again and may find it changed.
Send(w) ==
  /\ pc[w] = "send"
  /\ IF base[Current(w)]
     THEN copies' = [copies EXCEPT ![Current(w)] = @ + 1] /\ UNCHANGED missed
     ELSE missed' = missed \cup {Current(w)} /\ UNCHANGED copies
  /\ Pass(w)
  /\ UNCHANGED <<clock, rows, base, own, calls, aborts, resets>>

\* It raises, with or without the message in the chat: nothing catches it
\* before run_forever, and the whole tick rolls back.
SendFails(w) ==
  /\ pc[w] = "send"
  /\ base[Current(w)]
  /\ \E reached \in BOOLEAN :
       copies' = [copies EXCEPT ![Current(w)] = IF reached THEN @ + 1 ELSE @]
  /\ RollBack(w)
  /\ UNCHANGED <<clock, rows, base, calls, missed, resets>>

----------------------------------------------------------------------------

Process(w) ==
  Check(w) \/ Lookup(w) \/ Budget(w) \/ CallModel(w) \/ Send(w)

Step(w) ==
  Reclaim(w) \/ List(w) \/ Claim(w) \/ Miss(w) \/ Process(w) \/ Commit(w)

Next ==
  \/ Tick
  \/ \E t \in Tasks : Create(t) \/ Resend(t) \/ LoseBase(t)
  \/ \E w \in Workers : Step(w) \/ SendFails(w) \/ Abort(w)

Spec == Init /\ [][Next]_vars

\* run_forever turns for ever, and nothing inside a tick waits without a
\* bound.  Neither failures nor new tasks are forced.
FairSpec == Spec /\ \A w \in Workers : WF_vars(Step(w))

----------------------------------------------------------------------------
(* Properties *)

PCs == {"idle", "list", "claim", "check", "lookup", "budget", "call", "send"}

TypeOK ==
  /\ clock \in 1..MaxClock
  /\ rows \in [Tasks -> Row \cup {NoRow}]
  /\ base \in [Tasks -> BOOLEAN]
  /\ pc \in [Workers -> PCs]
  /\ batch \in [Workers -> SUBSET Tasks]
  /\ \A w \in Workers : Cardinality(batch[w]) <= BatchSize
  /\ own \in [Workers -> [Tasks -> Row \cup {NoRow}]]
  /\ calls \in Nat
  /\ copies \in [Tasks -> Nat]
  /\ missed \subseteq Tasks
  /\ aborts \in 0..MaxAborts
  /\ resets \in 0..MaxResets

\* Two workers never work on the same task, although they list the same
\* pending rows: FOR UPDATE SKIP LOCKED and the repeated status filter.
ClaimsExclusive ==
  \A w1, w2 \in Workers : w1 # w2 => Touched(w1) \cap Touched(w2) = {}

\* A task whose settled row is committed is over: the row never changes
\* again and no further explanation of it is sent.
SettledIsFinal ==
  [][\A t \in Tasks : rows[t].status \in Settled =>
       rows'[t] = rows[t] /\ copies'[t] = copies[t]]_vars

\* The texts that left, or found their base message gone, in a transaction that
\* is still open.
Handed ==
  {t \in Tasks : \E w \in Workers :
     /\ own[w][t].status \in Cached /\ own[w][t].text # {}
     /\ ~(pc[w] = "send" /\ t = Current(w))}

phaseOf ==
  [t \in Tasks |-> IF rows[t].status \in Settled THEN "settled"
                   ELSE IF t \in Handed THEN "handed" ELSE "open"]

Promise == INSTANCE AtLeastOnceDelivery WITH Items <- Tasks, phase <- phaseOf

\* Overlapping workers, task by task, send a text and then settle the task; only
\* a rollback makes it be sent again, and nothing does after the commit.
ImplementsAtLeastOnce == Promise!Spec

\* An alert gets a second explanation only if a tick was rolled back after
\* the first one had left.
RepliesBoundedByAborts == \A t \in Tasks : copies[t] <= 1 + aborts

\* A committed text was sent, whatever became of the alert's delivery since,
\* unless a worker that was about to send it found no base message.
CommittedTextWasSent ==
  \A t \in Tasks :
    rows[t].status \in Cached /\ rows[t].text # {} => copies[t] >= 1 \/ t \in missed

\* A reused text was written for an alert with the same cache key.
ReusedTextFits ==
  \A t \in Tasks : \A s \in rows[t].text : CacheKey[s] = CacheKey[t]

\* The claim is never visible outside its transaction: no committed row is
\* running, so that a crash hands the task back as pending and
\* reclaim_stale_explanations finds nothing to do.
RunningNeverCommitted == \A t \in Tasks : rows[t].status # "running"

EndedIn(x, len) ==
  {t \in Tasks : rows[t].status \in Counted /\ x - len < rows[t].at /\ rows[t].at <= x}

\* One worker keeps the recorded attempts of every rolling hour and day
\* within the caps.
RecordedWithinCaps ==
  \A x \in 1..MaxClock : /\ Cardinality(EndedIn(x, HourLen)) <= HourCap
                         /\ Cardinality(EndedIn(x, DayLen)) <= DayCap

\* A pending task does not stay pending for ever.
PendingIsProcessed ==
  \A t \in Tasks : rows[t].status = "pending" ~> rows[t].status # "pending"

\* What the specification of the cost cap says: at the cap Anthropic is not
\* called.  Requests of one moment lie in one hour.
CallsWithinHourCap == calls <= HourCap

==============================================================================
