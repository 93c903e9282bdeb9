----------------------------- MODULE AlertPoller -----------------------------
(***************************************************************************)
(* The alert delivery worker of day 7: TelegramWorker.run with its startup *)
(* digest, the polling loop over undelivered ALLOW alerts, send_alert for  *)
(* each of them, and the operator's mute, unmute and snooze commands,      *)
(* which other tasks of the process run in sessions of their own.          *)
(*                                                                         *)
(* A digest and a batch are each one transaction, committed at the end;    *)
(* messages leave at once.  Rows are read afresh by every statement: the   *)
(* session keeps only weak references to unmodified rows.                  *)
(***************************************************************************)
EXTENDS Integers, FiniteSets, Batches

CONSTANTS NumAlerts,      \* ALLOW rows of pattern_triggers
          Undeliverable,  \* alerts whose message Telegram always refuses
          Limit,          \* batch size of run_once
          DigestLimit,    \* batch size of the startup digest
          Attempts,       \* len(retry_delays)
          MaxFaults       \* bound on failures and interruptions (model bound)

Alerts == 1..NumAlerts    \* numbered in the order of ts

ASSUME SizesAssumption ==
  /\ {NumAlerts, Limit, DigestLimit, Attempts} \subseteq Nat \ {0}
  /\ MaxFaults \in Nat
ASSUME UndeliverableAssumption ==
  Undeliverable \subseteq Alerts /\ Cardinality(Undeliverable) < Limit

VARIABLES
  raised,   \* number of alerts in pattern_triggers
  channel,  \* telegram_channel_state: [muted, snoozed]
  rows,     \* rows[t]: the committed alert_deliveries row of t, or NoRow
  view,     \* view[t]: the same row as the worker's transaction sees it
  pc,       \* where the worker stands
  batch,    \* alerts still to deliver, the oldest one in work
  attempt,  \* the running attempt of send_alert
  broken,   \* the session refuses every further statement
  faults,   \* failures and interruptions so far
  copies,   \* copies[t]: messages in the chat that show t (ghost)
  leaked    \* alerts the poller sent since the channel was closed (ghost)

dataVars == <<raised, channel>>
workVars == <<batch, attempt, broken>>
ghostVars == <<copies, leaked>>
vars == <<dataVars, rows, view, pc, workVars, faults, ghostVars>>

----------------------------------------------------------------------------
(* Rows and the channel *)

\* TERMINAL_STATUSES; "acked" is never written.
Terminal == {"sent", "snoozed"}

Row == [status : Terminal \cup {"failed"}, messageId : BOOLEAN]
NoRow == [status |-> "absent", messageId |-> FALSE]

Closed == channel.muted \/ channel.snoozed

\* MUTANT: failed deliveries are left alone.
UnrecordedFrom(t) == {a \in t..raised : view[a] = NoRow}

\* MUTANT: the outer join forgets the delivery status.
AnyFrom(t) == t..raised

\* _undelivered_allow_statement over the alerts from t on.
UndeliveredFrom(t) == {a \in t..raised : view[a].status \notin Terminal}

\* create_or_update
Upsert(t, status, messageId) ==
  view' = [view EXCEPT ![t] = [status |-> status, messageId |-> messageId]]

UpsertBatch(B, status) ==
  view' = [t \in Alerts |-> IF t \in B THEN [status |-> status, messageId |-> FALSE]
                                     ELSE view[t]]

----------------------------------------------------------------------------
(* Initial state *)

Init ==
  /\ raised = 0
  /\ channel = [muted |-> FALSE, snoozed |-> FALSE]
  /\ rows = [t \in Alerts |-> NoRow]
  /\ view = rows
  /\ pc = "down"
  /\ batch = {}
  /\ attempt = 0
  /\ broken = FALSE
  /\ faults = 0
  /\ copies = [t \in Alerts |-> 0]
  /\ leaked = {}

----------------------------------------------------------------------------
(* The pattern tick, the operator and the clock *)

Raise ==
  /\ raised < NumAlerts
  /\ raised' = raised + 1
  /\ UNCHANGED <<channel, rows, view, pc, workVars, faults, ghostVars>>

Switch(muted, snoozed) ==
  /\ channel' = [muted |-> muted, snoozed |-> snoozed]
  /\ leaked' = IF Closed THEN leaked ELSE {}
  /\ UNCHANGED <<raised, rows, view, pc, workVars, faults, copies>>

Mute == ~channel.muted /\ Switch(TRUE, channel.snoozed)

\* It clears the snooze as well.
Unmute == Closed /\ Switch(FALSE, FALSE)

Snooze == ~channel.snoozed /\ Switch(channel.muted, TRUE)

\* The deadline passes.
SnoozeEnds == channel.snoozed /\ Switch(channel.muted, FALSE)

----------------------------------------------------------------------------
(* Transactions *)

RollBack(end) ==
  /\ view' = rows
  /\ batch' = {}
  /\ attempt' = 0
  /\ broken' = FALSE
  /\ pc' = end

Fault == faults < MaxFaults /\ faults' = faults + 1

\* The process stops, is stopped, or run() raises before the loop exists.
Interrupt ==
  /\ pc # "down"
  /\ Fault
  /\ RollBack("down")
  /\ UNCHANGED <<dataVars, rows, ghostVars>>

Commit ==
  /\ rows' = view
  /\ pc' = "idle"
  /\ UNCHANGED <<dataVars, view, workVars, faults, ghostVars>>

CommitDigest == pc = "digest commit" /\ Commit

\* MUTANT: the loop closes the session without a commit.
CommitForgotten ==
  /\ pc = "check" /\ batch = {}
  /\ RollBack("idle")
  /\ UNCHANGED <<dataVars, rows, faults, ghostVars>>

CommitBatch == pc = "check" /\ batch = {} /\ Commit

\* COMMIT takes effect, but the worker learns of an error.
CommitUnacknowledged ==
  /\ pc = "digest commit" \/ (pc = "check" /\ batch = {})
  /\ Fault
  /\ rows' = view
  /\ pc' = IF pc = "check" THEN "dead" ELSE "down"
  /\ UNCHANGED <<dataVars, view, workVars, ghostVars>>

----------------------------------------------------------------------------
(* TelegramWorker.run and send_startup_digest *)

\* The query, whose lookback begins anywhere, and the check of the channel.
Start ==
  /\ pc = "down"
  /\ \E t \in Alerts :
       LET found == Oldest(UndeliveredFrom(t), DigestLimit)
       IN \/ /\ found = {}
             /\ pc' = "idle"
             /\ UNCHANGED <<view, batch>>
          \/ /\ found # {} /\ Closed
             /\ UpsertBatch(found, "snoozed")
             /\ pc' = "digest commit"
             /\ UNCHANGED batch
          \/ /\ found # {} /\ ~Closed
             /\ batch' = found
             /\ pc' = "digest post"
             /\ UNCHANGED view
  /\ UNCHANGED <<dataVars, rows, attempt, broken, faults, ghostVars>>

DigestPost ==
  /\ pc = "digest post"
  /\ copies' = [t \in Alerts |-> copies[t] + IF t \in batch THEN 1 ELSE 0]
  /\ pc' = "digest mark"
  /\ UNCHANGED <<dataVars, rows, view, workVars, faults, leaked>>

\* MUTANT: the failure is swallowed and the batch marked all the same.
DigestPostSwallows ==
  /\ pc = "digest post"
  /\ Fault
  /\ pc' = "digest mark"
  /\ UNCHANGED <<dataVars, rows, view, workVars, ghostVars>>

\* One of the digest's messages fails; those before it are in the chat.
DigestPostFails ==
  /\ pc = "digest post"
  /\ Fault
  /\ \E n \in 0..DigestLimit :
       copies' = [t \in Alerts |->
         copies[t] + IF t \in Oldest(batch, n) THEN 1 ELSE 0]
  /\ RollBack("down")
  /\ UNCHANGED <<dataVars, rows, leaked>>

\* The digest has no message id to record.
DigestMark ==
  /\ pc = "digest mark"
  /\ UpsertBatch(batch, "sent")
  /\ batch' = {}
  /\ pc' = "digest commit"
  /\ UNCHANGED <<dataVars, rows, attempt, broken, faults, ghostVars>>

----------------------------------------------------------------------------
(* run_polling_loop, run_once and send_alert *)

List ==
  /\ pc = "idle"
  /\ UndeliveredFrom(1) # {}
  /\ batch' = Oldest(UndeliveredFrom(1), Limit)
  /\ pc' = "check"
  /\ UNCHANGED <<dataVars, rows, view, attempt, broken, faults, ghostVars>>

Current == First(batch)

Rest == batch \ {Current}

\* MUTANT: run_once looks at the channel once per batch.
ReturnUnchecked ==
  /\ batch' = Rest
  /\ attempt' = IF Rest # {} THEN 1 ELSE 0
  /\ pc' = IF Rest # {} THEN "post" ELSE "check"

\* send_alert returns; run_once goes on with the next alert.
Return == batch' = Rest /\ attempt' = 0 /\ pc' = "check"

CheckClosed ==
  /\ pc = "check" /\ batch # {}
  /\ Closed
  /\ Upsert(Current, "snoozed", FALSE)
  /\ Return
  /\ UNCHANGED <<dataVars, rows, broken, faults, ghostVars>>

CheckOpen ==
  /\ pc = "check" /\ batch # {}
  /\ ~Closed
  /\ attempt' = 1
  /\ pc' = "post"
  /\ UNCHANGED <<dataVars, rows, view, batch, broken, faults, ghostVars>>

Sent ==
  /\ copies' = [copies EXCEPT ![Current] = @ + 1]
  /\ leaked' = IF Closed THEN leaked \cup {Current} ELSE leaked

Post ==
  /\ pc = "post"
  /\ Current \notin Undeliverable
  /\ Sent
  /\ pc' = "record"
  /\ UNCHANGED <<dataVars, rows, view, workVars, faults>>

\* The next attempt after a delay, or the end of the attempts.
Retry ==
  /\ attempt' = attempt + 1
  /\ pc' = IF attempt < Attempts THEN "post" ELSE "give up"

\* The request raises: Telegram refuses it, or its answer gets lost.
PostFails ==
  /\ pc = "post"
  /\ IF Current \in Undeliverable
     THEN UNCHANGED <<faults, ghostVars>>
     ELSE Fault /\ (Sent \/ UNCHANGED ghostVars)
  /\ Retry
  /\ UNCHANGED <<dataVars, rows, view, batch, broken>>

\* The delivery is recorded and, if explanations are switched on, one is enqueued
\* in the same transaction, which ExplanationTasks is about.
Record ==
  /\ pc = "record"
  /\ ~broken
  /\ Upsert(Current, "sent", TRUE)
  /\ Return
  /\ UNCHANGED <<dataVars, rows, broken, faults, ghostVars>>

\* One of the statements raises inside the try: the message, which is in the
\* chat, is tried again, and no later statement of the session can succeed.
RecordFails ==
  /\ pc = "record"
  /\ IF broken THEN UNCHANGED faults ELSE Fault
  /\ broken' = TRUE
  /\ Retry
  /\ UNCHANGED <<dataVars, rows, view, batch, ghostVars>>

GiveUp ==
  /\ pc = "give up"
  /\ ~broken
  /\ Upsert(Current, "failed", FALSE)
  /\ Return
  /\ UNCHANGED <<dataVars, rows, broken, faults, ghostVars>>

\* A statement outside the try raises: run_polling_loop, a task nobody
\* awaits, is over, while the process and its commands go on.
LoopDies ==
  /\ pc \in {"idle", "check", "give up"}
  /\ IF broken THEN UNCHANGED faults ELSE Fault
  /\ RollBack("dead")
  /\ UNCHANGED <<dataVars, rows, ghostVars>>

----------------------------------------------------------------------------

Digest == DigestPost \/ DigestMark \/ CommitDigest

SendAlert ==
  CheckClosed \/ CheckOpen \/ Post \/ PostFails \/ Record \/ RecordFails \/ GiveUp

Step == Digest \/ List \/ SendAlert \/ CommitBatch \/ LoopDies

Next ==
  \/ Raise
  \/ Mute \/ Unmute \/ Snooze \/ SnoozeEnds
  \/ Start \/ Step \/ DigestPostFails \/ CommitUnacknowledged \/ Interrupt

Spec == Init /\ [][Next]_vars

\* The worker keeps turning once it runs; nothing says that anyone starts it
\* again.  Faults are bounded: what may fail for ever is in Undeliverable.
FairSpec == Spec /\ WF_vars(Step)

----------------------------------------------------------------------------
(* Properties *)

PCs == {"down", "digest post", "digest mark", "digest commit",
        "idle", "check", "post", "record", "give up", "dead"}

TypeOK ==
  /\ raised \in 0..NumAlerts
  /\ channel \in [muted : BOOLEAN, snoozed : BOOLEAN]
  /\ rows \in [Alerts -> Row \cup {NoRow}]
  /\ view \in [Alerts -> Row \cup {NoRow}]
  /\ pc \in PCs
  /\ batch \subseteq 1..raised
  /\ pc \in {"digest post", "digest mark"} => Cardinality(batch) <= DigestLimit
  /\ pc \notin {"digest post", "digest mark"} => Cardinality(batch) <= Limit
  /\ attempt \in 0..(Attempts + 1)
  /\ broken \in BOOLEAN
  /\ faults \in 0..MaxFaults
  /\ copies \in [Alerts -> Nat]
  /\ leaked \subseteq Alerts

\* A committed "sent" row is about an alert that is in the chat.
SentWasDelivered == \A t \in Alerts : rows[t].status = "sent" => copies[t] >= 1

\* After a terminal row is committed the alert is over: unmuting, later
\* polls and digests neither send it again nor change its row.
TerminalIsFinal ==
  [][\A t \in Alerts : rows[t].status \in Terminal =>
       rows'[t] = rows[t] /\ copies'[t] = copies[t]]_vars

\* An alert is shown once, and again at most Attempts times per failure.
CopiesBoundedByFaults == \A t \in Alerts : copies[t] <= 1 + Attempts * faults

\* A mute or snooze lets at most the alert in work slip through the poller.
MuteLeaksOneSend == Cardinality(leaked) <= 1

\* Every alert Telegram accepts gets a terminal row, unless the worker is not
\* running or its loop is dead; fewer refused alerts than the batch holds do
\* not keep it waiting.
AlertIsHandled ==
  \A t \in Alerts \ Undeliverable :
    raised >= t ~> rows[t].status \in Terminal \/ pc \in {"dead", "down"}

\* The messages that left and that only the open transaction records.
Handed ==
  {t \in Alerts : \/ view[t].status = "sent"
                  \/ pc = "record" /\ t = Current
                  \/ pc = "digest mark" /\ t \in batch}

phaseOf ==
  [t \in Alerts |-> IF rows[t].status \in Terminal THEN "settled"
                    ELSE IF t \in Handed THEN "handed" ELSE "open"]

Promise == INSTANCE AtLeastOnceDelivery WITH Items <- Alerts, phase <- phaseOf

\* The poller and the digest, alert by alert, hand over and then settle; only a
\* fault makes a message be sent again, and nothing does after the commit.
ImplementsAtLeastOnce == Promise!Spec

\* What the specification says of a failed delivery: it is left for manual
\* diagnosis, no later poll sends it again.
FailedIsLeft ==
  [][\A t \in Alerts : rows[t].status = "failed" =>
       ~(CheckOpen /\ Current = t) /\ copies'[t] = copies[t]]_vars

\* What run_polling_loop says of itself: it ends only when it is stopped.
LoopRunsUntilStopped == pc # "dead"

==============================================================================
