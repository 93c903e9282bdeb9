--------------------------- MODULE DispatchRuntime ---------------------------
(***************************************************************************)
(* The Phase 2 dispatch runtime: DispatchRuntimeService.dispatch_events    *)
(* over the alert_deliveries table (DispatchDeliveryRepository, channel    *)
(* telegram), with the retry loop of TelegramBaseSender inside a round.    *)
(*                                                                         *)
(* A dispatcher is one running service (a scheduler process; two of them   *)
(* overlap when one is started while another still runs).  Each database   *)
(* transaction is one action, each HTTP post is one action, and a process  *)
(* may stop between any two of them.                                       *)
(***************************************************************************)
EXTENDS Integers, Sequences, FiniteSetsExt

CONSTANTS Dispatchers,   \* running dispatch services
          Alerts,        \* ids of ALLOW pattern triggers
          Batches,       \* event lists a caller may pass, each in id order
          SenderModes,   \* values of TelegramBaseSender.enabled in use
          RetryBudget,   \* TelegramBaseSender.retry_budget
          StaleTimeout,  \* stale_sending_timeout_minutes, in clock units
          MaxClock       \* bound of the clock (model bound)

ASSUME BatchesAssumption == Batches \subseteq Seq(Alerts) \ {<<>>}
ASSUME SenderModesAssumption == SenderModes \subseteq BOOLEAN
ASSUME RetryBudgetAssumption == RetryBudget \in Nat
ASSUME StaleTimeoutAssumption == StaleTimeout \in Nat \ {0}
ASSUME MaxClockAssumption == MaxClock \in Nat \ {0}

VARIABLES
  clock,     \* wall clock, shared by the processes and the database
  alertTs,   \* alertTs[a]: pattern_triggers.ts, 0 while a is not raised
  rows,      \* rows[a]: the alert_deliveries row (a, "telegram"), or NoRow
  pc,        \* pc[d]: where dispatch_events of d stands
  events,    \* events[d]: the argument of the running call
  pos,       \* pos[d]: index of the event in work
  senderOn,  \* senderOn[d]: TelegramBaseSender.enabled of the call's sender
  staleIds,  \* staleIds[d]: rows the recovery of d has selected
  tries,     \* tries[d]: posts made in the running round
  outcome,   \* outcome[d]: status of the TelegramSendResult to persist
  copies,    \* copies[a]: messages about a that reached the chat (ghost)
  rounds,    \* rounds[a]: reservations granted for a, each the go-ahead of
             \* one call of sender.send (ghost)
  overlapped \* were two calls ever in progress at once? (ghost)

tableVars == <<rows>>
callVars == <<events, pos, senderOn, staleIds, tries, outcome>>
ghostVars == <<copies, rounds, overlapped>>
vars == <<clock, alertTs, rows, pc, events, pos, senderOn, staleIds, tries,
          outcome, copies, rounds, overlapped>>

----------------------------------------------------------------------------
(* The table *)

Terminal == {"sent", "failed", "skipped_disabled"}
Statuses == Terminal \cup {"sending"}

\* error: what a reader of the row sees as the reason.  The message id and
\* sent_at are set exactly when the status is "sent", so they are left out.
Row == [status : Statuses,
        error  : {"none", "send_error", "stale_recovered"},
        updatedAt : 0..MaxClock]
NoRow == [status |-> "absent", error |-> "none", updatedAt |-> 0]

Exists(a) == rows[a].status # "absent"

SendingRow == [status |-> "sending", error |-> "none", updatedAt |-> clock]

RecoveredRow(ts) ==
  [status |-> "failed", error |-> "stale_recovered", updatedAt |-> ts]

\* delivery_row_from_telegram_result, with now = completed_at = event.ts
FinalRow(status, ts) ==
  [status |-> status,
   error |-> IF status = "failed" THEN "send_error" ELSE "none",
   updatedAt |-> ts]

----------------------------------------------------------------------------
(* The call in progress *)

Current(d) == events[d][pos[d]]

EventTimes(d) == {alertTs[events[d][i]] : i \in DOMAIN events[d]}

\* batch_ts = min(event.ts for event in events)
BatchTs(d) == Min(EventTimes(d))

\* MUTANT: the timeout is forgotten.
CutoffWithoutTimeout(d) == BatchTs(d)

Cutoff(d) == BatchTs(d) - StaleTimeout

\* d holds the reservation of a and has not finished its round.
InFlight(d, a) == pc[d] \in {"send", "finalize"} /\ Current(d) = a

----------------------------------------------------------------------------
(* The transport, as TelegramHttpClient.send_message classifies it *)

Responses == {"accepted", "transport_error", "throttled", "server_error",
              "rejected", "malformed", "raised"}

\* Posts whose message may be in the chat although no success was seen.
Ambiguous == {"transport_error", "server_error", "malformed", "raised"}

Retryable == {"transport_error", "throttled", "server_error"}

\* Whether the message of a post with that response is in the chat.
Reaches(resp) ==
  {b \in BOOLEAN : /\ resp = "accepted" => b
                   /\ resp \notin Ambiguous \cup {"accepted"} => ~b}

----------------------------------------------------------------------------
(* Initial state *)

IdleOutcome == "none"

Init ==
  /\ clock = 1
  /\ alertTs = [a \in Alerts |-> 0]
  /\ rows = [a \in Alerts |-> NoRow]
  /\ pc = [d \in Dispatchers |-> "idle"]
  /\ events = [d \in Dispatchers |-> <<>>]
  /\ pos = [d \in Dispatchers |-> 1]
  /\ senderOn = [d \in Dispatchers |-> TRUE]
  /\ staleIds = [d \in Dispatchers |-> {}]
  /\ tries = [d \in Dispatchers |-> 0]
  /\ outcome = [d \in Dispatchers |-> IdleOutcome]
  /\ copies = [a \in Alerts |-> 0]
  /\ rounds = [a \in Alerts |-> 0]
  /\ overlapped = FALSE

----------------------------------------------------------------------------
(* The environment: time passes and the pattern tick commits ALLOW triggers *)

Tick ==
  /\ clock < MaxClock
  /\ clock' = clock + 1
  /\ UNCHANGED <<alertTs, rows, pc, callVars, ghostVars>>

Raise(a) ==
  /\ alertTs[a] = 0
  /\ alertTs' = [alertTs EXCEPT ![a] = clock]
  /\ UNCHANGED <<clock, rows, pc, callVars, ghostVars>>

----------------------------------------------------------------------------
(* dispatch_events *)

Call(d) ==
  /\ pc[d] = "idle"
  /\ \E b \in Batches, on \in SenderModes :
       /\ \A i \in DOMAIN b : alertTs[b[i]] # 0
       /\ events' = [events EXCEPT ![d] = b]
       /\ senderOn' = [senderOn EXCEPT ![d] = on]
  /\ pos' = [pos EXCEPT ![d] = 1]
  /\ pc' = [pc EXCEPT ![d] = "recover"]
  /\ overlapped' = (overlapped \/ \E e \in Dispatchers : pc[e] # "idle")
  /\ UNCHANGED <<clock, alertTs, rows, staleIds, tries, outcome, copies, rounds>>

\* MUTANT: only the rows of the batch itself are examined.
StaleOfBatch(d) ==
  {a \in {events[d][i] : i \in DOMAIN events[d]} :
     rows[a].status = "sending" /\ rows[a].updatedAt < Cutoff(d)}

\* MUTANT: the status filter is lost.
StaleAnyStatus(d) == {a \in Alerts : Exists(a) /\ rows[a].updatedAt < Cutoff(d)}

StaleRows(d) ==
  {a \in Alerts : rows[a].status = "sending" /\ rows[a].updatedAt < Cutoff(d)}

\* The SELECT of recover_stale_sending_deliveries.
SelectStale(d) ==
  /\ pc[d] = "recover"
  /\ staleIds' = [staleIds EXCEPT ![d] = StaleRows(d)]
  /\ pc' = [pc EXCEPT ![d] = IF StaleRows(d) = {} THEN "reserve" ELSE "mark"]
  /\ UNCHANGED <<clock, alertTs, rows, events, pos, senderOn, tries, outcome,
                 ghostVars>>

\* MUTANT: recovery deletes the stale rows, so that the alerts are retried.
DeleteStale(d) ==
  /\ pc[d] = "mark"
  /\ rows' = [a \in Alerts |-> IF a \in staleIds[d] THEN NoRow ELSE rows[a]]
  /\ staleIds' = [staleIds EXCEPT ![d] = {}]
  /\ pc' = [pc EXCEPT ![d] = "reserve"]
  /\ UNCHANGED <<clock, alertTs, events, pos, senderOn, tries, outcome, ghostVars>>

\* Its UPDATE: by id alone, in a later statement than the SELECT.
MarkStale(d) ==
  /\ pc[d] = "mark"
  /\ rows' = [a \in Alerts |->
       IF a \in staleIds[d] THEN RecoveredRow(BatchTs(d)) ELSE rows[a]]
  /\ staleIds' = [staleIds EXCEPT ![d] = {}]
  /\ pc' = [pc EXCEPT ![d] = "reserve"]
  /\ UNCHANGED <<clock, alertTs, events, pos, senderOn, tries, outcome, ghostVars>>

\* MUTANT: a reservation that is not terminal is taken over by the next call.
ReserveUnlessTerminal(d) ==
  /\ pc[d] = "reserve"
  /\ pos[d] <= Len(events[d])
  /\ rows[Current(d)].status \notin Terminal
  /\ rows' = [rows EXCEPT ![Current(d)] = SendingRow]
  /\ rounds' = [rounds EXCEPT ![Current(d)] = @ + 1]
  /\ pc' = [pc EXCEPT ![d] = "send"]
  /\ UNCHANGED <<clock, alertTs, callVars, copies, overlapped>>

\* _reserve_delivery: INSERT .. ON CONFLICT DO NOTHING of a "sending" row.
Reserve(d) ==
  /\ pc[d] = "reserve"
  /\ pos[d] <= Len(events[d])
  /\ ~Exists(Current(d))
  /\ rows' = [rows EXCEPT ![Current(d)] = SendingRow]
  /\ rounds' = [rounds EXCEPT ![Current(d)] = @ + 1]
  /\ pc' = [pc EXCEPT ![d] = "send"]
  /\ UNCHANGED <<clock, alertTs, callVars, copies, overlapped>>

\* The insert conflicts: the event is skipped as a duplicate.
SkipDuplicate(d) ==
  /\ pc[d] = "reserve"
  /\ pos[d] <= Len(events[d])
  /\ Exists(Current(d))
  /\ pos' = [pos EXCEPT ![d] = @ + 1]
  /\ UNCHANGED <<clock, alertTs, rows, pc, events, senderOn, staleIds, tries,
                 outcome, ghostVars>>

\* MUTANT: one retry too many.
RetriesOffByOne(d, resp) == resp \in Retryable /\ tries[d] <= RetryBudget

\* MUTANT: a throttled post is tried again whatever is left of the budget.
RetriesWhenThrottled(d, resp) ==
  resp = "throttled" \/ (resp \in Retryable /\ tries[d] < RetryBudget)

\* The sender turns its loop once more.
Retries(d, resp) == resp \in Retryable /\ tries[d] < RetryBudget

\* MUTANT: an ambiguous post is reported as sent.
ResultOptimistic(resp) == IF resp \in Ambiguous \cup {"accepted"} THEN "sent" ELSE "failed"

Result(resp) == IF resp = "accepted" THEN "sent" ELSE "failed"

\* One turn of the sender's loop: a post, its classification, and either
\* another turn or the result of send.
Post(d) ==
  /\ pc[d] = "send"
  /\ senderOn[d]
  /\ \E resp \in Responses : \E reached \in Reaches(resp) :
       /\ copies' = [copies EXCEPT ![Current(d)] = IF reached THEN @ + 1 ELSE @]
       /\ IF Retries(d, resp)
          THEN /\ tries' = [tries EXCEPT ![d] = @ + 1]
               /\ UNCHANGED <<pc, outcome>>
          ELSE /\ tries' = [tries EXCEPT ![d] = 0]
               /\ outcome' = [outcome EXCEPT ![d] = Result(resp)]
               /\ pc' = [pc EXCEPT ![d] = "finalize"]
  /\ UNCHANGED <<clock, alertTs, rows, events, pos, senderOn, staleIds, rounds,
                 overlapped>>

\* send of a disabled TelegramBaseSender: no post at all.
SkipDisabled(d) ==
  /\ pc[d] = "send"
  /\ ~senderOn[d]
  /\ outcome' = [outcome EXCEPT ![d] = "skipped_disabled"]
  /\ pc' = [pc EXCEPT ![d] = "finalize"]
  /\ UNCHANGED <<clock, alertTs, rows, events, pos, senderOn, staleIds, tries,
                 ghostVars>>

\* _finalize_delivery: UPDATE by row id, whatever the row's status is now.
\* The optional AI worker runs after the commit and touches none of this.
Finalize(d) ==
  /\ pc[d] = "finalize"
  /\ rows' = [rows EXCEPT ![Current(d)] =
                FinalRow(outcome[d], alertTs[Current(d)])]
  /\ outcome' = [outcome EXCEPT ![d] = IdleOutcome]
  /\ pos' = [pos EXCEPT ![d] = @ + 1]
  /\ pc' = [pc EXCEPT ![d] = "reserve"]
  /\ UNCHANGED <<clock, alertTs, events, senderOn, staleIds, tries, ghostVars>>

GoIdle(d) ==
  /\ pc' = [pc EXCEPT ![d] = "idle"]
  /\ events' = [events EXCEPT ![d] = <<>>]
  /\ pos' = [pos EXCEPT ![d] = 1]
  /\ senderOn' = [senderOn EXCEPT ![d] = TRUE]
  /\ staleIds' = [staleIds EXCEPT ![d] = {}]
  /\ tries' = [tries EXCEPT ![d] = 0]
  /\ outcome' = [outcome EXCEPT ![d] = IdleOutcome]
  /\ UNCHANGED <<clock, alertTs, rows, ghostVars>>

Return(d) ==
  /\ pc[d] = "reserve"
  /\ pos[d] > Len(events[d])
  /\ GoIdle(d)

\* The process dies, or a transaction raises and dispatch_events propagates:
\* the rest of the batch is abandoned, what is committed stays.
Abort(d) ==
  /\ pc[d] # "idle"
  /\ GoIdle(d)

----------------------------------------------------------------------------

Step(d) ==
  \/ SelectStale(d) \/ MarkStale(d) \/ Reserve(d) \/ SkipDuplicate(d)
  \/ Post(d) \/ SkipDisabled(d) \/ Finalize(d) \/ Return(d)

Next ==
  \/ Tick
  \/ \E a \in Alerts : Raise(a)
  \/ \E d \in Dispatchers : Call(d) \/ Step(d) \/ Abort(d)

Spec == Init /\ [][Next]_vars

----------------------------------------------------------------------------
(* Properties *)

PCs == {"idle", "recover", "mark", "reserve", "send", "finalize"}

TypeOK ==
  /\ clock \in 1..MaxClock
  /\ alertTs \in [Alerts -> 0..MaxClock]
  /\ rows \in [Alerts -> Row \cup {NoRow}]
  /\ pc \in [Dispatchers -> PCs]
  /\ events \in [Dispatchers -> Batches \cup {<<>>}]
  /\ pos \in [Dispatchers -> Nat \ {0}]
  /\ senderOn \in [Dispatchers -> BOOLEAN]
  /\ staleIds \in [Dispatchers -> SUBSET Alerts]
  /\ tries \in [Dispatchers -> 0..RetryBudget]
  /\ outcome \in [Dispatchers -> Terminal \cup {IdleOutcome}]
  /\ copies \in [Alerts -> Nat]
  /\ rounds \in [Alerts -> Nat]
  /\ overlapped \in BOOLEAN

\* Idempotency key: an alert is reserved for sending at most once, by at most
\* one process, whatever crashes, retried ticks and overlapping
\* processes do (the reservation is inserted before the send, never removed).
OneRoundPerAlert ==
  \A a \in Alerts :
    /\ rounds[a] <= 1
    /\ \A d1, d2 \in Dispatchers : InFlight(d1, a) /\ InFlight(d2, a) => d1 = d2

\* The chat never gets more than 1 + retry_budget messages about an alert,
\* even when every post that "fails" was in fact delivered.
BoundedCopies == \A a \in Alerts : copies[a] <= RetryBudget + 1

\* What the table says about the chat is true, whoever wrote the row last:
\* "sent" is backed by a message, "skipped_disabled" and the absence of a row
\* by none.
RowMatchesChat ==
  \A a \in Alerts :
    /\ rows[a].status = "sent" => copies[a] >= 1
    /\ rows[a].status \in {"absent", "skipped_disabled"} => copies[a] = 0

\* Once a call is past its recovery, no reservation older than its cutoff is
\* left as "sending", however many processes reserve in the meantime.
NoStaleRowAfterRecovery ==
  \A d \in Dispatchers : pc[d] \in {"reserve", "send", "finalize"} =>
    \A a \in Alerts :
      rows[a].status = "sending" => rows[a].updatedAt >= Cutoff(d)

\* Recovery never fails a round younger than the timeout on the wall clock,
\* although its cutoff is computed from event timestamps.
RecoveryIsConservative ==
  [][\A a \in Alerts :
       /\ rows[a].status = "sending"
       /\ rows'[a].error = "stale_recovered"
       => clock - rows[a].updatedAt > StaleTimeout]_vars

\* Until two calls overlap, a terminal row is never rewritten, whatever crashes
\* and failed transactions leave behind (the deployment runs a single scheduler).
\* Overlapping calls break it, because neither the recovery UPDATE nor
\* finalize_delivery looks at the status.
TerminalIsFinal ==
  [][~overlapped' => \A a \in Alerts : rows[a].status \in Terminal => rows'[a] = rows[a]]_vars

\* Every call ends: nothing but the budget bounds the loop of the sender, being
\* throttled included, and no event is come back to, so that each step of a call
\* leaves less to do: an event takes RetryBudget + 3 steps at most.
StepsLeft(d) ==
  (Len(events[d]) - pos[d] + 1) * (RetryBudget + 3)
    + [idle |-> 0, recover |-> 3, mark |-> 2, reserve |-> 1, send |-> -tries[d],
       finalize |-> -RetryBudget - 1][pc[d]]
EachStepCounts ==
  [][\A d \in Dispatchers : Step(d) => StepsLeft(d)' \in 0..(StepsLeft(d) - 1)]_vars

----------------------------------------------------------------------------
(* What the runtime implements *)

phaseOf ==
  [a \in Alerts |->
     IF ~Exists(a) THEN "fresh"
     ELSE IF \E d \in Dispatchers : InFlight(d, a) THEN "sending"
     ELSE "settled"]

Promise == INSTANCE AtMostOnceDelivery
             WITH MaxCopies <- RetryBudget + 1, phase <- phaseOf

\* Every behaviour of the runtime, seen alert by alert, is one of the
\* abstract specification: one round of at most 1 + retry_budget posts, and
\* silence after it, through crashes, recovery and overlapping processes.
ImplementsAtMostOnce == Promise!Spec

\* docs/process/PHASE2_PRODUCTION_ROLLOUT.md reads a row recovered from
\* "sending" as: the previous tick crashed before finalizing, the alert was
\* not sent.
RecoveredWasNotSent ==
  \A a \in Alerts : rows[a].error = "stale_recovered" => copies[a] = 0

=============================================================================
