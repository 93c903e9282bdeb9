----------------------------- MODULE PatternTick -----------------------------
(***************************************************************************)
(* The hourly pattern tick: run_hourly_pattern_tick with AlertGate and the *)
(* pattern_triggers table.  One scheduler runs one tick at a time          *)
(* (APScheduler's max_instances = 1); each match of the tick is gated and  *)
(* persisted in a transaction of its own, and the process may stop between *)
(* any two transactions.                                                   *)
(*                                                                         *)
(* A key is a (pattern_name, asset) pair, numbered in the sort order in    *)
(* which evaluate_patterns returns its matches.  Which keys match is left  *)
(* open: any subset may, at any tick.                                      *)
(***************************************************************************)
EXTENDS Integers, Sequences, FiniteSets

CONSTANTS NumKeys,         \* number of (pattern_name, asset) keys
          Critical,        \* keys whose pattern has severity CRITICAL
          Cooldown,        \* cooldown_hours of each key, in clock units
          SoftCap, HourCap, DayCap,    \* AlertGate's caps
          HourLen, DayLen, \* clock units in an hour, in a day
          DispatchModes,   \* is a dispatcher configured? (values in use)
          MaxClock         \* bound of the clock (model bound)

Keys == 1..NumKeys

ASSUME NumKeysAssumption == NumKeys \in Nat
ASSUME CriticalAssumption == Critical \subseteq Keys
ASSUME CooldownAssumption == Cooldown \in [Keys -> Nat]
ASSUME CapsAssumption == SoftCap \in Nat /\ HourCap \in Nat /\ DayCap \in Nat
ASSUME CalendarAssumption == HourLen \in Nat \ {0} /\ DayLen \in Nat \ {0}
ASSUME DispatchModesAssumption == DispatchModes \subseteq BOOLEAN
ASSUME MaxClockAssumption == MaxClock \in Nat \ {0}

VARIABLES
  clock,      \* wall clock
  triggers,   \* committed rows of pattern_triggers
  pc,         \* "idle", "gate" (in gate_pattern_matches) or "dispatch"
  tickTs,     \* tick_ts of the running or latest tick
  dispatchOn, \* was dispatch_alerts given to that tick?
  pending,    \* keys of its matches still to be gated
  allowed,    \* keys in its allowed_matches
  handoffs,   \* argument of every dispatch_alerts call so far
  lastTick    \* how the latest finished tick ended

vars == <<clock, triggers, pc, tickTs, dispatchOn, pending, allowed, handoffs,
          lastTick>>
tickVars == <<tickTs, dispatchOn, lastTick>>

Decisions == {"ALLOW", "SUPPRESS_COOLDOWN", "SUPPRESS_HARD_CAP_DAY",
              "SUPPRESS_HARD_CAP_HOUR", "SUPPRESS_SOFT_CAP"}

\* A key matches at most once in a tick, so (key, ts) identifies a row; rows
\* of one tick are inserted, hence numbered, in key order.
Trigger == [key : Keys, ts : 1..MaxClock, decision : Decisions]

Allows == {r \in triggers : r.decision = "ALLOW"}

----------------------------------------------------------------------------
(* AlertGate *)

\* _floor_to_hour_utc and _floor_to_day_utc
WindowStart(ts, len) == ts - (ts % len)

\* MUTANT: the window ends before the running tick.
AllowsOfEarlierTicks(from, to) == {r \in Allows : from <= r.ts /\ r.ts < to - 1}

\* count_allow_in_window: from is inclusive, to is exclusive.
AllowsIn(from, to) == {r \in Allows : from <= r.ts /\ r.ts < to}

\* MUTANT: the start of the cooldown window is excluded.
CooldownHitOpen(k, ts) ==
  \E r \in Allows : r.key = k /\ ts - Cooldown[k] < r.ts /\ r.ts < ts

CooldownHit(k, ts) ==
  \E r \in Allows : r.key = k /\ ts - Cooldown[k] <= r.ts /\ r.ts < ts

\* _include_current_tick: one microsecond, the unit of timestamps.
CounterWindowEnd(ts) == ts + 1

DailyCount(ts) == Cardinality(AllowsIn(WindowStart(ts, DayLen), CounterWindowEnd(ts)))

HourlyCount(ts) == Cardinality(AllowsIn(WindowStart(ts, HourLen), CounterWindowEnd(ts)))

\* MUTANT: CRITICAL bypasses both hourly caps.
EvaluateCriticalBypass(k, ts) ==
  IF CooldownHit(k, ts) THEN "SUPPRESS_COOLDOWN"
  ELSE IF DailyCount(ts) >= DayCap THEN "SUPPRESS_HARD_CAP_DAY"
  ELSE IF k \in Critical THEN "ALLOW"
  ELSE IF HourlyCount(ts) >= HourCap THEN "SUPPRESS_HARD_CAP_HOUR"
  ELSE IF HourlyCount(ts) >= SoftCap THEN "SUPPRESS_SOFT_CAP"
  ELSE "ALLOW"

\* AlertGate.evaluate: the first check that hits decides.
Evaluate(k, ts) ==
  IF CooldownHit(k, ts) THEN "SUPPRESS_COOLDOWN"
  ELSE IF DailyCount(ts) >= DayCap THEN "SUPPRESS_HARD_CAP_DAY"
  ELSE IF HourlyCount(ts) >= HourCap THEN "SUPPRESS_HARD_CAP_HOUR"
  ELSE IF HourlyCount(ts) >= SoftCap /\ k \notin Critical THEN "SUPPRESS_SOFT_CAP"
  ELSE "ALLOW"

----------------------------------------------------------------------------
(* Initial state *)

Init ==
  /\ clock = 1
  /\ triggers = {}
  /\ pc = "idle"
  /\ tickTs = 0
  /\ dispatchOn = FALSE
  /\ pending = {}
  /\ allowed = {}
  /\ handoffs = <<>>
  /\ lastTick = "none"

----------------------------------------------------------------------------
(* The tick *)

Tick ==
  /\ clock < MaxClock
  /\ clock' = clock + 1
  /\ UNCHANGED <<triggers, pc, tickVars, pending, allowed, handoffs>>

\* tick_ts is taken, the snapshot is built and the patterns are evaluated,
\* none of which writes.  Two ticks of one scheduler never share a timestamp.
StartTick ==
  /\ pc = "idle"
  /\ clock > tickTs
  /\ tickTs' = clock
  /\ dispatchOn' \in DispatchModes
  /\ pending' \in SUBSET Keys
  /\ allowed' = {}
  /\ pc' = "gate"
  /\ UNCHANGED <<clock, triggers, handoffs, lastTick>>

\* k is the next match of gate_pattern_matches.
IsNext(k) == k \in pending /\ \A j \in pending : k <= j

Decided(k) == [key |-> k, ts |-> tickTs, decision |-> Evaluate(k, tickTs)]

\* evaluate and insert_trigger commit.
GateCommit(k) ==
  /\ pc = "gate"
  /\ IsNext(k)
  /\ triggers' = triggers \cup {Decided(k)}
  /\ allowed' = IF Evaluate(k, tickTs) = "ALLOW" THEN allowed \cup {k} ELSE allowed
  /\ pending' = pending \ {k}
  /\ UNCHANGED <<clock, pc, tickVars, handoffs>>

\* The transaction raises; the match is logged and the tick goes on.  A
\* connection lost in COMMIT raises too, with the row committed.
GateFail(k) ==
  /\ pc = "gate"
  /\ IsNext(k)
  /\ triggers' \in {triggers, triggers \cup {Decided(k)}}
  /\ pending' = pending \ {k}
  /\ UNCHANGED <<clock, pc, tickVars, allowed, handoffs>>

\* MUTANT: the whole hour is read back instead of the tick.
EventsOfHour == {r \in Allows : r.ts >= WindowStart(tickTs, HourLen)}

\* MUTANT: the events lose the decision they were persisted with.
UngatedEvents == {[key |-> r.key, ts |-> r.ts] : r \in {a \in Allows : a.ts = tickTs}}

\* dispatch_events_for_tick; the list is in id order, that is in key order.
EventsForTick == {r \in Allows : r.ts = tickTs}

\* The gated tick hands over what it finds committed for its timestamp.
HandOff ==
  /\ pc = "gate"
  /\ pending = {}
  /\ dispatchOn /\ allowed # {}
  /\ EventsForTick # {}
  /\ handoffs' = Append(handoffs, EventsForTick)
  /\ pc' = "dispatch"
  /\ UNCHANGED <<clock, triggers, tickVars, pending, allowed>>

\* MUTANT: a tick that allowed something still skips the dispatcher.
CompleteHastily ==
  /\ \/ pc = "dispatch"
     \/ pc = "gate" /\ pending = {}
  /\ pc' = "idle"
  /\ lastTick' = "completed"
  /\ UNCHANGED <<clock, triggers, tickTs, dispatchOn, pending, allowed, handoffs>>

\* The dispatcher returned, or there is nothing to hand over.
Complete ==
  /\ \/ pc = "dispatch"
     \/ /\ pc = "gate" /\ pending = {}
        /\ ~dispatchOn \/ allowed = {} \/ EventsForTick = {}
  /\ pc' = "idle"
  /\ lastTick' = "completed"
  /\ UNCHANGED <<clock, triggers, tickTs, dispatchOn, pending, allowed, handoffs>>

\* The process dies, or the snapshot, the read-back or the dispatcher raises.
Abort ==
  /\ pc # "idle"
  /\ pc' = "idle"
  /\ lastTick' = "failed"
  /\ pending' = {}
  /\ allowed' = {}
  /\ UNCHANGED <<clock, triggers, tickTs, dispatchOn, handoffs>>

----------------------------------------------------------------------------

Step == (\E k \in Keys : GateCommit(k) \/ GateFail(k)) \/ HandOff \/ Complete

Next == Tick \/ StartTick \/ Step \/ Abort

Spec == Init /\ [][Next]_vars

----------------------------------------------------------------------------
(* Properties *)

TypeOK ==
  /\ clock \in 1..MaxClock
  /\ triggers \subseteq Trigger
  /\ pc \in {"idle", "gate", "dispatch"}
  /\ tickTs \in 0..MaxClock
  /\ dispatchOn \in BOOLEAN
  /\ pending \subseteq Keys
  /\ allowed \subseteq Keys
  /\ handoffs \in Seq(SUBSET Trigger)
  /\ lastTick \in {"none", "completed", "failed"}

AllowsInWindow(t, len) == {r \in Allows : WindowStart(r.ts, len) = WindowStart(t, len)}

\* No UTC hour has more than hard_cap_per_hour ALLOW rows, no UTC day more
\* than hard_cap_per_day, whatever matches, fails or is restarted.
HardCapsRespected ==
  \A t \in 1..MaxClock :
    /\ Cardinality(AllowsInWindow(t, HourLen)) <= HourCap
    /\ Cardinality(AllowsInWindow(t, DayLen)) <= DayCap

\* Beyond soft_cap_per_hour only CRITICAL triggers get through: an hour has
\* at most that many others.
SoftCapRespected ==
  \A t \in 1..MaxClock :
    Cardinality({r \in AllowsInWindow(t, HourLen) : r.key \notin Critical}) <= SoftCap

\* Two ALLOW rows of one (pattern, asset) lie more than its cooldown apart.
CooldownRespected ==
  \A r1, r2 \in Allows :
    r1.key = r2.key /\ r1.ts <= r2.ts =>
      r1 = r2 \/ r2.ts - r1.ts > Cooldown[r1.key]

\* The dispatcher gets only committed ALLOW rows and each of them in one call
\* at most, although it is given what a fresh query finds and not what the
\* gate returned.
HandedOffOnce ==
  \A i \in DOMAIN handoffs :
    /\ handoffs[i] \subseteq Allows
    /\ \A j \in DOMAIN handoffs : i # j => handoffs[i] \cap handoffs[j] = {}

\* A completed tick with a dispatcher has handed over every match it returns.
CompletedTickDelivers ==
  pc = "idle" /\ lastTick = "completed" /\ dispatchOn =>
    \A k \in allowed : \E i \in DOMAIN handoffs : \E r \in handoffs[i] :
      r.key = k /\ r.ts = tickTs

==============================================================================
