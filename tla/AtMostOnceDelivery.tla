------------------------- MODULE AtMostOnceDelivery -------------------------
(***************************************************************************)
(* What the dispatch layer promises about one alert, whatever processes,   *)
(* tables and clocks implement it: an alert is handed to Telegram in at    *)
(* most one round of at most MaxCopies posts, and once that round is over  *)
(* (finalized, abandoned by a crash or declared stale) no further message  *)
(* is ever posted for it.                                                  *)
(***************************************************************************)
EXTENDS Naturals

CONSTANTS Alerts,     \* ids of the persisted ALLOW pattern triggers
          MaxCopies   \* posts one round may make

VARIABLES phase,      \* phase[a]: "fresh", then "sending", then "settled"
          copies      \* copies[a]: messages about a that reached the chat

absvars == <<phase, copies>>

Init ==
  /\ phase = [a \in Alerts |-> "fresh"]
  /\ copies = [a \in Alerts |-> 0]

\* The round of a starts: its idempotency key has just been taken.
Begin(a) ==
  /\ phase[a] = "fresh"
  /\ phase' = [phase EXCEPT ![a] = "sending"]
  /\ UNCHANGED copies

\* A post of the running round reaches the chat.
Deliver(a) ==
  /\ phase[a] = "sending"
  /\ copies[a] < MaxCopies
  /\ copies' = [copies EXCEPT ![a] = @ + 1]
  /\ UNCHANGED phase

\* The round ends, for good.
Settle(a) ==
  /\ phase[a] = "sending"
  /\ phase' = [phase EXCEPT ![a] = "settled"]
  /\ UNCHANGED copies

Next == \E a \in Alerts : Begin(a) \/ Deliver(a) \/ Settle(a)

Spec == Init /\ [][Next]_absvars
=============================================================================
