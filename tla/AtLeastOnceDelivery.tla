------------------------ MODULE AtLeastOnceDelivery ------------------------
(***************************************************************************)
(* What a worker promises that commits once per batch and sends as it      *)
(* goes: an item is handed over and later settled, and nothing is sent     *)
(* about it once it is settled.  A second message about it takes a fault   *)
(* after the first one: a message whose fate the worker never learns, or   *)
(* one it forgets with its transaction.                                    *)
(***************************************************************************)
EXTENDS Naturals

CONSTANTS Items

VARIABLES phase,      \* phase[i]: "open", "handed" over or "settled"
          copies      \* copies[i]: messages about i that reached the chat

absvars == <<phase, copies>>

In(p) == {i \in Items : phase[i] = p}

Into(p, S) == phase' = [i \in Items |-> IF i \in S THEN p ELSE phase[i]]

Shown(S) == copies' = [i \in Items |-> IF i \in S THEN copies[i] + 1 ELSE copies[i]]

Init ==
  /\ phase = [i \in Items |-> "open"]
  /\ copies = [i \in Items |-> 0]

\* Open items are handed over; a message that has nothing to reply to any more
\* is not shown.
HandOver ==
  \E S \in SUBSET In("open") : Into("handed", S) /\ \E R \in SUBSET S : Shown(R)

\* Messages about open items may have left, and what was handed over is
\* forgotten.
Fault ==
  \E R \in SUBSET In("open"), S \in SUBSET In("handed") : Shown(R) /\ Into("open", S)

\* The outcome is committed, with or without a message: some items are given up.
Settle ==
  \E S \in SUBSET (In("open") \cup In("handed")) : Into("settled", S) /\ UNCHANGED copies

Next == HandOver \/ Fault \/ Settle

Spec == Init /\ [][Next]_absvars
=============================================================================
