------------------------------- MODULE Outbox -------------------------------
(***************************************************************************)
(* What a driver that sends its documents in batches promises: documents   *)
(* are numbered as they are made, they wait in that order, and a batch     *)
(* that leaves is stored whole, in order and once, or not at all.          *)
(***************************************************************************)
EXTENDS Naturals, Sequences

VARIABLES
  made,         \* how many documents there are
  waiting,      \* those not sent yet
  stored        \* what the server has

vars == <<made, waiting, stored>>

Init == made = 0 /\ waiting = <<>> /\ stored = <<>>

\* The documents `queue' wait on, or leave.
Settle(queue) ==
  \/ waiting' = queue /\ UNCHANGED stored
  \/ waiting' = <<>> /\ stored' \in {stored, stored \o queue}

Put == made' = made + 1 /\ Settle(Append(waiting, made'))

Flush == UNCHANGED made /\ Settle(waiting)

Next == Put \/ Flush

Spec == Init /\ [][Next]_vars

\* Nothing is stored twice, and nothing overtakes.
Increasing(s) == \A i, j \in DOMAIN s : i < j => s[i] < s[j]
InOrder ==
  /\ Increasing(stored) /\ Increasing(waiting)
  /\ \A i \in DOMAIN stored : \A j \in DOMAIN waiting : stored[i] < waiting[j]
=============================================================================
