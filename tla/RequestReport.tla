---------------------------- MODULE RequestReport ----------------------------
(***************************************************************************)
(* What a driver that reports once per request promises, whatever carries  *)
(* the report: the events of a request are collected in order; when the    *)
(* request ends each endpoint is offered the whole batch at most once, and *)
(* may miss it; then the batch is forgotten, before the next one begins.   *)
(* An endpoint can also hold up the one that reports to it for ever.       *)
(***************************************************************************)
EXTENDS Naturals, Sequences

CONSTANTS Endpoints, Events

VARIABLES
  stage,      \* closed, open (collecting), publishing, or stalled in it
  batch,      \* the events of the request, in order
  offered,    \* endpoints the batch was offered to
  out         \* [endpoint -> the batches it received]

vars == <<stage, batch, offered, out>>

Init == /\ stage = "closed" /\ batch = <<>> /\ offered = {}
        /\ out = [e \in Endpoints |-> <<>>]

Begin == /\ stage = "closed" /\ stage' = "open"
         /\ UNCHANGED <<batch, offered, out>>

Collect == /\ stage = "open"
           /\ \E e \in Events : batch' = Append(batch, e)
           /\ UNCHANGED <<stage, offered, out>>

Finish == /\ stage = "open" /\ stage' = "publishing"
          /\ UNCHANGED <<batch, offered, out>>

Offer(e) == /\ stage = "publishing" /\ e \notin offered
            /\ offered' = offered \union {e}
            /\ out' \in {out, [out EXCEPT ![e] = Append(@, batch)]}
            /\ UNCHANGED <<stage, batch>>

Stall == /\ stage = "publishing" /\ stage' = "stalled"
         /\ UNCHANGED <<batch, offered, out>>

Forget == /\ stage = "publishing" /\ stage' = "closed"
          /\ batch' = <<>> /\ offered' = {} /\ UNCHANGED out

Next == Begin \/ Collect \/ Finish \/ (\E e \in Endpoints : Offer(e)) \/ Stall \/ Forget

\* A request that ends is reported and forgotten, unless that is stalled; one need
\* not begin or end.
Spec == Init /\ [][Next]_vars
             /\ WF_vars((\E e \in Endpoints : Offer(e)) \/ Forget)
=============================================================================
