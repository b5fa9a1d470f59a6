---------------------------- MODULE RequestStore ----------------------------
(***************************************************************************)
(* What a driver that stores in a database shared by many processes        *)
(* promises: a request has at most one row, and what is stored for it      *)
(* refers to that row or to none.  Excused are the requests whose row the  *)
(* server refused (no driver can say whose id it then gets to know) and     *)
(* those that the driver was not told of while it held another one's id.    *)
(* The actions read the row that is stored off the table it ends up in.     *)
(***************************************************************************)
EXTENDS Naturals, Sequences

CONSTANT Databases

VARIABLES
  requests,     \* [database -> the owner of each row, by id]
  children,     \* [database -> rows of events and statistics]
  excused

vars == <<requests, children, excused>>

Init ==
  /\ requests = [f \in Databases |-> <<>>] /\ children = [f \in Databases |-> <<>>]
  /\ excused = {}

HasRow(o) == \E f \in Databases : \E i \in DOMAIN requests[f] : requests[f][i] = o

StoreRequest(f) ==
  /\ requests'[f] # <<>>
  /\ LET o == requests'[f][Len(requests'[f])]
     IN ~HasRow(o) /\ requests' = [requests EXCEPT ![f] = Append(@, o)]
  /\ UNCHANGED <<children, excused>>

RefersRightly(f, row) ==
  \/ row.request_id = 0
  \/ /\ row.request_id \in DOMAIN requests[f]
     /\ requests[f][row.request_id] = row.owner
  \/ row.owner \in excused

StoreChild(f) ==
  /\ children'[f] # <<>>
  /\ LET row == children'[f][Len(children'[f])]
     IN RefersRightly(f, row) /\ children' = [children EXCEPT ![f] = Append(@, row)]
  /\ UNCHANGED <<requests, excused>>

Excuse == excused \subseteq excused' /\ UNCHANGED <<requests, children>>

Next == (\E f \in Databases : StoreRequest(f) \/ StoreChild(f)) \/ Excuse

Spec == Init /\ [][Next]_vars

-----------------------------------------------------------------------------
\* No request has two rows, in one database or in two.
OneRow ==
  \A f, g \in Databases : \A i \in DOMAIN requests[f] : \A j \in DOMAIN requests[g] :
    requests[f][i] = requests[g][j] => f = g /\ i = j

\* What was stored for a request refers to its row, also after all that followed.
AllRefer ==
  \A f \in Databases : \A k \in DOMAIN children[f] : RefersRightly(f, children[f][k])
=============================================================================
