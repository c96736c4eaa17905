----------------------------- MODULE FillLedger -----------------------------
(***************************************************************************)
(* What the fill accounting of MexcExecutionGateway promises the execution *)
(* core: contracts are credited only after the venue dealt them, each      *)
(* once, to the account's own orders; the core is told the state of its    *)
(* orders, an end only of orders that are over, and nothing after an end.  *)
(* Threads, events, outages and fill ids do not appear.                    *)
(***************************************************************************)
EXTENDS Integers

CONSTANTS
  Orders,   \* orders of the account
  Foreign,  \* those placed by hand
  MaxVol    \* contracts of an order

VARIABLES
  deal,      \* contracts the venue dealt
  over,      \* orders that are over
  credited,  \* contracts the core was credited
  told       \* the last order update

vars == <<deal, over, credited, told>>

Own == Orders \ Foreign
Ends == {"Filled", "Cancelled", "Rejected"}

Init ==
  /\ deal = [o \in Orders |-> 0] /\ over = {}
  /\ credited = [o \in Orders |-> 0] /\ told = [o \in Orders |-> "none"]

\* The venue deals contracts of an order, the last ones with its end.
Deal(o) ==
  /\ o \notin over
  /\ \E d \in deal[o]..MaxVol : deal' = [deal EXCEPT ![o] = d]
  /\ over' \in {over, over \cup {o}}
  /\ UNCHANGED <<credited, told>>

Credit(o) ==
  /\ \E c \in credited[o]..deal[o] : credited' = [credited EXCEPT ![o] = c]
  /\ UNCHANGED <<deal, over, told>>

Tell(o) ==
  /\ told[o] \notin Ends
  /\ \/ told' = [told EXCEPT ![o] = "Accepted"]
     \/ o \in over /\ \E u \in Ends : told' = [told EXCEPT ![o] = u]
  /\ UNCHANGED <<deal, over, credited>>

Next == \/ \E o \in Orders : Deal(o)
        \/ \E o \in Own : Credit(o) \/ Tell(o)

Spec == Init /\ [][Next]_vars

=============================================================================
