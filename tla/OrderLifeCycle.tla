--------------------------- MODULE OrderLifeCycle ---------------------------
(***************************************************************************)
(* What the exchange promises the owner of an order: the execution reports *)
(* of the order, in the order in which they are sent, and nothing else.    *)
(* view[i] is the status, quantity and cumulative executed quantity of the *)
(* last report of order i.                                                 *)
(***************************************************************************)
EXTENDS Integers

CONSTANTS MaxOrders, Quantities

VARIABLE view

OrderIds == 1 .. MaxOrders

Init == view = [i \in OrderIds |-> [status |-> "NONE", quantity |-> 0, executed |-> 0]]

Open(i) == view[i].status \in {"ACCEPTED", "PARTIALLY_FILLED"}

(* The first report of an order. *)
Accept(i, q) ==
  /\ view[i].status = "NONE"
  /\ view' = [view EXCEPT ![i] = [status |-> "ACCEPTED", quantity |-> q, executed |-> 0]]

(* A trade of n more shares; FILLED exactly when it completes the order. *)
Fill(i, n) ==
  /\ Open(i)
  /\ n <= view[i].quantity - view[i].executed
  /\ view' = [view EXCEPT ![i].executed = @ + n,
                          ![i].status = IF n = view[i].quantity - view[i].executed
                                        THEN "FILLED" ELSE "PARTIALLY_FILLED"]

Cancel(i) ==
  /\ Open(i)
  /\ view' = [view EXCEPT ![i].status = "CANCELED"]

Next ==
  \E i \in OrderIds :
    \/ \E q \in Quantities : Accept(i, q)
    \/ \E n \in 1 .. view[i].quantity : Fill(i, n)
    \/ Cancel(i)

Spec == Init /\ [][Next]_view
=============================================================================
